--------------------------- MODULE LspRenameProofs ---------------------------
(***************************************************************************)
(* Proofs about the rename of LspRename: what its replay keeps, what each  *)
(* operation of the plan does to the disk however far the commit gets, and *)
(* that the buffers, the audit and -- for the batches that take no path's  *)
(* file away twice -- the disk itself agree with what the batch means.     *)
(***************************************************************************)
EXTENDS LspRename, SequenceTheorems, WellFoundedInduction, TLAPS

(* The values.                                                             *)

Sites == {"", "sym", "other", "new"}

Texts == [of : File \cup {"missing", "blank"}, site : Sites, drift : BOOLEAN, edits : Nat]

\* A file that can be read holds a text of its own.
IsDisk(d) ==
  /\ d \in [File -> [kind : {"absent", "file", "link", "dir"}, text : Texts]]
  /\ \A u \in File :
       /\ Read(d, u) = Missing \/ (Read(d, u).of = u /\ d[u].kind \in {"file", "link"})
       /\ d[u].kind = "file" => Read(d, u).of = u

IsOperation(op) ==
  /\ op \in [kind : Kinds, uri : File, to : File,
             overwrite : BOOLEAN, ignore : BOOLEAN, recursive : BOOLEAN,
             site : {"plain", "confirm", "overlap"}]
  /\ op.kind = "rename" => op.uri # op.to

Fates == [live : BOOLEAN, at : File \cup {"deleted", "nowhere"}, text : Texts]

Reasons ==
  {"", "conflict", "not a regular file", "changed", "exists", "does not exist", "cycle",
   "already a target", "created or edited in this edit", "was renamed", "unreadable", "throws"}

ReplayStates ==
  [fate       : [File -> Fates],
   order      : Seq(File),
   alias      : [File -> File],
   created    : SUBSET File,
   replaced   : SUBSET File,
   renamedOld : SUBSET File,
   clobbered  : SUBSET File,
   overwrites : SUBSET File,
   expected   : {None} \cup Sites,
   refused    : Reasons]

-----------------------------------------------------------------------------
(* What the replay keeps.                                                  *)

\* The order lists the files the batch touches, once.
Ordered(r) ==
  /\ \A o \in File : r.fate[o] # NoFate <=> \E i \in DOMAIN r.order : r.order[i] = o
  /\ \A i, j \in DOMAIN r.order : r.order[i] = r.order[j] => i = j

Lifeless(r) == \A o \in File : ~ r.fate[o].live => r.fate[o] \in {NoFate, Deleted}

\* A live file ends at a path that stands for it.
Homed(r) ==
  \A o \in File : r.fate[o].live => r.fate[o].at \in File /\ r.alias[r.fate[o].at] = o

\* A path that stands for another file had none of its own to lose, or its
\* file was deleted, or overwritten.
Freed(r, d) ==
  /\ \A w \in File : r.alias[w] # w =>
       /\ r.fate[r.alias[w]] # NoFate
       /\ ~ r.fate[w].live
       /\ Read(d, w) = Missing \/ w \in r.clobbered \/ r.fate[w] = Deleted
  /\ \A w \in r.clobbered : r.alias[w] # w /\ d[w].kind = "file"

\* The text of a live file is its own, edited or not, unless it is new.
Contained(r) ==
  \A o \in File : r.fate[o].live =>
    r.fate[o].text.of = IF o \in r.created \cup r.replaced THEN "blank" ELSE o

Founded(r, d) ==
  \A o \in File :
    /\ o \in r.replaced => d[o].kind = "file"
    /\ o \in r.created \cup r.replaced => r.fate[o] # NoFate
    /\ r.fate[o] # NoFate /\ o \notin r.created => Read(d, o) # Missing

ReplayInv(r, d) ==
  /\ r \in ReplayStates
  /\ Ordered(r) /\ Lifeless(r) /\ Homed(r) /\ Freed(r, d) /\ Contained(r) /\ Founded(r, d)

-----------------------------------------------------------------------------
(* Induction over the natural numbers: a least counterexample.             *)

LEMMA Least ==
  ASSUME NEW Bad \in SUBSET Nat, Bad # {}
  PROVE  \E n \in Bad : \A k \in Bad : n <= k
<1>1. PICK n \in Bad : \A k \in Bad : ~ (<<k, n>> \in OpToRel(<, Nat))
  BY NatLessThanWellFounded, WFMin
<1>2. \A k \in Bad : ~ (k < n)
  BY <1>1 DEF OpToRel
<1> QED BY <1>2

\* What holds of no operations and is kept by one more holds of all of them.
LEMMA UpTo ==
  ASSUME NEW n \in Nat, NEW Good, 0 \in Good, \A i \in 1 .. n : i - 1 \in Good => i \in Good
  PROVE  \A i \in 0 .. n : i \in Good
<1> DEFINE Bad == {i \in 0 .. n : i \notin Good}
<1> SUFFICES ASSUME Bad # {} PROVE FALSE
  OBVIOUS
<1>1. PICK i \in Bad : \A k \in Bad : i <= k
  <2>1. Bad \in SUBSET Nat /\ Bad # {}
    OBVIOUS
  <2> HIDE DEF Bad
  <2> QED BY <2>1, Least
<1>2. i \in 1 .. n /\ i - 1 \in 0 .. n /\ i - 1 \notin Bad
  BY <1>1
<1> QED BY <1>1, <1>2
-----------------------------------------------------------------------------
(* The recursive functions satisfy their equations.                        *)

ReplaysFit(g, d, ops, len) ==
  g = [i \in 0 .. len |-> IF i = 0 THEN Untouched ELSE Replayed(g[i - 1], d, ops[i])]

LEMMA ReplaysExist ==
  ASSUME NEW d, NEW ops, NEW len \in Nat
  PROVE  \E g : ReplaysFit(g, d, ops, len)
<1> DEFINE Good == {k \in 0 .. len : \E g : ReplaysFit(g, d, ops, k)}
<1>1. 0 \in Good
  <2>1. PICK g : g = [i \in 0 .. 0 |-> Untouched]
    OBVIOUS
  <2>2. ReplaysFit(g, d, ops, 0)
    BY <2>1 DEF ReplaysFit
  <2> QED BY <2>2
<1>2. ASSUME NEW k \in 1 .. len, k - 1 \in Good
      PROVE  k \in Good
  <2>1. PICK g : ReplaysFit(g, d, ops, k - 1)
    BY <1>2
  <2> DEFINE h == [i \in 0 .. k |-> IF i = k THEN Replayed(g[k - 1], d, ops[k]) ELSE g[i]]
  <2>2. \A i \in 0 .. k - 1 : h[i] = g[i]
    OBVIOUS
  <2>3. \A i \in 0 .. k - 1 : g[i] = IF i = 0 THEN Untouched ELSE Replayed(g[i - 1], d, ops[i])
    BY <2>1 DEF ReplaysFit
  <2>4. h[0] = Untouched
    <3>1. g[0] = Untouched
      BY <2>3
    <3> QED BY <2>2, <3>1
  <2>5. h[k] = Replayed(h[k - 1], d, ops[k])
    BY <2>2
  <2>6. \A i \in 1 .. k - 1 : h[i] = Replayed(h[i - 1], d, ops[i])
    <3>1. \A i \in 1 .. k - 1 : g[i] = Replayed(g[i - 1], d, ops[i]) /\ h[i - 1] = g[i - 1]
      BY <2>2, <2>3
    <3> QED BY <2>2, <3>1
  <2>7. h = [i \in 0 .. k |-> h[i]]
    OBVIOUS
  <2> HIDE DEF h
  <2>8. \A i \in 0 .. k : h[i] = IF i = 0 THEN Untouched ELSE Replayed(h[i - 1], d, ops[i])
    <3>1. \A i \in 0 .. k : i = 0 \/ i = k \/ i \in 1 .. k - 1
      OBVIOUS
    <3> QED BY <2>4, <2>5, <2>6, <3>1
  <2>9. ReplaysFit(h, d, ops, k)
    BY <2>7, <2>8 DEF ReplaysFit
  <2> QED BY <2>9
<1>3. len \in Good
  <2> HIDE DEF Good
  <2> QED BY <1>1, <1>2, UpTo
<1> QED BY <1>3

LEMMA ReplaysEquation ==
  ASSUME NEW d, NEW ops, Len(ops) \in Nat
  PROVE  /\ Replays(d, ops)[0] = Untouched
         /\ \A i \in 1 .. Len(ops) :
              Replays(d, ops)[i] = Replayed(Replays(d, ops)[i - 1], d, ops[i])
<1>1. Replays(d, ops) = CHOOSE g : ReplaysFit(g, d, ops, Len(ops))
  BY DEF Replays, ReplaysFit
<1>2. ReplaysFit(Replays(d, ops), d, ops, Len(ops))
  BY <1>1, ReplaysExist
<1>3. PICK g : g = Replays(d, ops)
  OBVIOUS
<1>4. PICK start : start = Untouched
  OBVIOUS
<1>5. g[0] = start /\ \A i \in 1 .. Len(ops) : g[i] = Replayed(g[i - 1], d, ops[i])
  BY <1>2, <1>3, <1>4 DEF ReplaysFit
<1> QED BY <1>3, <1>4, <1>5

DisksFit(g, d, plan, len) ==
  g = [i \in 0 .. len |-> IF i = 0 THEN d ELSE Execute(g[i - 1], plan[i])]

LEMMA DisksExist ==
  ASSUME NEW d, NEW plan, NEW len \in Nat
  PROVE  \E g : DisksFit(g, d, plan, len)
<1> DEFINE Good == {k \in 0 .. len : \E g : DisksFit(g, d, plan, k)}
<1>1. 0 \in Good
  <2>1. PICK g : g = [i \in 0 .. 0 |-> d]
    OBVIOUS
  <2>2. DisksFit(g, d, plan, 0)
    BY <2>1 DEF DisksFit
  <2> QED BY <2>2
<1>2. ASSUME NEW k \in 1 .. len, k - 1 \in Good
      PROVE  k \in Good
  <2>1. PICK g : DisksFit(g, d, plan, k - 1)
    BY <1>2
  <2> DEFINE h == [i \in 0 .. k |-> IF i = k THEN Execute(g[k - 1], plan[k]) ELSE g[i]]
  <2>2. \A i \in 0 .. k - 1 : h[i] = g[i]
    OBVIOUS
  <2>3. \A i \in 0 .. k - 1 : g[i] = IF i = 0 THEN d ELSE Execute(g[i - 1], plan[i])
    BY <2>1 DEF DisksFit
  <2>4. h[0] = d
    <3>1. g[0] = d
      BY <2>3
    <3> QED BY <2>2, <3>1
  <2>5. h[k] = Execute(h[k - 1], plan[k])
    BY <2>2
  <2>6. \A i \in 1 .. k - 1 : h[i] = Execute(h[i - 1], plan[i])
    <3>1. \A i \in 1 .. k - 1 : g[i] = Execute(g[i - 1], plan[i]) /\ h[i - 1] = g[i - 1]
      BY <2>2, <2>3
    <3> QED BY <2>2, <3>1
  <2>7. h = [i \in 0 .. k |-> h[i]]
    OBVIOUS
  <2> HIDE DEF h
  <2>8. \A i \in 0 .. k : h[i] = IF i = 0 THEN d ELSE Execute(h[i - 1], plan[i])
    <3>1. \A i \in 0 .. k : i = 0 \/ i = k \/ i \in 1 .. k - 1
      OBVIOUS
    <3> QED BY <2>4, <2>5, <2>6, <3>1
  <2>9. DisksFit(h, d, plan, k)
    BY <2>7, <2>8 DEF DisksFit
  <2> QED BY <2>9
<1>3. len \in Good
  <2> HIDE DEF Good
  <2> QED BY <1>1, <1>2, UpTo
<1> QED BY <1>3

LEMMA DisksEquation ==
  ASSUME NEW d, NEW plan, Len(plan) \in Nat
  PROVE  /\ Disks(d, plan)[0] = d
         /\ \A i \in 1 .. Len(plan) :
              Disks(d, plan)[i] = Execute(Disks(d, plan)[i - 1], plan[i])
<1>1. Disks(d, plan) = CHOOSE g : DisksFit(g, d, plan, Len(plan))
  BY DEF Disks, DisksFit
<1>2. DisksFit(Disks(d, plan), d, plan, Len(plan))
  BY <1>1, DisksExist
<1>3. PICK g : g = Disks(d, plan)
  OBVIOUS
<1>4. PICK start : start = d
  OBVIOUS
<1>5. g[0] = start /\ \A i \in 1 .. Len(plan) : g[i] = Execute(g[i - 1], plan[i])
  BY <1>2, <1>3, <1>4 DEF DisksFit
<1> QED BY <1>3, <1>4, <1>5

MeaningsFit(g, d, ops, len) ==
  g = [i \in 0 .. len |-> IF i = 0 THEN AtFirst(d) ELSE Meaning(g[i - 1], ops[i])]

LEMMA MeaningsExist ==
  ASSUME NEW d, NEW ops, NEW len \in Nat
  PROVE  \E g : MeaningsFit(g, d, ops, len)
<1> DEFINE Good == {k \in 0 .. len : \E g : MeaningsFit(g, d, ops, k)}
<1>1. 0 \in Good
  <2>1. PICK g : g = [i \in 0 .. 0 |-> AtFirst(d)]
    OBVIOUS
  <2>2. MeaningsFit(g, d, ops, 0)
    BY <2>1 DEF MeaningsFit
  <2> QED BY <2>2
<1>2. ASSUME NEW k \in 1 .. len, k - 1 \in Good
      PROVE  k \in Good
  <2>1. PICK g : MeaningsFit(g, d, ops, k - 1)
    BY <1>2
  <2> DEFINE h == [i \in 0 .. k |-> IF i = k THEN Meaning(g[k - 1], ops[k]) ELSE g[i]]
  <2>2. \A i \in 0 .. k - 1 : h[i] = g[i]
    OBVIOUS
  <2>3. \A i \in 0 .. k - 1 : g[i] = IF i = 0 THEN AtFirst(d) ELSE Meaning(g[i - 1], ops[i])
    BY <2>1 DEF MeaningsFit
  <2>4. h[0] = AtFirst(d)
    <3>1. g[0] = AtFirst(d)
      BY <2>3
    <3> QED BY <2>2, <3>1
  <2>5. h[k] = Meaning(h[k - 1], ops[k])
    BY <2>2
  <2>6. \A i \in 1 .. k - 1 : h[i] = Meaning(h[i - 1], ops[i])
    <3>1. \A i \in 1 .. k - 1 : g[i] = Meaning(g[i - 1], ops[i]) /\ h[i - 1] = g[i - 1]
      BY <2>2, <2>3
    <3> QED BY <2>2, <3>1
  <2>7. h = [i \in 0 .. k |-> h[i]]
    OBVIOUS
  <2> HIDE DEF h
  <2>8. \A i \in 0 .. k : h[i] = IF i = 0 THEN AtFirst(d) ELSE Meaning(h[i - 1], ops[i])
    <3>1. \A i \in 0 .. k : i = 0 \/ i = k \/ i \in 1 .. k - 1
      OBVIOUS
    <3> QED BY <2>4, <2>5, <2>6, <3>1
  <2>9. MeaningsFit(h, d, ops, k)
    BY <2>7, <2>8 DEF MeaningsFit
  <2> QED BY <2>9
<1>3. len \in Good
  <2> HIDE DEF Good
  <2> QED BY <1>1, <1>2, UpTo
<1> QED BY <1>3

LEMMA MeaningsEquation ==
  ASSUME NEW d, NEW ops, Len(ops) \in Nat
  PROVE  /\ Meanings(d, ops)[0] = AtFirst(d)
         /\ \A i \in 1 .. Len(ops) :
              Meanings(d, ops)[i] = Meaning(Meanings(d, ops)[i - 1], ops[i])
<1>1. Meanings(d, ops) = CHOOSE g : MeaningsFit(g, d, ops, Len(ops))
  BY DEF Meanings, MeaningsFit
<1>2. MeaningsFit(Meanings(d, ops), d, ops, Len(ops))
  BY <1>1, MeaningsExist
<1>3. PICK g : g = Meanings(d, ops)
  OBVIOUS
<1>4. PICK start : start = AtFirst(d)
  OBVIOUS
<1>5. g[0] = start /\ \A i \in 1 .. Len(ops) : g[i] = Meaning(g[i - 1], ops[i])
  BY <1>2, <1>3, <1>4 DEF MeaningsFit
<1> QED BY <1>3, <1>4, <1>5

ResyncedLiveFit(g, ds, r, d, plan, n, len) ==
  g = [i \in 0 .. len |-> IF i = 0 THEN ds ELSE Resync(g[i - 1], r, d, plan, n, r.order[i])]

LEMMA ResyncedLiveExist ==
  ASSUME NEW ds, NEW r, NEW d, NEW plan, NEW n, NEW len \in Nat
  PROVE  \E g : ResyncedLiveFit(g, ds, r, d, plan, n, len)
<1> DEFINE Good == {k \in 0 .. len : \E g : ResyncedLiveFit(g, ds, r, d, plan, n, k)}
<1>1. 0 \in Good
  <2>1. PICK g : g = [i \in 0 .. 0 |-> ds]
    OBVIOUS
  <2>2. ResyncedLiveFit(g, ds, r, d, plan, n, 0)
    BY <2>1 DEF ResyncedLiveFit
  <2> QED BY <2>2
<1>2. ASSUME NEW k \in 1 .. len, k - 1 \in Good
      PROVE  k \in Good
  <2>1. PICK g : ResyncedLiveFit(g, ds, r, d, plan, n, k - 1)
    BY <1>2
  <2> DEFINE h == [i \in 0 .. k |-> IF i = k THEN Resync(g[k - 1], r, d, plan, n, r.order[k]) ELSE g[i]]
  <2>2. \A i \in 0 .. k - 1 : h[i] = g[i]
    OBVIOUS
  <2>3. \A i \in 0 .. k - 1 : g[i] = IF i = 0 THEN ds ELSE Resync(g[i - 1], r, d, plan, n, r.order[i])
    BY <2>1 DEF ResyncedLiveFit
  <2>4. h[0] = ds
    <3>1. g[0] = ds
      BY <2>3
    <3> QED BY <2>2, <3>1
  <2>5. h[k] = Resync(h[k - 1], r, d, plan, n, r.order[k])
    BY <2>2
  <2>6. \A i \in 1 .. k - 1 : h[i] = Resync(h[i - 1], r, d, plan, n, r.order[i])
    <3>1. \A i \in 1 .. k - 1 : g[i] = Resync(g[i - 1], r, d, plan, n, r.order[i]) /\ h[i - 1] = g[i - 1]
      BY <2>2, <2>3
    <3> QED BY <2>2, <3>1
  <2>7. h = [i \in 0 .. k |-> h[i]]
    OBVIOUS
  <2> HIDE DEF h
  <2>8. \A i \in 0 .. k : h[i] = IF i = 0 THEN ds ELSE Resync(h[i - 1], r, d, plan, n, r.order[i])
    <3>1. \A i \in 0 .. k : i = 0 \/ i = k \/ i \in 1 .. k - 1
      OBVIOUS
    <3> QED BY <2>4, <2>5, <2>6, <3>1
  <2>9. ResyncedLiveFit(h, ds, r, d, plan, n, k)
    BY <2>7, <2>8 DEF ResyncedLiveFit
  <2> QED BY <2>9
<1>3. len \in Good
  <2> HIDE DEF Good
  <2> QED BY <1>1, <1>2, UpTo
<1> QED BY <1>3

LEMMA ResyncedLiveEquation ==
  ASSUME NEW ds, NEW r, NEW d, NEW plan, NEW n, Len(r.order) \in Nat
  PROVE  /\ ResyncedLive(ds, r, d, plan, n)[0] = ds
         /\ \A i \in 1 .. Len(r.order) :
              ResyncedLive(ds, r, d, plan, n)[i] = Resync(ResyncedLive(ds, r, d, plan, n)[i - 1], r, d, plan, n, r.order[i])
<1>1. ResyncedLive(ds, r, d, plan, n) = CHOOSE g : ResyncedLiveFit(g, ds, r, d, plan, n, Len(r.order))
  BY DEF ResyncedLive, ResyncedLiveFit
<1>2. ResyncedLiveFit(ResyncedLive(ds, r, d, plan, n), ds, r, d, plan, n, Len(r.order))
  BY <1>1, ResyncedLiveExist
<1>3. PICK g : g = ResyncedLive(ds, r, d, plan, n)
  OBVIOUS
<1>4. PICK start : start = ds
  OBVIOUS
<1>5. g[0] = start /\ \A i \in 1 .. Len(r.order) : g[i] = Resync(g[i - 1], r, d, plan, n, r.order[i])
  BY <1>2, <1>3, <1>4 DEF ResyncedLiveFit
<1> QED BY <1>3, <1>4, <1>5

ResyncedRemovedFit(g, ds, r, plan, n, len) ==
  g = [i \in 0 .. len |-> IF i = 0 THEN ds ELSE ResyncRemoved(g[i - 1], r, plan, n, r.order[i])]

LEMMA ResyncedRemovedExist ==
  ASSUME NEW ds, NEW r, NEW plan, NEW n, NEW len \in Nat
  PROVE  \E g : ResyncedRemovedFit(g, ds, r, plan, n, len)
<1> DEFINE Good == {k \in 0 .. len : \E g : ResyncedRemovedFit(g, ds, r, plan, n, k)}
<1>1. 0 \in Good
  <2>1. PICK g : g = [i \in 0 .. 0 |-> ds]
    OBVIOUS
  <2>2. ResyncedRemovedFit(g, ds, r, plan, n, 0)
    BY <2>1 DEF ResyncedRemovedFit
  <2> QED BY <2>2
<1>2. ASSUME NEW k \in 1 .. len, k - 1 \in Good
      PROVE  k \in Good
  <2>1. PICK g : ResyncedRemovedFit(g, ds, r, plan, n, k - 1)
    BY <1>2
  <2> DEFINE h == [i \in 0 .. k |-> IF i = k THEN ResyncRemoved(g[k - 1], r, plan, n, r.order[k]) ELSE g[i]]
  <2>2. \A i \in 0 .. k - 1 : h[i] = g[i]
    OBVIOUS
  <2>3. \A i \in 0 .. k - 1 : g[i] = IF i = 0 THEN ds ELSE ResyncRemoved(g[i - 1], r, plan, n, r.order[i])
    BY <2>1 DEF ResyncedRemovedFit
  <2>4. h[0] = ds
    <3>1. g[0] = ds
      BY <2>3
    <3> QED BY <2>2, <3>1
  <2>5. h[k] = ResyncRemoved(h[k - 1], r, plan, n, r.order[k])
    BY <2>2
  <2>6. \A i \in 1 .. k - 1 : h[i] = ResyncRemoved(h[i - 1], r, plan, n, r.order[i])
    <3>1. \A i \in 1 .. k - 1 : g[i] = ResyncRemoved(g[i - 1], r, plan, n, r.order[i]) /\ h[i - 1] = g[i - 1]
      BY <2>2, <2>3
    <3> QED BY <2>2, <3>1
  <2>7. h = [i \in 0 .. k |-> h[i]]
    OBVIOUS
  <2> HIDE DEF h
  <2>8. \A i \in 0 .. k : h[i] = IF i = 0 THEN ds ELSE ResyncRemoved(h[i - 1], r, plan, n, r.order[i])
    <3>1. \A i \in 0 .. k : i = 0 \/ i = k \/ i \in 1 .. k - 1
      OBVIOUS
    <3> QED BY <2>4, <2>5, <2>6, <3>1
  <2>9. ResyncedRemovedFit(h, ds, r, plan, n, k)
    BY <2>7, <2>8 DEF ResyncedRemovedFit
  <2> QED BY <2>9
<1>3. len \in Good
  <2> HIDE DEF Good
  <2> QED BY <1>1, <1>2, UpTo
<1> QED BY <1>3

LEMMA ResyncedRemovedEquation ==
  ASSUME NEW ds, NEW r, NEW plan, NEW n, Len(r.order) \in Nat
  PROVE  /\ ResyncedRemoved(ds, r, plan, n)[0] = ds
         /\ \A i \in 1 .. Len(r.order) :
              ResyncedRemoved(ds, r, plan, n)[i] = ResyncRemoved(ResyncedRemoved(ds, r, plan, n)[i - 1], r, plan, n, r.order[i])
<1>1. ResyncedRemoved(ds, r, plan, n) = CHOOSE g : ResyncedRemovedFit(g, ds, r, plan, n, Len(r.order))
  BY DEF ResyncedRemoved, ResyncedRemovedFit
<1>2. ResyncedRemovedFit(ResyncedRemoved(ds, r, plan, n), ds, r, plan, n, Len(r.order))
  BY <1>1, ResyncedRemovedExist
<1>3. PICK g : g = ResyncedRemoved(ds, r, plan, n)
  OBVIOUS
<1>4. PICK start : start = ds
  OBVIOUS
<1>5. g[0] = start /\ \A i \in 1 .. Len(r.order) : g[i] = ResyncRemoved(g[i - 1], r, plan, n, r.order[i])
  BY <1>2, <1>3, <1>4 DEF ResyncedRemovedFit
<1> QED BY <1>3, <1>4, <1>5
-----------------------------------------------------------------------------
(* What an operation that is not refused does to the replay's state.       *)

Lists(r, s, o) ==
  s.order = IF \E i \in DOMAIN r.order : r.order[i] = o THEN r.order ELSE Append(r.order, o)

\* The file o gets a fate and joins the order.
Settles(r, s, o, fate) ==
  /\ o \in File
  /\ s \in ReplayStates
  /\ s.fate = [r.fate EXCEPT ![o] = fate]
  /\ Lists(r, s, o)

Creates(r, s, d, u) ==
  /\ Settles(r, s, u, Live(u, Blank))
  /\ r.alias[u] = u /\ ~ LiveOccupied(r, d, u)
  /\ s.created = r.created \cup {u}
  /\ s.alias = r.alias /\ s.replaced = r.replaced /\ s.renamedOld = r.renamedOld
  /\ s.clobbered = r.clobbered /\ s.overwrites = r.overwrites

Replaces(r, s, d, u) ==
  /\ Settles(r, s, u, Live(u, Blank))
  /\ r.alias[u] = u /\ LiveOccupied(r, d, u)
  /\ d[u].kind = "file" /\ ~ Drifted(d, u)
  /\ s.replaced = r.replaced \cup {u} /\ s.overwrites = r.overwrites \cup {u}
  /\ s.alias = r.alias /\ s.created = r.created /\ s.renamedOld = r.renamedOld
  /\ s.clobbered = r.clobbered

Removes(r, s, d, u) ==
  /\ Settles(r, s, r.alias[u], Deleted)
  /\ ContentOf(r, d, u) # Missing
  /\ r.alias[u] \in r.created \/ d[r.alias[u]].kind \in {"file", "link"}
  /\ s.alias = r.alias /\ s.created = r.created /\ s.replaced = r.replaced
  /\ s.renamedOld = r.renamedOld
  /\ s.clobbered = r.clobbered /\ s.overwrites = r.overwrites

Renames(r, s, d, u, n) ==
  /\ Settles(r, s, r.alias[u], Live(n, ContentOf(r, d, u)))
  /\ ContentOf(r, d, u) # Missing
  /\ n \notin r.renamedOld /\ r.alias[n] = n /\ n # r.alias[u]
  /\ s.alias = [r.alias EXCEPT ![n] = r.alias[u]]
  /\ s.renamedOld = r.renamedOld \cup {u}
  /\ s.created = r.created /\ s.replaced = r.replaced

RenamesFreely(r, s, d, u, n) ==
  /\ Renames(r, s, d, u, n)
  /\ ~ LiveOccupied(r, d, n)
  /\ s.clobbered = r.clobbered /\ s.overwrites = r.overwrites

RenamesOver(r, s, d, u, n) ==
  /\ Renames(r, s, d, u, n)
  /\ ~ r.fate[n].live /\ d[n].kind = "file" /\ ~ Drifted(d, n)
  /\ s.clobbered = r.clobbered \cup {n} /\ s.overwrites = r.overwrites \cup {n}

Edits(r, s, d, op) ==
  LET u == op.uri
      o == r.alias[u]
      t == ContentOf(r, d, u)
  IN  /\ Settles(r, s, o, Live(IF r.fate[o].live THEN r.fate[o].at ELSE u, Edited(t)))
      /\ u \notin r.renamedOld /\ t # Missing
      /\ u = Queried => t = Original(Queried)
      /\ s.alias = r.alias /\ s.created = r.created /\ s.replaced = r.replaced
      /\ s.renamedOld = r.renamedOld
      /\ s.clobbered = r.clobbered /\ s.overwrites = r.overwrites

\* Nothing to do, as the operation says it may be.
Skips(r, d, op) ==
  /\ op.ignore
  /\ \/ op.kind = "create" /\ ~ op.overwrite /\ LiveOccupied(r, d, op.uri) /\ r.alias[op.uri] = op.uri
     \/ op.kind = "delete" /\ ContentOf(r, d, op.uri) = Missing
     \/ /\ op.kind = "rename" /\ ContentOf(r, d, op.uri) # Missing
        /\ op.to \notin r.renamedOld /\ r.alias[op.to] = op.to /\ op.to # r.alias[op.uri]
        /\ ~ op.overwrite /\ LiveOccupied(r, d, op.to)

Does(r, s, d, op) ==
  \/ s = r /\ Skips(r, d, op)
  \/ op.kind = "create" /\ Creates(r, s, d, op.uri)
  \/ op.kind = "create" /\ op.overwrite /\ Replaces(r, s, d, op.uri)
  \/ op.kind = "delete" /\ Removes(r, s, d, op.uri)
  \/ op.kind = "rename" /\ RenamesFreely(r, s, d, op.uri, op.to)
  \/ op.kind = "rename" /\ op.overwrite /\ RenamesOver(r, s, d, op.uri, op.to)
  \/ op.kind = "edit" /\ Edits(r, s, d, op)

LEMMA Constants ==
  /\ Missing \in Texts /\ Blank \in Texts /\ Missing.of = "missing" /\ Blank.of = "blank"
  /\ NoFate \in Fates /\ Deleted \in Fates /\ NoFate # Deleted
  /\ ~ NoFate.live /\ ~ Deleted.live
  /\ NoFate.text = Missing /\ Deleted.text = Missing
  /\ \A u \in File, t \in Texts : Live(u, t) \in Fates /\ Live(u, t).live /\ Live(u, t).at = u /\ Live(u, t).text = t
<1>1. Missing \in Texts /\ Missing.of = "missing"
  BY DEF Missing, Texts, Sites
<1>2. Blank = [of |-> "blank", site |-> Missing.site, drift |-> Missing.drift,
                edits |-> Missing.edits]
  BY <1>1 DEF Blank, Texts
<1>3. Blank \in Texts /\ Blank.of = "blank"
  BY <1>1, <1>2 DEF Texts, Sites
<1>4. /\ NoFate \in Fates /\ Deleted \in Fates /\ NoFate # Deleted
      /\ ~ NoFate.live /\ ~ Deleted.live
      /\ NoFate.text = Missing /\ Deleted.text = Missing
  BY <1>1 DEF NoFate, Deleted, Fates
<1>5. \A u \in File, t \in Texts :
        Live(u, t) \in Fates /\ Live(u, t).live /\ Live(u, t).at = u /\ Live(u, t).text = t
  BY DEF Live, Fates
<1> QED BY <1>1, <1>3, <1>4, <1>5

LEMMA TouchFields ==
  ASSUME NEW r \in ReplayStates, NEW o \in File
  PROVE  /\ Touch(r, o) \in ReplayStates
         /\ Lists(r, Touch(r, o), o)
         /\ Touch(r, o).fate = r.fate /\ Touch(r, o).alias = r.alias
         /\ Touch(r, o).created = r.created /\ Touch(r, o).replaced = r.replaced
         /\ Touch(r, o).renamedOld = r.renamedOld /\ Touch(r, o).clobbered = r.clobbered
         /\ Touch(r, o).overwrites = r.overwrites /\ Touch(r, o).refused = r.refused
         /\ Touch(r, o).expected = r.expected
<1>1. Contains(r.order, o) <=> \E i \in DOMAIN r.order : r.order[i] = o
  BY DEF Contains, ReplayStates
<1>2. Append(r.order, o) \in Seq(File)
  BY DEF ReplayStates
<1> QED BY <1>1, <1>2 DEF Touch, Lists, ReplayStates

LEMMA TextsRead ==
  ASSUME NEW d, IsDisk(d), NEW r \in ReplayStates, NEW u \in File
  PROVE  /\ r.alias[u] \in File
         /\ Read(d, u) \in Texts
         /\ ContentOf(r, d, u) \in Texts
         /\ ContentOf(r, d, u) = IF r.fate[r.alias[u]] = NoFate THEN Read(d, u) ELSE r.fate[r.alias[u]].text
         /\ LiveOccupied(r, d, u) <=> IF r.fate[r.alias[u]] = NoFate THEN Read(d, u) # Missing ELSE r.fate[r.alias[u]].live
BY DEF IsDisk, ReplayStates, Read, ContentOf, LiveOccupied, Fates

LEMMA EditedText ==
  ASSUME NEW t \in Texts
  PROVE  /\ Edited(t) \in Texts
         /\ Edited(t).of = t.of
<1>2. PICK of \in File \cup {"missing", "blank"}, site \in Sites, drift \in BOOLEAN, n \in Nat :
        t = [of |-> of, site |-> site, drift |-> drift, edits |-> n]
  BY DEF Texts
<1>3. PICK q : q = Edited(t)
  OBVIOUS
<1>4. q = [t EXCEPT !.site = "new", !.edits = n + 1]
  BY <1>2, <1>3 DEF Edited
<1>5. q = [of |-> of, site |-> "new", drift |-> drift, edits |-> n + 1]
  BY <1>2, <1>4
<1>6. q \in Texts
  <2>1. "new" \in Sites
    BY Zenon DEF Sites
  <2> QED BY <1>5, <2>1 DEF Texts
<1>7. q.of = t.of
  BY <1>2, <1>5
<1> QED BY <1>3, <1>6, <1>7

Accepted(r) == r.refused = ""

Whys == Reasons \ {""}

LEMMA RefusedFields ==
  /\ \A r \in ReplayStates, why \in Whys : ~ Accepted(Refuse(r, why)) /\ Refuse(r, why) \in ReplayStates
  /\ {"conflict", "not a regular file", "changed", "exists", "does not exist", "cycle",
      "already a target", "created or edited in this edit", "was renamed", "unreadable",
      "throws"} \subseteq Whys
<1>1. ASSUME NEW r \in ReplayStates, NEW why \in Whys
      PROVE  ~ Accepted(Refuse(r, why)) /\ Refuse(r, why) \in ReplayStates
  <2>1. why \in Reasons
    BY DEF Whys
  <2>2. Refuse(r, why) \in ReplayStates /\ Refuse(r, why).refused = why
    BY <2>1 DEF Refuse, ReplayStates
  <2> QED BY Zenon, <2>2 DEF Accepted, Whys
<1>2. {"conflict", "not a regular file", "changed", "exists", "does not exist", "cycle",
      "already a target", "created or edited in this edit", "was renamed", "unreadable",
      "throws"} \subseteq Whys
  BY Zenon DEF Whys, Reasons
<1> QED BY <1>1, <1>2

LEMMA CreateDoes ==
  ASSUME NEW d, IsDisk(d), NEW r \in ReplayStates, NEW op, IsOperation(op), op.kind = "create",
         Accepted(ReplayCreate(r, d, op))
  PROVE  Does(r, ReplayCreate(r, d, op), d, op)
<1> DEFINE u == op.uri
           q == Touch(r, u)
<1>1. u \in File
  BY DEF IsOperation
<1>2. q \in ReplayStates /\ Lists(r, q, u) /\ q.fate = r.fate /\ q.alias = r.alias
      /\ q.created = r.created /\ q.replaced = r.replaced /\ q.renamedOld = r.renamedOld
      /\ q.clobbered = r.clobbered /\ q.overwrites = r.overwrites /\ q.refused = r.refused
      /\ q.expected = r.expected
  BY <1>1, TouchFields
<1>3. PICK live : live = Live(u, Blank) /\ live \in Fates
  BY <1>1, Constants
<1> DEFINE s == [q EXCEPT !.fate[u] = live, !.created = @ \cup {u}]
           x == [q EXCEPT !.fate[u] = live, !.replaced = @ \cup {u}, !.overwrites = @ \cup {u}]
<1> HIDE DEF q
<1>4. /\ s \in ReplayStates /\ s.fate = [r.fate EXCEPT ![u] = live] /\ s.order = q.order
      /\ s.alias = r.alias /\ s.created = r.created \cup {u} /\ s.replaced = r.replaced
      /\ s.renamedOld = r.renamedOld /\ s.clobbered = r.clobbered /\ s.overwrites = r.overwrites
  BY <1>1, <1>2, <1>3 DEF ReplayStates
<1>5. /\ x \in ReplayStates /\ x.fate = [r.fate EXCEPT ![u] = live] /\ x.order = q.order
      /\ x.alias = r.alias /\ x.created = r.created /\ x.replaced = r.replaced \cup {u}
      /\ x.renamedOld = r.renamedOld /\ x.clobbered = r.clobbered
      /\ x.overwrites = r.overwrites \cup {u}
  BY <1>1, <1>2, <1>3 DEF ReplayStates
<1>6. ReplayCreate(r, d, op) =
        IF r.alias[u] # u THEN Refuse(r, "conflict")
        ELSE IF ~ LiveOccupied(r, d, u) THEN s
        ELSE IF op.overwrite THEN
          IF d[u].kind # "file" THEN Refuse(r, "not a regular file")
          ELSE IF Drifted(d, u) THEN Refuse(r, "changed")
          ELSE x
        ELSE IF op.ignore THEN r ELSE Refuse(r, "exists")
  BY <1>3 DEF ReplayCreate, q
<1> HIDE DEF s, x
<1>7. CASE r.alias[u] = u /\ ~ LiveOccupied(r, d, u)
  <2>1. ReplayCreate(r, d, op) = s
    BY <1>6, <1>7
  <2>2. Creates(r, s, d, u)
    BY <1>1, <1>2, <1>3, <1>4, <1>7 DEF Creates, Settles, Lists
  <2> QED BY <2>1, <2>2 DEF Does
<1>8. CASE r.alias[u] = u /\ LiveOccupied(r, d, u) /\ op.overwrite
  <2>1. ReplayCreate(r, d, op) = x /\ d[u].kind = "file" /\ ~ Drifted(d, u)
    BY <1>6, <1>8, RefusedFields
  <2>2. Replaces(r, x, d, u)
    BY <1>1, <1>2, <1>3, <1>5, <1>8, <2>1 DEF Replaces, Settles, Lists
  <2> QED BY <1>8, <2>1, <2>2 DEF Does
<1>9. CASE r.alias[u] = u /\ LiveOccupied(r, d, u) /\ ~ op.overwrite
  <2>1. ReplayCreate(r, d, op) = r /\ op.ignore
    BY <1>6, <1>9, RefusedFields
  <2> QED BY <1>9, <2>1 DEF Does, Skips
<1>10. r.alias[u] = u
  BY <1>6, RefusedFields
<1> QED BY <1>7, <1>8, <1>9, <1>10

LEMMA DeleteDoes ==
  ASSUME NEW d, IsDisk(d), NEW r \in ReplayStates, NEW op, IsOperation(op), op.kind = "delete",
         Accepted(ReplayDelete(r, d, op))
  PROVE  Does(r, ReplayDelete(r, d, op), d, op)
<1> DEFINE u == op.uri
           o == r.alias[u]
           q == Touch(r, o)
<1>1. u \in File /\ o \in File
  BY DEF IsOperation, ReplayStates
<1>2. q \in ReplayStates /\ Lists(r, q, o) /\ q.fate = r.fate /\ q.alias = r.alias
      /\ q.created = r.created /\ q.replaced = r.replaced /\ q.renamedOld = r.renamedOld
      /\ q.clobbered = r.clobbered /\ q.overwrites = r.overwrites
  BY <1>1, TouchFields
<1>3. PICK gone : gone = Deleted /\ gone \in Fates
  BY Constants
<1> DEFINE s == [q EXCEPT !.fate[o] = gone]
<1> HIDE DEF q
<1>4. /\ s \in ReplayStates /\ s.fate = [r.fate EXCEPT ![o] = gone] /\ s.order = q.order
      /\ s.alias = r.alias /\ s.created = r.created /\ s.replaced = r.replaced
      /\ s.renamedOld = r.renamedOld /\ s.clobbered = r.clobbered /\ s.overwrites = r.overwrites
  BY <1>1, <1>2, <1>3 DEF ReplayStates
<1>5. ReplayDelete(r, d, op) =
        IF ContentOf(r, d, u) = Missing
        THEN IF op.ignore THEN r ELSE Refuse(r, "does not exist")
        ELSE IF o \notin r.created /\ d[o].kind \notin {"file", "link"}
        THEN Refuse(r, "not a regular file")
        ELSE s
  BY <1>3 DEF ReplayDelete, q
<1> HIDE DEF s
<1>6. CASE ContentOf(r, d, u) = Missing
  <2>1. ReplayDelete(r, d, op) = r /\ op.ignore
    BY <1>5, <1>6, RefusedFields
  <2> QED BY <1>6, <2>1 DEF Does, Skips
<1>7. CASE ContentOf(r, d, u) # Missing
  <2>1. ReplayDelete(r, d, op) = s /\ (o \in r.created \/ d[o].kind \in {"file", "link"})
    BY <1>5, <1>7, RefusedFields
  <2>2. Removes(r, s, d, u)
    BY <1>1, <1>2, <1>3, <1>4, <1>7, <2>1 DEF Removes, Settles, Lists
  <2> QED BY <2>1, <2>2 DEF Does
<1> QED BY <1>6, <1>7

LEMMA RenameDoes ==
  ASSUME NEW d, IsDisk(d), NEW r \in ReplayStates, NEW op, IsOperation(op), op.kind = "rename",
         Accepted(ReplayRename(r, d, op))
  PROVE  Does(r, ReplayRename(r, d, op), d, op)
<1> DEFINE u == op.uri
           n == op.to
           o == r.alias[u]
           c == [r EXCEPT !.clobbered = @ \cup {n}, !.overwrites = @ \cup {n}]
           q == Touch(r, o)
           p == Touch(c, o)
<1>1. u \in File /\ o \in File /\ n \in File
  BY DEF IsOperation, ReplayStates
<1>2. q \in ReplayStates /\ Lists(r, q, o) /\ q.fate = r.fate /\ q.alias = r.alias
      /\ q.created = r.created /\ q.replaced = r.replaced /\ q.renamedOld = r.renamedOld
      /\ q.clobbered = r.clobbered /\ q.overwrites = r.overwrites
  BY <1>1, TouchFields
<1>3. c \in ReplayStates /\ c.fate = r.fate /\ c.alias = r.alias /\ c.order = r.order
      /\ c.created = r.created /\ c.replaced = r.replaced /\ c.renamedOld = r.renamedOld
      /\ c.clobbered = r.clobbered \cup {n} /\ c.overwrites = r.overwrites \cup {n}
  BY <1>1 DEF ReplayStates
<1> HIDE DEF c
<1>4. p \in ReplayStates /\ Lists(c, p, o) /\ p.fate = c.fate /\ p.alias = c.alias
      /\ p.created = c.created /\ p.replaced = c.replaced /\ p.renamedOld = c.renamedOld
      /\ p.clobbered = c.clobbered /\ p.overwrites = c.overwrites
  BY <1>1, <1>3, TouchFields
<1>5. Lists(r, p, o)
  BY <1>3, <1>4 DEF Lists
<1>6. PICK t \in Texts : t = ContentOf(r, d, u)
  BY <1>1, TextsRead
<1>7. ContentOf(c, d, u) = t
  BY <1>3, <1>6 DEF ContentOf
<1>8. PICK live : live = Live(n, t) /\ live \in Fates
  BY <1>1, <1>6, Constants
<1> DEFINE s == [q EXCEPT !.fate[o] = live, !.alias[n] = o, !.renamedOld = @ \cup {u}]
           x == [p EXCEPT !.fate[o] = live, !.alias[n] = o, !.renamedOld = @ \cup {u}]
<1>9. Moved(r, d, op) = s /\ Moved(c, d, op) = x
  BY <1>3, <1>6, <1>7, <1>8 DEF Moved
<1> HIDE DEF q, p
<1>10. /\ s \in ReplayStates /\ s.fate = [r.fate EXCEPT ![o] = live] /\ s.order = q.order
       /\ s.alias = [r.alias EXCEPT ![n] = o] /\ s.created = r.created /\ s.replaced = r.replaced
       /\ s.renamedOld = r.renamedOld \cup {u}
       /\ s.clobbered = r.clobbered /\ s.overwrites = r.overwrites
  BY <1>1, <1>2, <1>8 DEF ReplayStates
<1>11. /\ x \in ReplayStates /\ x.fate = [r.fate EXCEPT ![o] = live] /\ x.order = p.order
       /\ x.alias = [r.alias EXCEPT ![n] = o] /\ x.created = r.created /\ x.replaced = r.replaced
       /\ x.renamedOld = r.renamedOld \cup {u}
       /\ x.clobbered = r.clobbered \cup {n} /\ x.overwrites = r.overwrites \cup {n}
  BY <1>1, <1>3, <1>4, <1>8 DEF ReplayStates
<1> HIDE DEF s, x
<1>12. ReplayRename(r, d, op) =
         IF t = Missing THEN Refuse(r, "does not exist")
         ELSE IF n \in r.renamedOld \/ r.alias[n] = o THEN Refuse(r, "cycle")
         ELSE IF r.alias[n] # n THEN Refuse(r, "already a target")
         ELSE IF op.overwrite /\ (LiveOccupied(r, d, n) \/ d[n].kind # "absent") THEN
           IF r.fate[n].live THEN Refuse(r, "created or edited in this edit")
           ELSE IF d[n].kind # "file" THEN Refuse(r, "not a regular file")
           ELSE IF Drifted(d, n) THEN Refuse(r, "changed")
           ELSE x
         ELSE IF LiveOccupied(r, d, n) THEN
           IF op.ignore THEN r ELSE Refuse(r, "exists")
         ELSE s
  BY <1>6, <1>9 DEF ReplayRename, c
<1>13. t # Missing /\ n \notin r.renamedOld /\ r.alias[n] = n /\ n # o
  BY <1>12, RefusedFields
<1>14. CASE op.overwrite /\ (LiveOccupied(r, d, n) \/ d[n].kind # "absent")
  <2>1. /\ ReplayRename(r, d, op) = x
        /\ ~ r.fate[n].live /\ d[n].kind = "file" /\ ~ Drifted(d, n)
    BY <1>12, <1>13, <1>14, RefusedFields
  <2>2. Renames(r, x, d, u, n)
    BY <1>1, <1>5, <1>6, <1>8, <1>11, <1>13 DEF Renames, Settles, Lists
  <2>3. RenamesOver(r, x, d, u, n)
    BY <1>11, <2>1, <2>2 DEF RenamesOver
  <2> QED BY <1>14, <2>1, <2>3 DEF Does
<1>15. CASE ~ (op.overwrite /\ (LiveOccupied(r, d, n) \/ d[n].kind # "absent")) /\ LiveOccupied(r, d, n)
  <2>1. ReplayRename(r, d, op) = r /\ op.ignore /\ ~ op.overwrite
    BY <1>12, <1>13, <1>15, RefusedFields
  <2> QED BY <1>6, <1>13, <1>15, <2>1 DEF Does, Skips
<1>16. CASE ~ (op.overwrite /\ (LiveOccupied(r, d, n) \/ d[n].kind # "absent")) /\ ~ LiveOccupied(r, d, n)
  <2>1. ReplayRename(r, d, op) = s
    BY <1>12, <1>13, <1>16
  <2>2. Renames(r, s, d, u, n)
    BY <1>1, <1>2, <1>6, <1>8, <1>10, <1>13 DEF Renames, Settles, Lists
  <2>3. RenamesFreely(r, s, d, u, n)
    BY <1>10, <1>16, <2>2 DEF RenamesFreely
  <2> QED BY <2>1, <2>3 DEF Does
<1> QED BY <1>14, <1>15, <1>16

LEMMA EditDoes ==
  ASSUME NEW d, IsDisk(d), NEW r \in ReplayStates, NEW op, IsOperation(op), op.kind = "edit",
         \A o \in File : r.fate[o].live => r.fate[o].at \in File,
         Accepted(ReplayEdit(r, d, op))
  PROVE  Does(r, ReplayEdit(r, d, op), d, op)
<1> DEFINE u == op.uri
           o == r.alias[u]
           q == Touch(r, o)
           at == IF r.fate[o].live THEN r.fate[o].at ELSE u
<1>1. u \in File /\ o \in File /\ at \in File
  BY DEF IsOperation, ReplayStates
<1>2. q \in ReplayStates /\ Lists(r, q, o) /\ q.fate = r.fate /\ q.alias = r.alias
      /\ q.created = r.created /\ q.replaced = r.replaced /\ q.renamedOld = r.renamedOld
      /\ q.clobbered = r.clobbered /\ q.overwrites = r.overwrites
  BY <1>1, TouchFields
<1>3. PICK t \in Texts : t = ContentOf(r, d, u)
  BY <1>1, TextsRead
<1>4. PICK new \in Texts : new = Edited(t)
  BY EditedText
<1>5. PICK live : live = Live(at, new) /\ live \in Fates
  BY <1>1, Constants
<1>6. PICK ex \in {None} \cup Sites : ex = IF u = Queried THEN t.site ELSE r.expected
  BY DEF Texts, ReplayStates
<1> DEFINE s == [q EXCEPT !.fate[o] = live, !.expected = ex]
<1>7. q.expected = r.expected
  BY <1>1, TouchFields
<1> HIDE DEF at
<1>8. ReplayEdit(r, d, op) =
        IF u \in r.renamedOld THEN Refuse(r, "was renamed")
        ELSE IF t = Missing THEN Refuse(r, "unreadable")
        ELSE IF u = Queried /\ t # Original(Queried) THEN Refuse(r, "changed")
        ELSE IF op.site = "overlap" THEN Refuse(r, "throws")
        ELSE s
  BY <1>3, <1>4, <1>5, <1>6, <1>7 DEF ReplayEdit, at
<1> HIDE DEF q
<1>9. /\ s \in ReplayStates /\ s.fate = [r.fate EXCEPT ![o] = live] /\ s.order = q.order
      /\ s.alias = r.alias /\ s.created = r.created /\ s.replaced = r.replaced
      /\ s.renamedOld = r.renamedOld /\ s.clobbered = r.clobbered /\ s.overwrites = r.overwrites
  BY <1>1, <1>2, <1>5, <1>6 DEF ReplayStates
<1> HIDE DEF s
<1>10. /\ ReplayEdit(r, d, op) = s /\ u \notin r.renamedOld /\ t # Missing
       /\ u = Queried => t = Original(Queried)
  BY <1>8, RefusedFields
<1>11. Edits(r, s, d, op)
  BY <1>1, <1>2, <1>3, <1>4, <1>5, <1>9, <1>10 DEF Edits, Settles, Lists, at
<1> QED BY <1>10, <1>11 DEF Does
-----------------------------------------------------------------------------
(* Every operation keeps the replay's invariant.                           *)

LEMMA Settled ==
  ASSUME NEW r \in ReplayStates, NEW s, NEW o, NEW fate, Settles(r, s, o, fate)
  PROVE  /\ o \in File /\ s \in ReplayStates
         /\ \A x \in File : s.fate[x] = IF x = o THEN fate ELSE r.fate[x]
BY DEF Settles, ReplayStates

LEMMA StaysOrdered ==
  ASSUME NEW r \in ReplayStates, Ordered(r), NEW s, NEW o, NEW fate, Settles(r, s, o, fate),
         fate # NoFate
  PROVE  Ordered(s)
<1>1. o \in File /\ s \in ReplayStates /\ r.order \in Seq(File) /\ s.order \in Seq(File)
      /\ \A x \in File : s.fate[x] = IF x = o THEN fate ELSE r.fate[x]
  BY Settled DEF Settles, ReplayStates
<1>2. CASE \E i \in DOMAIN r.order : r.order[i] = o
  <2>1. s.order = r.order
    BY <1>2 DEF Settles, Lists
  <2> QED BY <1>1, <1>2, <2>1 DEF Ordered
<1>3. CASE ~ \E i \in DOMAIN r.order : r.order[i] = o
  <2>1. s.order = Append(r.order, o)
    BY <1>3 DEF Settles, Lists
  <2>2. PICK len \in Nat : len = Len(r.order) /\ DOMAIN r.order = 1 .. len
    BY <1>1
  <2>3. DOMAIN s.order = 1 .. len + 1 /\ s.order[len + 1] = o /\ \A i \in 1 .. len : s.order[i] = r.order[i]
    BY <1>1, <2>1, <2>2
  <2>4. \A i \in 1 .. len : r.order[i] # o
    BY <1>3, <2>2
  <2>5. \A i \in 1 .. len + 1 : i = len + 1 \/ i \in 1 .. len
    OBVIOUS
  <2>6. \A i, j \in DOMAIN s.order : s.order[i] = s.order[j] => i = j
    BY <2>2, <2>3, <2>4, <2>5 DEF Ordered
  <2>7. ASSUME NEW x \in File
        PROVE  s.fate[x] # NoFate <=> \E i \in DOMAIN s.order : s.order[i] = x
    <3>1. CASE x = o
      <4>1. len + 1 \in DOMAIN s.order
        BY <2>3
      <4> QED BY <1>1, <2>3, <3>1, <4>1
    <3>2. CASE x # o
      <4>1. r.fate[x] # NoFate <=> \E i \in 1 .. len : r.order[i] = x
        BY <2>2 DEF Ordered
      <4>2. ASSUME NEW i \in 1 .. len + 1, s.order[i] = x
            PROVE  i \in 1 .. len /\ r.order[i] = x
        BY <2>3, <2>5, <3>2, <4>2
      <4>3. ASSUME NEW i \in 1 .. len, r.order[i] = x
            PROVE  i \in 1 .. len + 1 /\ s.order[i] = x
        BY <2>3, <4>3
      <4> QED BY <1>1, <2>3, <3>2, <4>1, <4>2, <4>3
    <3> QED BY <3>1, <3>2
  <2> QED BY <2>6, <2>7 DEF Ordered
<1> QED BY <1>2, <1>3

\* The file an operation finds at a path.
LEMMA Found ==
  ASSUME NEW d, IsDisk(d), NEW r, ReplayInv(r, d), NEW u \in File, ContentOf(r, d, u) # Missing
  PROVE  LET o == r.alias[u] IN
         /\ o \in File /\ r.alias[o] = o
         /\ ContentOf(r, d, u) \in Texts
         /\ ContentOf(r, d, u).of = IF o \in r.created \cup r.replaced THEN "blank" ELSE o
         /\ o \notin r.created => Read(d, o) # Missing
         /\ \/ u = o /\ r.fate[o] = NoFate /\ ContentOf(r, d, u) = Read(d, u)
            \/ r.fate[o].live /\ r.fate[o] # NoFate /\ ContentOf(r, d, u) = r.fate[o].text
<1> DEFINE o == r.alias[u]
           t == ContentOf(r, d, u)
<1>1. /\ o \in File /\ t \in Texts
      /\ t = IF r.fate[o] = NoFate THEN Read(d, u) ELSE r.fate[o].text
  BY TextsRead DEF ReplayInv
<1>2. CASE r.fate[o] = NoFate
  <2>1. u = o
    BY <1>1, <1>2 DEF ReplayInv, Freed
  <2>2. o \notin r.created \cup r.replaced
    BY <1>1, <1>2 DEF ReplayInv, Founded
  <2>3. t.of = o
    BY <1>1, <1>2, <2>1 DEF IsDisk
  <2> QED BY <1>1, <1>2, <2>1, <2>2, <2>3
<1>3. CASE r.fate[o] # NoFate
  <2>1. r.fate[o].live
    BY <1>1, <1>3, Constants DEF ReplayInv, Lifeless
  <2>2. r.alias[o] = o
    BY <1>1, <2>1 DEF ReplayInv, Freed
  <2>3. t.of = IF o \in r.created \cup r.replaced THEN "blank" ELSE o
    BY <1>1, <1>3, <2>1 DEF ReplayInv, Contained
  <2>4. o \notin r.created => Read(d, o) # Missing
    BY <1>1, <1>3 DEF ReplayInv, Founded
  <2> QED BY <1>1, <1>3, <2>1, <2>2, <2>3, <2>4
<1> QED BY <1>2, <1>3

LEMMA CreatesKeeps ==
  ASSUME NEW d, IsDisk(d), NEW r, ReplayInv(r, d), NEW s, NEW u, Creates(r, s, d, u)
  PROVE  ReplayInv(s, d)
<1>1. PICK live : live = Live(u, Blank)
  OBVIOUS
<1>2. /\ u \in File /\ r \in ReplayStates /\ s \in ReplayStates /\ Settles(r, s, u, live)
      /\ \A x \in File : s.fate[x] = IF x = u THEN live ELSE r.fate[x]
      /\ r.alias[u] = u /\ s.alias = r.alias
  <2>1. r \in ReplayStates /\ Settles(r, s, u, live)
    BY <1>1 DEF Creates, ReplayInv
  <2> QED BY <1>1, <2>1, Settled DEF Creates
<1>3. live \in Fates /\ live.live /\ live.at = u /\ live.text = Blank /\ live # NoFate /\ live # Deleted
      /\ Blank.of = "blank" /\ s.created = r.created \cup {u} /\ s.replaced = r.replaced
      /\ s.clobbered = r.clobbered
  BY <1>1, <1>2, Constants DEF Creates
<1>4. Ordered(s)
  BY <1>2, <1>3, StaysOrdered DEF ReplayInv
<1>5. Lifeless(s)
  BY <1>2, <1>3 DEF ReplayInv, Lifeless
<1>6. Homed(s)
  BY <1>2, <1>3 DEF ReplayInv, Homed
<1>7. Freed(s, d)
  BY <1>2, <1>3 DEF ReplayInv, Freed, ReplayStates
<1>8. Contained(s)
  BY <1>2, <1>3 DEF ReplayInv, Contained
<1>9. Founded(s, d)
  BY <1>2, <1>3 DEF ReplayInv, Founded
<1> QED BY <1>2, <1>4, <1>5, <1>6, <1>7, <1>8, <1>9 DEF ReplayInv

LEMMA ReplacesKeeps ==
  ASSUME NEW d, IsDisk(d), NEW r, ReplayInv(r, d), NEW s, NEW u, Replaces(r, s, d, u)
  PROVE  ReplayInv(s, d)
<1>1. PICK live : live = Live(u, Blank)
  OBVIOUS
<1>2. /\ u \in File /\ r \in ReplayStates /\ s \in ReplayStates /\ Settles(r, s, u, live)
      /\ \A x \in File : s.fate[x] = IF x = u THEN live ELSE r.fate[x]
      /\ r.alias[u] = u /\ s.alias = r.alias /\ d[u].kind = "file"
  <2>1. r \in ReplayStates /\ Settles(r, s, u, live)
    BY <1>1 DEF Replaces, ReplayInv
  <2> QED BY <1>1, <2>1, Settled DEF Replaces
<1>3. live \in Fates /\ live.live /\ live.at = u /\ live.text = Blank /\ live # NoFate /\ live # Deleted
      /\ Blank.of = "blank" /\ s.created = r.created /\ s.replaced = r.replaced \cup {u}
      /\ s.clobbered = r.clobbered
  BY <1>1, <1>2, Constants DEF Replaces
<1>4. Read(d, u) # Missing
  BY <1>2, Constants, FilesAssumption DEF IsDisk
<1>5. Ordered(s)
  BY <1>2, <1>3, StaysOrdered DEF ReplayInv
<1>6. Lifeless(s)
  BY <1>2, <1>3 DEF ReplayInv, Lifeless
<1>7. Homed(s)
  BY <1>2, <1>3 DEF ReplayInv, Homed
<1>8. Freed(s, d)
  BY <1>2, <1>3 DEF ReplayInv, Freed, ReplayStates
<1>9. Contained(s)
  BY <1>2, <1>3 DEF ReplayInv, Contained
<1>10. Founded(s, d)
  BY <1>2, <1>3, <1>4 DEF ReplayInv, Founded
<1> QED BY <1>2, <1>5, <1>6, <1>7, <1>8, <1>9, <1>10 DEF ReplayInv

LEMMA RemovesKeeps ==
  ASSUME NEW d, IsDisk(d), NEW r, ReplayInv(r, d), NEW s, NEW u \in File, Removes(r, s, d, u)
  PROVE  ReplayInv(s, d)
<1>1. PICK o : o = r.alias[u]
  OBVIOUS
<1>2. /\ o \in File /\ r \in ReplayStates /\ s \in ReplayStates /\ Settles(r, s, o, Deleted)
      /\ \A x \in File : s.fate[x] = IF x = o THEN Deleted ELSE r.fate[x]
      /\ s.alias = r.alias /\ s.created = r.created /\ s.replaced = r.replaced
      /\ s.clobbered = r.clobbered
  <2>1. r \in ReplayStates /\ Settles(r, s, o, Deleted)
    BY <1>1 DEF Removes, ReplayInv
  <2> QED BY <1>1, <2>1, Settled DEF Removes
<1>3. r.alias[o] = o /\ (o \notin r.created => Read(d, o) # Missing)
  BY <1>1, Found DEF Removes
<1>4. Deleted # NoFate /\ ~ Deleted.live
  BY Constants
<1>5. Ordered(s)
  BY <1>2, <1>4, StaysOrdered DEF ReplayInv
<1>6. Lifeless(s)
  BY <1>2, <1>4 DEF ReplayInv, Lifeless
<1>7. Homed(s)
  BY <1>2, <1>4 DEF ReplayInv, Homed
<1>8. Freed(s, d)
  BY <1>2, <1>3, <1>4 DEF ReplayInv, Freed, ReplayStates
<1>9. Contained(s)
  BY <1>2, <1>4 DEF ReplayInv, Contained
<1>10. Founded(s, d)
  BY <1>2, <1>3, <1>4 DEF ReplayInv, Founded
<1> QED BY <1>2, <1>5, <1>6, <1>7, <1>8, <1>9, <1>10 DEF ReplayInv

\* The path n goes to the file o, unless its own file lives.
LEMMA RenamesKeeps ==
  ASSUME NEW d, IsDisk(d), NEW r, ReplayInv(r, d), NEW s, NEW u \in File, NEW n \in File,
         Renames(r, s, d, u, n), ~ r.fate[n].live,
         s.clobbered = r.clobbered \/ (s.clobbered = r.clobbered \cup {n} /\ d[n].kind = "file"),
         Read(d, n) = Missing \/ n \in s.clobbered \/ r.fate[n] = Deleted
  PROVE  ReplayInv(s, d)
<1>1. PICK o : o = r.alias[u]
  OBVIOUS
<1>2. PICK t : t = ContentOf(r, d, u)
  OBVIOUS
<1>3. PICK live : live = Live(n, t)
  OBVIOUS
<1>4. /\ o \in File /\ r \in ReplayStates /\ s \in ReplayStates /\ Settles(r, s, o, live)
      /\ \A x \in File : s.fate[x] = IF x = o THEN live ELSE r.fate[x]
      /\ s.alias = [r.alias EXCEPT ![n] = o] /\ s.created = r.created /\ s.replaced = r.replaced
      /\ r.alias[n] = n /\ n # o
  <2>1. r \in ReplayStates /\ Settles(r, s, o, live)
    BY <1>1, <1>2, <1>3 DEF Renames, ReplayInv
  <2> QED BY <1>1, <1>2, <1>3, <2>1, Settled DEF Renames
<1>5. \A x \in File : s.alias[x] = IF x = n THEN o ELSE r.alias[x]
  BY <1>4 DEF ReplayStates
<1>6. /\ r.alias[o] = o /\ (o \notin r.created => Read(d, o) # Missing)
      /\ t \in Texts /\ t.of = IF o \in r.created \cup r.replaced THEN "blank" ELSE o
  BY <1>1, <1>2, Found DEF Renames
<1>7. live \in Fates /\ live.live /\ live.at = n /\ live.text = t /\ live # NoFate /\ live # Deleted
  BY <1>3, <1>6, Constants
<1>8. Ordered(s)
  BY <1>4, <1>7, StaysOrdered DEF ReplayInv
<1>9. Lifeless(s)
  BY <1>4, <1>7 DEF ReplayInv, Lifeless
<1>10. Homed(s)
  BY <1>4, <1>5, <1>7 DEF ReplayInv, Homed
<1>11. \A w \in File : s.alias[w] # w =>
         /\ s.fate[s.alias[w]] # NoFate
         /\ ~ s.fate[w].live
         /\ Read(d, w) = Missing \/ w \in s.clobbered \/ s.fate[w] = Deleted
  <2> TAKE w \in File
  <2>1. CASE w = n
    BY <1>4, <1>5, <1>7, <2>1
  <2>2. CASE w # n
    <3> HAVE s.alias[w] # w
    <3>1. s.alias[w] = r.alias[w] /\ r.alias[w] # w /\ r.alias[w] \in File /\ w # o
      BY <1>4, <1>5, <1>6, <2>2 DEF ReplayStates
    <3>2. r.fate[r.alias[w]] # NoFate /\ ~ r.fate[w].live
          /\ (Read(d, w) = Missing \/ w \in r.clobbered \/ r.fate[w] = Deleted)
      BY <3>1 DEF ReplayInv, Freed
    <3>3. r.clobbered \subseteq s.clobbered
      OBVIOUS
    <3> QED BY <1>4, <1>7, <3>1, <3>2, <3>3
  <2> QED BY <2>1, <2>2
<1>12. \A w \in s.clobbered : s.alias[w] # w /\ d[w].kind = "file"
  BY <1>4, <1>5 DEF ReplayInv, Freed, ReplayStates
<1>13. Contained(s)
  BY <1>4, <1>6, <1>7 DEF ReplayInv, Contained
<1>14. Founded(s, d)
  BY <1>4, <1>6, <1>7 DEF ReplayInv, Founded
<1> QED BY <1>4, <1>8, <1>9, <1>10, <1>11, <1>12, <1>13, <1>14 DEF ReplayInv, Freed

LEMMA EditsKeeps ==
  ASSUME NEW d, IsDisk(d), NEW r, ReplayInv(r, d), NEW s, NEW op, IsOperation(op), Edits(r, s, d, op)
  PROVE  ReplayInv(s, d)
<1>1. PICK u \in File : u = op.uri
  BY DEF IsOperation
<1>2. PICK o : o = r.alias[u]
  OBVIOUS
<1>3. PICK t : t = ContentOf(r, d, u)
  OBVIOUS
<1>4. PICK new : new = Edited(t)
  OBVIOUS
<1>5. PICK at : at = IF r.fate[o].live THEN r.fate[o].at ELSE u
  OBVIOUS
<1>6. PICK live : live = Live(at, new)
  OBVIOUS
<1>7. /\ o \in File /\ r \in ReplayStates /\ s \in ReplayStates /\ Settles(r, s, o, live)
      /\ \A x \in File : s.fate[x] = IF x = o THEN live ELSE r.fate[x]
      /\ s.alias = r.alias /\ s.created = r.created /\ s.replaced = r.replaced
      /\ s.clobbered = r.clobbered /\ t # Missing
  <2>1. r \in ReplayStates /\ Settles(r, s, o, live)
    BY <1>1, <1>2, <1>3, <1>4, <1>5, <1>6 DEF Edits, ReplayInv
  <2>2. /\ s.alias = r.alias /\ s.created = r.created /\ s.replaced = r.replaced
        /\ s.clobbered = r.clobbered /\ t # Missing
    BY <1>1, <1>2, <1>3 DEF Edits
  <2> QED BY <2>1, <2>2, Settled
<1>8. /\ r.alias[o] = o /\ (o \notin r.created => Read(d, o) # Missing)
      /\ t \in Texts /\ t.of = IF o \in r.created \cup r.replaced THEN "blank" ELSE o
  BY <1>2, <1>3, <1>7, Found
<1>9. at \in File /\ r.alias[at] = o
  BY <1>2, <1>5, <1>7 DEF ReplayInv, Homed
<1>10. new \in Texts /\ new.of = t.of
  BY <1>4, <1>8, EditedText
<1>11. live \in Fates /\ live.live /\ live.at = at /\ live.text = new /\ live # NoFate /\ live # Deleted
  BY <1>6, <1>9, <1>10, Constants
<1>12. Ordered(s)
  BY <1>7, <1>11, StaysOrdered DEF ReplayInv
<1>13. Lifeless(s)
  BY <1>7, <1>11 DEF ReplayInv, Lifeless
<1>14. Homed(s)
  BY <1>7, <1>9, <1>11 DEF ReplayInv, Homed
<1>15. Freed(s, d)
  BY <1>7, <1>8, <1>11 DEF ReplayInv, Freed, ReplayStates
<1>16. Contained(s)
  BY <1>7, <1>8, <1>10, <1>11 DEF ReplayInv, Contained
<1>17. Founded(s, d)
  BY <1>7, <1>8, <1>11 DEF ReplayInv, Founded
<1> QED BY <1>7, <1>12, <1>13, <1>14, <1>15, <1>16, <1>17 DEF ReplayInv

LEMMA OperationKeeps ==
  ASSUME NEW d, IsDisk(d), NEW r, ReplayInv(r, d), NEW s, NEW op, IsOperation(op), Does(r, s, d, op)
  PROVE  ReplayInv(s, d)
<1>1. op.uri \in File /\ op.to \in File /\ r \in ReplayStates
  BY DEF IsOperation, ReplayInv
<1>2. CASE s = r
  BY <1>2
<1>3. CASE Creates(r, s, d, op.uri)
  BY <1>3, CreatesKeeps
<1>4. CASE Replaces(r, s, d, op.uri)
  BY <1>4, ReplacesKeeps
<1>5. CASE Removes(r, s, d, op.uri)
  BY <1>1, <1>5, RemovesKeeps
<1>6. CASE RenamesFreely(r, s, d, op.uri, op.to)
  <2> DEFINE u == op.uri
             n == op.to
  <2>1. Renames(r, s, d, u, n) /\ ~ LiveOccupied(r, d, n) /\ s.clobbered = r.clobbered /\ r.alias[n] = n
    BY <1>6 DEF RenamesFreely, Renames
  <2>2. IF r.fate[n] = NoFate THEN Read(d, n) = Missing ELSE ~ r.fate[n].live
    BY <1>1, <2>1, TextsRead
  <2>3. ~ r.fate[n].live /\ (Read(d, n) = Missing \/ r.fate[n] = Deleted)
    BY <1>1, <2>2, Constants DEF ReplayInv, Lifeless
  <2> HIDE DEF u, n
  <2>4. u \in File /\ n \in File
    BY <1>1 DEF u, n
  <2> QED BY <2>1, <2>3, <2>4, RenamesKeeps
<1>7. CASE RenamesOver(r, s, d, op.uri, op.to)
  <2> DEFINE u == op.uri
             n == op.to
  <2>1. Renames(r, s, d, u, n) /\ ~ r.fate[n].live /\ s.clobbered = r.clobbered \cup {n} /\ d[n].kind = "file"
    BY <1>7 DEF RenamesOver
  <2> HIDE DEF u, n
  <2>2. u \in File /\ n \in File
    BY <1>1 DEF u, n
  <2> QED BY <2>1, <2>2, RenamesKeeps
<1>8. CASE Edits(r, s, d, op)
  BY <1>8, EditsKeeps
<1> QED BY <1>2, <1>3, <1>4, <1>5, <1>6, <1>7, <1>8 DEF Does
-----------------------------------------------------------------------------
(* The replay of a batch.                                                  *)

IsBatch(ops) == Len(ops) \in Nat /\ \A i \in 1 .. Len(ops) : IsOperation(ops[i])

LEMMA UntouchedHolds ==
  ASSUME NEW d, IsDisk(d)
  PROVE  /\ ReplayInv(Untouched, d) /\ Accepted(Untouched)
         /\ \A u \in File : Untouched.alias[u] = u /\ Untouched.fate[u] = NoFate
         /\ Untouched.created = {} /\ Untouched.replaced = {} /\ Untouched.clobbered = {}
         /\ Untouched.overwrites = {} /\ Untouched.renamedOld = {}
<1>1. PICK f : f = [u \in File |-> NoFate]
  OBVIOUS
<1>2. f \in [File -> Fates] /\ (\A u \in File : f[u] = NoFate) /\ ~ NoFate.live
  BY <1>1, Constants
<1>3. PICK calm \in Reasons : calm = ""
  BY Zenon DEF Reasons
<1>4. PICK r : r = Untouched
  OBVIOUS
<1>5. r = [fate |-> f, order |-> <<>>, alias |-> [u \in File |-> u], created |-> {}, replaced |-> {},
           renamedOld |-> {}, clobbered |-> {}, overwrites |-> {}, expected |-> None, refused |-> calm]
  BY <1>1, <1>3, <1>4 DEF Untouched
<1>6. r \in ReplayStates
  BY <1>2, <1>5 DEF ReplayStates
<1>7. /\ r.fate = f /\ DOMAIN r.order = {} /\ (\A u \in File : r.alias[u] = u) /\ r.created = {}
      /\ r.replaced = {} /\ r.clobbered = {} /\ r.refused = calm
      /\ r.overwrites = {} /\ r.renamedOld = {}
  BY <1>5
<1>8. Ordered(r) /\ Lifeless(r) /\ Homed(r) /\ Freed(r, d) /\ Contained(r) /\ Founded(r, d)
  BY <1>2, <1>7 DEF Ordered, Lifeless, Homed, Freed, Contained, Founded
<1>9. Accepted(r)
  BY <1>3, <1>7, Zenon DEF Accepted
<1> QED BY <1>2, <1>4, <1>6, <1>7, <1>8, <1>9 DEF ReplayInv

LEMMA OperationDoes ==
  ASSUME NEW d, IsDisk(d), NEW r, ReplayInv(r, d), NEW op, IsOperation(op), Accepted(r),
         Accepted(Replayed(r, d, op))
  PROVE  Does(r, Replayed(r, d, op), d, op)
<1>1. r \in ReplayStates /\ op.kind \in Kinds /\ \A o \in File : r.fate[o].live => r.fate[o].at \in File
  BY DEF IsOperation, ReplayInv, Homed
<1>2. ~ (r.refused # "")
  BY Zenon DEF Accepted
<1>3. CASE op.kind = "create"
  <2>1. Replayed(r, d, op) = ReplayCreate(r, d, op)
    BY <1>2, <1>3 DEF Replayed
  <2> QED BY <1>1, <1>3, <2>1, CreateDoes
<1>4. CASE op.kind = "delete"
  <2>1. Replayed(r, d, op) = ReplayDelete(r, d, op)
    BY <1>2, <1>4 DEF Replayed
  <2> QED BY <1>1, <1>4, <2>1, DeleteDoes
<1>5. CASE op.kind = "rename"
  <2>1. Replayed(r, d, op) = ReplayRename(r, d, op)
    BY <1>2, <1>5 DEF Replayed
  <2> QED BY <1>1, <1>5, <2>1, RenameDoes
<1>6. CASE op.kind = "edit"
  <2>1. Replayed(r, d, op) = ReplayEdit(r, d, op)
    BY <1>2, <1>6 DEF Replayed
  <2> QED BY <1>1, <1>6, <2>1, EditDoes
<1> QED BY <1>1, <1>3, <1>4, <1>5, <1>6 DEF Kinds

\* Of a batch that is not refused, every operation does its part.
LEMMA BatchDoes ==
  ASSUME NEW d, IsDisk(d), NEW ops, IsBatch(ops), Accepted(Replay(d, ops))
  PROVE  /\ Replays(d, ops)[0] = Untouched
         /\ \A i \in 0 .. Len(ops) : ReplayInv(Replays(d, ops)[i], d) /\ Accepted(Replays(d, ops)[i])
         /\ \A i \in 1 .. Len(ops) : Does(Replays(d, ops)[i - 1], Replays(d, ops)[i], d, ops[i])
<1>1. PICK g : g = Replays(d, ops)
  OBVIOUS
<1>2. PICK n \in Nat : n = Len(ops)
  BY DEF IsBatch
<1>3. g[0] = Untouched /\ (\A i \in 1 .. n : g[i] = Replayed(g[i - 1], d, ops[i])) /\ Accepted(g[n])
  BY <1>1, <1>2, ReplaysEquation DEF Replay
<1>4. ASSUME NEW i \in 1 .. n, Accepted(g[i])
      PROVE  Accepted(g[i - 1])
  <2>1. SUFFICES ASSUME g[i - 1].refused # ""
                 PROVE  FALSE
    BY Zenon DEF Accepted
  <2>2. Replayed(g[i - 1], d, ops[i]) = g[i - 1]
    BY <2>1, Zenon DEF Replayed
  <2>3. g[i] = g[i - 1]
    BY <1>3, <2>2
  <2> QED BY <1>4, <2>1, <2>3, Zenon DEF Accepted
<1>5. \A i \in 0 .. n : Accepted(g[i])
  <2> DEFINE Good == {j \in 0 .. n : Accepted(g[n - j])}
  <2>1. 0 \in Good
    BY <1>3
  <2>2. ASSUME NEW j \in 1 .. n, j - 1 \in Good
        PROVE  j \in Good
    <3>1. Accepted(g[n - (j - 1)]) /\ n - (j - 1) \in 1 .. n /\ n - (j - 1) - 1 = n - j
      BY <2>2
    <3>2. Accepted(g[n - (j - 1) - 1])
      BY <1>4, <3>1
    <3> QED BY <3>1, <3>2
  <2>3. \A j \in 0 .. n : j \in Good
    <3> HIDE DEF Good
    <3> QED BY <2>1, <2>2, UpTo
  <2> TAKE i \in 0 .. n
  <2>4. n - i \in 0 .. n /\ n - (n - i) = i
    OBVIOUS
  <2> QED BY <2>3, <2>4
<1>6. ASSUME NEW i \in 1 .. n, ReplayInv(g[i - 1], d)
      PROVE  ReplayInv(g[i], d) /\ Does(g[i - 1], g[i], d, ops[i])
  <2>1. IsOperation(ops[i]) /\ Accepted(g[i - 1]) /\ Accepted(g[i]) /\ g[i] = Replayed(g[i - 1], d, ops[i])
    BY <1>2, <1>3, <1>5 DEF IsBatch
  <2>2. Does(g[i - 1], g[i], d, ops[i])
    BY <1>6, <2>1, OperationDoes
  <2> QED BY <1>6, <2>1, <2>2, OperationKeeps
<1>7. \A i \in 0 .. n : ReplayInv(g[i], d)
  <2> DEFINE Good == {j \in 0 .. n : ReplayInv(g[j], d)}
  <2>1. 0 \in Good
    BY <1>3, UntouchedHolds
  <2>2. ASSUME NEW j \in 1 .. n, j - 1 \in Good
        PROVE  j \in Good
    BY <1>6, <2>2
  <2>3. \A j \in 0 .. n : j \in Good
    <3> HIDE DEF Good
    <3> QED BY <2>1, <2>2, UpTo
  <2> QED BY <2>3
<1>8. \A i \in 1 .. n : Does(g[i - 1], g[i], d, ops[i])
  BY <1>6, <1>7
<1> QED BY <1>1, <1>2, <1>3, <1>5, <1>7, <1>8
-----------------------------------------------------------------------------
(* The plan lists what each file needs, in the order of the files.         *)

FlatFit(g, seqs, len) ==
  g = [i \in 1 .. len |-> IF i = 1 THEN seqs[i] ELSE g[i - 1] \o seqs[i]]

LEMMA FlatExist ==
  ASSUME NEW seqs, NEW len \in Nat
  PROVE  \E g : FlatFit(g, seqs, len)
<1> DEFINE Good == {k \in 0 .. len : \E g : FlatFit(g, seqs, k)}
<1>1. 0 \in Good
  <2>1. PICK g : g = [i \in 1 .. 0 |-> <<>>]
    OBVIOUS
  <2>2. g = [i \in 1 .. 0 |-> IF i = 1 THEN seqs[i] ELSE g[i - 1] \o seqs[i]]
    BY <2>1
  <2>3. FlatFit(g, seqs, 0)
    BY <2>2 DEF FlatFit
  <2> QED BY <2>3
<1>2. ASSUME NEW k \in 1 .. len, k - 1 \in Good
      PROVE  k \in Good
  <2>1. PICK g : FlatFit(g, seqs, k - 1)
    BY <1>2
  <2> DEFINE h == [i \in 1 .. k |-> IF i = k THEN IF k = 1 THEN seqs[k] ELSE g[k - 1] \o seqs[k] ELSE g[i]]
  <2>2. \A i \in 1 .. k - 1 : h[i] = g[i]
    OBVIOUS
  <2>3. \A i \in 1 .. k - 1 : g[i] = IF i = 1 THEN seqs[i] ELSE g[i - 1] \o seqs[i]
    BY <2>1 DEF FlatFit
  <2>4. h[k] = IF k = 1 THEN seqs[k] ELSE h[k - 1] \o seqs[k]
    BY <2>2
  <2>5. \A i \in 1 .. k - 1 : h[i] = IF i = 1 THEN seqs[i] ELSE h[i - 1] \o seqs[i]
    <3> TAKE i \in 1 .. k - 1
    <3>1. i = 1 \/ (i - 1 \in 1 .. k - 1 /\ h[i - 1] = g[i - 1])
      BY <2>2
    <3> QED BY <2>2, <2>3, <3>1
  <2>6. h = [i \in 1 .. k |-> h[i]]
    OBVIOUS
  <2> HIDE DEF h
  <2>7. \A i \in 1 .. k : h[i] = IF i = 1 THEN seqs[i] ELSE h[i - 1] \o seqs[i]
    <3>1. \A i \in 1 .. k : i = k \/ i \in 1 .. k - 1
      OBVIOUS
    <3> QED BY <2>4, <2>5, <3>1
  <2>8. FlatFit(h, seqs, k)
    BY <2>6, <2>7 DEF FlatFit
  <2> QED BY <2>8
<1>3. len \in Good
  <2> HIDE DEF Good
  <2> QED BY <1>1, <1>2, UpTo
<1> QED BY <1>3

\* The elements of the first m sequences, each after the ones before it in its own.
Laid(F, seqs, m) ==
  /\ \A k \in 1 .. Len(F) : \E i \in 1 .. m : \E j \in 1 .. Len(seqs[i]) :
       F[k] = seqs[i][j] /\ (j > 1 => k > 1 /\ F[k - 1] = seqs[i][j - 1])
  /\ \A i \in 1 .. m : \A j \in 1 .. Len(seqs[i]) : \E k \in 1 .. Len(F) : F[k] = seqs[i][j]

LEMMA LaidNext ==
  ASSUME NEW S, NEW F \in Seq(S), NEW seqs, NEW m \in Nat, seqs[m + 1] \in Seq(S), Laid(F, seqs, m)
  PROVE  F \o seqs[m + 1] \in Seq(S) /\ Laid(F \o seqs[m + 1], seqs, m + 1)
<1>1. PICK t \in Seq(S) : t = seqs[m + 1]
  OBVIOUS
<1>2. PICK G : G = F \o t
  OBVIOUS
<1>3. PICK a \in Nat, b \in Nat : a = Len(F) /\ b = Len(t)
  OBVIOUS
<1>4. /\ G \in Seq(S) /\ Len(G) = a + b
      /\ \A k \in 1 .. a : G[k] = F[k]
      /\ \A j \in 1 .. b : G[a + j] = t[j]
  BY <1>2, <1>3
<1>5. ASSUME NEW k \in 1 .. a
      PROVE  \E i \in 1 .. m + 1 : \E j \in 1 .. Len(seqs[i]) :
               G[k] = seqs[i][j] /\ (j > 1 => k > 1 /\ G[k - 1] = seqs[i][j - 1])
  <2>1. PICK i \in 1 .. m : \E j \in 1 .. Len(seqs[i]) :
                 F[k] = seqs[i][j] /\ (j > 1 => k > 1 /\ F[k - 1] = seqs[i][j - 1])
    BY <1>3 DEF Laid
  <2>2. PICK j \in 1 .. Len(seqs[i]) : F[k] = seqs[i][j] /\ (j > 1 => k > 1 /\ F[k - 1] = seqs[i][j - 1])
    BY <2>1
  <2>3. i \in 1 .. m + 1 /\ (k > 1 => k - 1 \in 1 .. a)
    OBVIOUS
  <2> QED BY <1>4, <2>2, <2>3
<1>6. ASSUME NEW j \in 1 .. b
      PROVE  G[a + j] = t[j] /\ (j > 1 => a + j > 1 /\ G[a + j - 1] = t[j - 1])
  <2>1. j > 1 => j - 1 \in 1 .. b /\ a + (j - 1) = a + j - 1
    OBVIOUS
  <2> QED BY <1>4, <2>1
<1>7. \A k \in 1 .. a + b : k \in 1 .. a \/ (k - a \in 1 .. b /\ a + (k - a) = k)
  OBVIOUS
<1>8. \A k \in 1 .. Len(G) : \E i \in 1 .. m + 1 : \E j \in 1 .. Len(seqs[i]) :
        G[k] = seqs[i][j] /\ (j > 1 => k > 1 /\ G[k - 1] = seqs[i][j - 1])
  <2> TAKE k \in 1 .. Len(G)
  <2>1. CASE k \in 1 .. a
    BY <1>5, <2>1
  <2>2. CASE k - a \in 1 .. b /\ a + (k - a) = k
    <3>1. PICK j \in 1 .. b : k = a + j
      BY <2>2
    <3>2. G[k] = t[j] /\ (j > 1 => k > 1 /\ G[k - 1] = t[j - 1])
      BY <1>6, <3>1
    <3>3. m + 1 \in 1 .. m + 1 /\ j \in 1 .. Len(seqs[m + 1])
      BY <1>1, <1>3
    <3> QED BY <1>1, <3>2, <3>3
  <2> QED BY <1>4, <1>7, <2>1, <2>2
<1>9. \A i \in 1 .. m + 1 : \A j \in 1 .. Len(seqs[i]) : \E k \in 1 .. Len(G) : G[k] = seqs[i][j]
  <2> SUFFICES ASSUME NEW i \in 1 .. m + 1, NEW j \in 1 .. Len(seqs[i])
               PROVE  \E k \in 1 .. Len(G) : G[k] = seqs[i][j]
    OBVIOUS
  <2>1. CASE i \in 1 .. m
    <3>1. PICK k \in 1 .. a : F[k] = seqs[i][j]
      BY <1>3, <2>1 DEF Laid
    <3> QED BY <1>4, <3>1
  <2>2. CASE i = m + 1
    <3>1. j \in 1 .. b /\ a + j \in 1 .. a + b
      BY <1>1, <1>3, <2>2
    <3> QED BY <1>1, <1>4, <2>2, <3>1
  <2> QED BY <2>1, <2>2
<1>10. Laid(G, seqs, m + 1)
  BY <1>8, <1>9 DEF Laid
<1> QED BY <1>1, <1>2, <1>4, <1>10

Joined(s, t) == s \o t

LEMMA Flattened ==
  ASSUME NEW S, NEW n \in Nat, NEW seqs \in [1 .. n -> Seq(S)]
  PROVE  FlattenSeq(seqs) \in Seq(S) /\ Laid(FlattenSeq(seqs), seqs, n)
<1>1. Len(seqs) = n
  OBVIOUS
<1>2. CASE n = 0
  <2>1. FlattenSeq(seqs) = seqs
    BY <1>1, <1>2 DEF FlattenSeq
  <2>2. seqs \in Seq(S) /\ Len(seqs) = 0
    BY <1>1, <1>2
  <2> QED BY <1>2, <2>1, <2>2 DEF Laid
<1>3. CASE n > 0
  <2>1. PICK g : g = CHOOSE f : FlatFit(f, seqs, n)
    OBVIOUS
  <2>2. FlatFit(g, seqs, n)
    BY <2>1, FlatExist
  <2>3. FlattenSeq(seqs) = g[n]
    BY <1>1, <1>3, <2>1 DEF FlattenSeq, FlatFit
  <2>4. \A i \in 1 .. n : g[i] = IF i = 1 THEN seqs[i] ELSE Joined(g[i - 1], seqs[i])
    BY <2>2 DEF FlatFit, Joined
  <2> DEFINE Good == {k \in 0 .. n : k > 0 => g[k] \in Seq(S) /\ Laid(g[k], seqs, k)}
  <2>5. 0 \in Good
    OBVIOUS
  <2>6. ASSUME NEW k \in 1 .. n, k - 1 \in Good
        PROVE  k \in Good
    <3>1. CASE k = 1
      <4>1. PICK F : F = <<>>
        OBVIOUS
      <4>2. PICK m \in Nat : m = 0 /\ m + 1 = k
        BY <3>1
      <4>3. F \in Seq(S) /\ Len(F) = 0
        BY <4>1
      <4>4. Laid(F, seqs, m)
        BY <4>2, <4>3 DEF Laid
      <4>5. seqs[m + 1] \in Seq(S)
        BY <4>2
      <4>6. PICK q : q = F \o seqs[m + 1]
        OBVIOUS
      <4>7. q \in Seq(S) /\ Laid(q, seqs, m + 1)
        BY <4>3, <4>4, <4>5, <4>6, LaidNext
      <4>8. q = seqs[k]
        BY <4>1, <4>2, <4>6
      <4>9. g[k] = q
        BY <2>4, <3>1, <4>8
      <4>10. g[k] \in Seq(S) /\ Laid(g[k], seqs, k)
        BY <4>2, <4>7, <4>9
      <4> QED BY <4>10
    <3>2. CASE k > 1
      <4>1. g[k - 1] \in Seq(S) /\ Laid(g[k - 1], seqs, k - 1)
        BY <2>6, <3>2
      <4>2. PICK m \in Nat : m = k - 1 /\ m + 1 = k
        OBVIOUS
      <4>3. seqs[m + 1] \in Seq(S)
        BY <4>2
      <4>4. g[m + 1] = g[m] \o seqs[m + 1]
        <5>1. g[m + 1] = Joined(g[m + 1 - 1], seqs[m + 1])
          BY <2>4, <3>2, <4>2
        <5>2. m + 1 - 1 = m
          OBVIOUS
        <5> QED BY <5>1, <5>2 DEF Joined
      <4>5. g[m] \in Seq(S) /\ Laid(g[m], seqs, m)
        BY <4>1, <4>2
      <4>6. g[m + 1] \in Seq(S) /\ Laid(g[m + 1], seqs, m + 1)
        BY <4>3, <4>4, <4>5, LaidNext
      <4> QED BY <4>2, <4>6
    <3> QED BY <3>1, <3>2
  <2>7. n \in Good
    <3> HIDE DEF Good
    <3>1. \A k \in 0 .. n : k \in Good
      BY <2>5, <2>6, UpTo
    <3> QED BY <3>1
  <2> QED BY <1>3, <2>3, <2>7
<1> QED BY <1>2, <1>3

Changed(r, d, o) == o \in r.created \cup r.replaced \/ r.fate[o].text # Read(d, o)

RowOf(r, d, o) == Row({o, r.fate[o].at}, Read(d, o), r.fate[o].text)

MoveOf(r, d, o) == Move(o, r.fate[o].at, {RowOf(r, d, o)} \cup Clobbers(r, d, r.fate[o].at))

\* Live at another path, of which its file has to be told.
Displaced(r, o) == r.fate[o].live /\ r.fate[o].at # o

\* The physical operations the fate of a file asks for.
Needs(r, d, o, op) ==
  \/ /\ r.fate[o].live /\ r.fate[o].at = o /\ Changed(r, d, o)
     /\ op = Write(o, r.fate[o].text, {RowOf(r, d, o)})
  \/ /\ Displaced(r, o) /\ o \in r.created
     /\ op = Write(r.fate[o].at, r.fate[o].text, {Row({r.fate[o].at}, Read(d, o), r.fate[o].text)})
  \/ Displaced(r, o) /\ o \notin r.created /\ op = MoveOf(r, d, o)
  \/ /\ Displaced(r, o) /\ o \notin r.created /\ Changed(r, d, o)
     /\ op = Write(r.fate[o].at, r.fate[o].text, {RowOf(r, d, o)})
  \/ o \in Doomed(r) /\ op = Unlink(o, {Row({o}, Read(d, o), Missing)})

\* The write that completes a move.
Completes(r, o, op) == op.kind = "write" /\ Displaced(r, o) /\ o \notin r.created

PhysicalOps(r, d) == UNION {{PlanOf(r, d, o)[j] : j \in 1 .. Len(PlanOf(r, d, o))}
                              \cup {RemovalOf(r, d, o)[j] : j \in 1 .. Len(RemovalOf(r, d, o))} : o \in File}

LEMMA OpKinds ==
  /\ \A u, t, rows : Write(u, t, rows).kind = "write" /\ Write(u, t, rows).at = u
                     /\ Write(u, t, rows).text = t /\ Write(u, t, rows).rows = rows
                     /\ Write(u, t, rows).from = u
  /\ \A o, n, rows : Move(o, n, rows).kind = "rename" /\ Move(o, n, rows).at = n
                     /\ Move(o, n, rows).from = o /\ Move(o, n, rows).rows = rows
  /\ \A u, rows : Unlink(u, rows).kind = "delete" /\ Unlink(u, rows).at = u
                  /\ Unlink(u, rows).rows = rows /\ Unlink(u, rows).from = u
BY DEF Write, Move, Unlink

\* Of the sequences p and q, what a file needs and nothing else.
Meets(p, q, r, d, o) ==
  /\ Len(p) \in Nat /\ p \in Seq({p[j] : j \in 1 .. Len(p)})
  /\ Len(q) \in Nat /\ q \in Seq({q[j] : j \in 1 .. Len(q)})
  /\ \A j \in 1 .. Len(p) :
       Needs(r, d, o, p[j]) /\ (Completes(r, o, p[j]) => j > 1 /\ p[j - 1] = MoveOf(r, d, o))
  /\ \A j \in 1 .. Len(q) : Needs(r, d, o, q[j]) /\ ~ Completes(r, o, q[j])
  /\ \A op : Needs(r, d, o, op) =>
       (\E j \in 1 .. Len(p) : p[j] = op) \/ (\E j \in 1 .. Len(q) : q[j] = op)

LEMMA PlanOfFile ==
  ASSUME NEW r, NEW d, NEW o
  PROVE  Meets(PlanOf(r, d, o), RemovalOf(r, d, o), r, d, o)
<1> DEFINE f    == r.fate[o]
           home == Write(o, f.text, {RowOf(r, d, o)})
           born == Write(f.at, f.text, {Row({f.at}, Read(d, o), f.text)})
           move == MoveOf(r, d, o)
           full == Write(f.at, f.text, {RowOf(r, d, o)})
           gone == Unlink(o, {Row({o}, Read(d, o), Missing)})
<1>1. PICK p : p = PlanOf(r, d, o)
  OBVIOUS
<1>2. PICK q : q = RemovalOf(r, d, o)
  OBVIOUS
<1>3. p = IF ~ f.live THEN <<>>
          ELSE IF f.at = o THEN IF Changed(r, d, o) THEN <<home>> ELSE <<>>
          ELSE IF o \in r.created THEN <<born>>
          ELSE IF Changed(r, d, o) THEN <<move, full>>
          ELSE <<move>>
  BY <1>1 DEF PlanOf, Changed, RowOf, MoveOf
<1>4. q = IF o \in Doomed(r) THEN <<gone>> ELSE <<>>
  BY <1>2 DEF RemovalOf
<1>5. home.kind = "write" /\ born.kind = "write" /\ full.kind = "write" /\ move.kind = "rename"
      /\ gone.kind = "delete"
  BY OpKinds DEF MoveOf
<1>6. \A op : Needs(r, d, o, op) <=>
        \/ f.live /\ f.at = o /\ Changed(r, d, o) /\ op = home
        \/ f.live /\ f.at # o /\ o \in r.created /\ op = born
        \/ f.live /\ f.at # o /\ o \notin r.created /\ op = move
        \/ f.live /\ f.at # o /\ o \notin r.created /\ Changed(r, d, o) /\ op = full
        \/ o \in Doomed(r) /\ op = gone
  BY DEF Needs, Displaced
<1>7. \A op : Completes(r, o, op) <=> op.kind = "write" /\ f.live /\ f.at # o /\ o \notin r.created
  BY DEF Completes, Displaced
<1> HIDE DEF f, home, born, move, full, gone
<1>8. /\ Len(p) \in Nat /\ p \in Seq({p[j] : j \in 1 .. Len(p)})
      /\ \A j \in 1 .. Len(p) :
           Needs(r, d, o, p[j]) /\ (Completes(r, o, p[j]) => j > 1 /\ p[j - 1] = move)
      /\ \A op : Needs(r, d, o, op) => (\E j \in 1 .. Len(p) : p[j] = op) \/ (o \in Doomed(r) /\ op = gone)
  <2>1. CASE ~ f.live
    <3>1. p = <<>>
      BY <1>3, <2>1
    <3> QED BY <1>6, <2>1, <3>1
  <2>2. CASE f.live /\ f.at = o /\ Changed(r, d, o)
    <3>1. p = <<home>>
      BY <1>3, <2>2
    <3>2. Len(p) = 1 /\ p[1] = home
      BY <3>1
    <3> QED BY <1>6, <1>7, <2>2, <3>1, <3>2
  <2>3. CASE f.live /\ f.at = o /\ ~ Changed(r, d, o)
    <3>1. p = <<>>
      BY <1>3, <2>3
    <3> QED BY <1>6, <2>3, <3>1
  <2>4. CASE f.live /\ f.at # o /\ o \in r.created
    <3>1. p = <<born>>
      BY <1>3, <2>4
    <3>2. Len(p) = 1 /\ p[1] = born
      BY <3>1
    <3> QED BY <1>6, <1>7, <2>4, <3>1, <3>2
  <2>5. CASE f.live /\ f.at # o /\ o \notin r.created /\ Changed(r, d, o)
    <3>1. p = <<move, full>>
      BY <1>3, <2>5
    <3>2. Len(p) = 2 /\ p[1] = move /\ p[2] = full
      BY <3>1
    <3>3. \A j \in 1 .. 2 : j = 1 \/ (j = 2 /\ j - 1 = 1)
      OBVIOUS
    <3>4. ~ Completes(r, o, p[1])
      BY <1>5, <1>7, <3>2
    <3>5. \A j \in 1 .. Len(p) :
            Needs(r, d, o, p[j]) /\ (Completes(r, o, p[j]) => j > 1 /\ p[j - 1] = move)
      BY <1>6, <2>5, <3>2, <3>3, <3>4
    <3>6. p \in Seq({p[j] : j \in 1 .. Len(p)})
      BY <3>1, <3>2
    <3>7. 1 \in 1 .. Len(p) /\ 2 \in 1 .. Len(p)
      BY <3>2
    <3>8. \A op : Needs(r, d, o, op) => op = move \/ op = full \/ (o \in Doomed(r) /\ op = gone)
      BY <1>6, <2>5
    <3> QED BY <3>2, <3>5, <3>6, <3>7, <3>8
  <2>6. CASE f.live /\ f.at # o /\ o \notin r.created /\ ~ Changed(r, d, o)
    <3>1. p = <<move>>
      BY <1>3, <2>6
    <3>2. Len(p) = 1 /\ p[1] = move
      BY <3>1
    <3> QED BY <1>5, <1>6, <1>7, <2>6, <3>1, <3>2
  <2> QED BY <2>1, <2>2, <2>3, <2>4, <2>5, <2>6
<1>9. /\ Len(q) \in Nat /\ q \in Seq({q[j] : j \in 1 .. Len(q)})
      /\ \A j \in 1 .. Len(q) : Needs(r, d, o, q[j]) /\ ~ Completes(r, o, q[j])
      /\ o \in Doomed(r) => \E j \in 1 .. Len(q) : q[j] = gone
  <2>1. CASE o \in Doomed(r)
    <3>1. q = <<gone>>
      BY <1>4, <2>1
    <3>2. Len(q) = 1 /\ q[1] = gone
      BY <3>1
    <3> QED BY <1>5, <1>6, <1>7, <2>1, <3>1, <3>2
  <2>2. CASE o \notin Doomed(r)
    <3>1. q = <<>>
      BY <1>4, <2>2
    <3> QED BY <2>2, <3>1
  <2> QED BY <2>1, <2>2
<1>10. Meets(p, q, r, d, o)
  BY <1>8, <1>9 DEF Meets, move
<1> QED BY <1>1, <1>2, <1>10

Planned(r, d, plan) ==
  /\ Len(plan) \in Nat /\ DOMAIN plan = 1 .. Len(plan)
  /\ \A k \in 1 .. Len(plan) : \E o \in File :
       /\ Needs(r, d, o, plan[k])
       /\ Completes(r, o, plan[k]) => k > 1 /\ plan[k - 1] = MoveOf(r, d, o)
  /\ \A o \in File : \A op : Needs(r, d, o, op) => \E k \in 1 .. Len(plan) : plan[k] = op

LEMMA PlanPlanned ==
  ASSUME NEW d, NEW r, ReplayInv(r, d)
  PROVE  Planned(r, d, Plan(r, d))
<1> DEFINE S == PhysicalOps(r, d)
<1>1. PICK n \in Nat : n = Len(r.order) /\ DOMAIN r.order = 1 .. n /\ \A i \in 1 .. n : r.order[i] \in File
  BY DEF ReplayInv, ReplayStates
<1>2. PICK lives : lives = [i \in 1 .. n |-> PlanOf(r, d, r.order[i])]
  OBVIOUS
<1>3. PICK gone : gone = [i \in 1 .. n |-> RemovalOf(r, d, r.order[i])]
  OBVIOUS
<1>4. ASSUME NEW o \in File
      PROVE  PlanOf(r, d, o) \in Seq(S) /\ RemovalOf(r, d, o) \in Seq(S)
  <2>1. PICK p, q : p = PlanOf(r, d, o) /\ q = RemovalOf(r, d, o)
    OBVIOUS
  <2>2. {p[j] : j \in 1 .. Len(p)} \subseteq S /\ {q[j] : j \in 1 .. Len(q)} \subseteq S
    BY <2>1 DEF PhysicalOps
  <2>3. p \in Seq({p[j] : j \in 1 .. Len(p)}) /\ q \in Seq({q[j] : j \in 1 .. Len(q)})
    <3>1. Meets(p, q, r, d, o)
      BY <2>1, PlanOfFile
    <3> QED BY <3>1 DEF Meets
  <2> HIDE DEF S
  <2>4. \A A, B : \A s \in Seq(A) : A \subseteq B => s \in Seq(B)
    OBVIOUS
  <2> QED BY <2>1, <2>2, <2>3, <2>4
<1> HIDE DEF S
<1>5. lives \in [1 .. n -> Seq(S)] /\ gone \in [1 .. n -> Seq(S)]
  BY <1>1, <1>2, <1>3, <1>4
<1>6. PICK F : F = FlattenSeq(lives)
  OBVIOUS
<1>7. PICK G : G = FlattenSeq(gone)
  OBVIOUS
<1>8. F \in Seq(S) /\ Laid(F, lives, n) /\ G \in Seq(S) /\ Laid(G, gone, n)
  BY <1>5, <1>6, <1>7, Flattened
<1>9. PICK plan : plan = Plan(r, d)
  OBVIOUS
<1>10. plan = F \o G
  BY <1>1, <1>2, <1>3, <1>6, <1>7, <1>9 DEF Plan
<1>11. PICK a \in Nat, b \in Nat : a = Len(F) /\ b = Len(G)
  BY <1>8
<1>12. /\ plan \in Seq(S) /\ Len(plan) = a + b /\ DOMAIN plan = 1 .. a + b
       /\ \A k \in 1 .. a : plan[k] = F[k]
       /\ \A k \in 1 .. b : plan[a + k] = G[k]
  BY <1>8, <1>10, <1>11
<1>13. ASSUME NEW k \in 1 .. a
       PROVE  \E o \in File :
                /\ Needs(r, d, o, plan[k])
                /\ Completes(r, o, plan[k]) => k > 1 /\ plan[k - 1] = MoveOf(r, d, o)
  <2>1. PICK i \in 1 .. n : \E j \in 1 .. Len(lives[i]) :
               F[k] = lives[i][j] /\ (j > 1 => k > 1 /\ F[k - 1] = lives[i][j - 1])
    BY <1>8, <1>11 DEF Laid
  <2>2. PICK j \in 1 .. Len(lives[i]) :
               F[k] = lives[i][j] /\ (j > 1 => k > 1 /\ F[k - 1] = lives[i][j - 1])
    BY <2>1
  <2>3. PICK o \in File : o = r.order[i]
    BY <1>1
  <2>4. Meets(lives[i], gone[i], r, d, o)
    BY <1>2, <1>3, <2>3, PlanOfFile
  <2>5. /\ Needs(r, d, o, lives[i][j])
        /\ Completes(r, o, lives[i][j]) => j > 1 /\ lives[i][j - 1] = MoveOf(r, d, o)
    BY <2>4 DEF Meets
  <2>6. k > 1 => k - 1 \in 1 .. a
    OBVIOUS
  <2> QED BY <1>12, <2>2, <2>5, <2>6
<1>14. ASSUME NEW k \in 1 .. b
       PROVE  \E o \in File : Needs(r, d, o, plan[a + k]) /\ ~ Completes(r, o, plan[a + k])
  <2>1. PICK i \in 1 .. n : \E j \in 1 .. Len(gone[i]) : G[k] = gone[i][j]
    BY <1>8, <1>11 DEF Laid
  <2>2. PICK j \in 1 .. Len(gone[i]) : G[k] = gone[i][j]
    BY <2>1
  <2>3. PICK o \in File : o = r.order[i]
    BY <1>1
  <2>4. Meets(lives[i], gone[i], r, d, o)
    BY <1>2, <1>3, <2>3, PlanOfFile
  <2>5. Needs(r, d, o, gone[i][j]) /\ ~ Completes(r, o, gone[i][j])
    BY <2>4 DEF Meets
  <2> QED BY <1>12, <2>2, <2>5
<1>15. \A k \in 1 .. a + b : k \in 1 .. a \/ \E j \in 1 .. b : k = a + j
  <2> TAKE k \in 1 .. a + b
  <2>1. k \in 1 .. a \/ (k - a \in 1 .. b /\ k = a + (k - a))
    OBVIOUS
  <2> QED BY <2>1
<1>16. ASSUME NEW o \in File, NEW op, Needs(r, d, o, op)
       PROVE  \E k \in 1 .. a + b : plan[k] = op
  <2>1. r.fate[o] # NoFate
    <3>1. r.fate[o].live \/ r.fate[o] = Deleted
      BY <1>16 DEF Needs, Displaced, Doomed
    <3> QED BY <3>1, Constants
  <2>2. PICK i \in 1 .. n : r.order[i] = o
    BY <1>1, <2>1 DEF ReplayInv, Ordered
  <2>3. Meets(lives[i], gone[i], r, d, o)
    BY <1>2, <1>3, <2>2, PlanOfFile
  <2>4. \/ \E j \in 1 .. Len(lives[i]) : lives[i][j] = op
        \/ \E j \in 1 .. Len(gone[i]) : gone[i][j] = op
    BY <1>16, <2>3 DEF Meets
  <2>5. CASE \E j \in 1 .. Len(lives[i]) : lives[i][j] = op
    <3>1. PICK j \in 1 .. Len(lives[i]) : lives[i][j] = op
      BY <2>5
    <3>2. PICK k \in 1 .. a : F[k] = op
      BY <1>8, <1>11, <3>1 DEF Laid
    <3> QED BY <1>12, <3>2
  <2>6. CASE \E j \in 1 .. Len(gone[i]) : gone[i][j] = op
    <3>1. PICK j \in 1 .. Len(gone[i]) : gone[i][j] = op
      BY <2>6
    <3>2. PICK k \in 1 .. b : G[k] = op
      BY <1>8, <1>11, <3>1 DEF Laid
    <3>3. a + k \in 1 .. a + b /\ plan[a + k] = op
      BY <1>12, <3>2
    <3> QED BY <3>3
  <2> QED BY <2>4, <2>5, <2>6
<1>17. Len(plan) \in Nat
  BY <1>12
<1>18. \A k \in 1 .. Len(plan) : \E o \in File :
         /\ Needs(r, d, o, plan[k])
         /\ Completes(r, o, plan[k]) => k > 1 /\ plan[k - 1] = MoveOf(r, d, o)
  BY <1>12, <1>13, <1>14, <1>15
<1>19. Planned(r, d, plan)
  BY <1>12, <1>16, <1>17, <1>18 DEF Planned
<1> QED BY <1>9, <1>19
-----------------------------------------------------------------------------
(* What stands on the disk after so many operations of the plan.           *)

\* The file that ends at the path is live there.
Arrives(r, v) == r.fate[r.alias[v]].live /\ r.fate[r.alias[v]].at = v

Parted(r) == \A v \in File : Arrives(r, v) => v \notin Doomed(r)

Left(plan, k, v) == \E i \in 1 .. k : plan[i].kind = "rename" /\ plan[i].from = v

Inode == [kind : {"absent", "file", "link", "dir"}, text : Texts]

Standing(r, d, plan, k, v) ==
  IF Landed(plan, k, "write", v) THEN Holds(r.fate[r.alias[v]].text)
  ELSE IF Landed(plan, k, "rename", v) THEN d[r.alias[v]]
  ELSE IF Landed(plan, k, "delete", v) \/ Left(plan, k, v) THEN Absent
  ELSE d[v]

Stands(r, d, plan, k, S) ==
  S \in [File -> Inode] /\ \A v \in File : S[v] = Standing(r, d, plan, k, v)

\* The live file of a path is the one the path stands for.
LEMMA LiveAt ==
  ASSUME NEW d, NEW r, ReplayInv(r, d), NEW o \in File, r.fate[o].live
  PROVE  /\ r.fate[o].at \in File /\ r.alias[r.fate[o].at] = o /\ Arrives(r, r.fate[o].at)
         /\ r.alias[o] = o
         /\ r.fate[o].at # o => ~ Arrives(r, o)
BY DEF ReplayInv, Homed, Freed, Arrives

LEMMA Parts ==
  ASSUME NEW d, NEW r, ReplayInv(r, d), ~ Collision(r)
  PROVE  Parted(r)
<1> SUFFICES ASSUME NEW v \in File, Arrives(r, v), v \in Doomed(r)
             PROVE  FALSE
  BY DEF Parted
<1>1. r.alias[v] \in File
  BY DEF ReplayInv, ReplayStates
<1>2. v \in Finals(r)
  BY <1>1 DEF Finals, Arrives
<1> QED BY <1>2 DEF Collision

LEMMA PlanKinds ==
  ASSUME NEW d, NEW r, ReplayInv(r, d), NEW plan, Planned(r, d, plan), NEW k \in 1 .. Len(plan)
  PROVE  /\ plan[k].at \in File /\ plan[k].from \in File
         /\ plan[k].kind \in {"write", "rename", "delete"}
         /\ plan[k].kind = "write" =>
              /\ Arrives(r, plan[k].at) /\ plan[k].text = r.fate[r.alias[plan[k].at]].text
              /\ Needs(r, d, r.alias[plan[k].at], plan[k])
              /\ r.alias[plan[k].at] \notin r.created /\ r.alias[plan[k].at] # plan[k].at =>
                   k > 1 /\ plan[k - 1] = MoveOf(r, d, r.alias[plan[k].at])
         /\ plan[k].kind = "rename" =>
              /\ Arrives(r, plan[k].at) /\ plan[k].from = r.alias[plan[k].at]
              /\ plan[k].from # plan[k].at /\ plan[k].from \notin r.created
              /\ plan[k] = MoveOf(r, d, plan[k].from)
         /\ plan[k].kind = "delete" =>
              plan[k].at \in Doomed(r) /\ Needs(r, d, plan[k].at, plan[k])
<1>1. PICK op : op = plan[k]
  OBVIOUS
<1>2. PICK o \in File : Needs(r, d, o, op) /\ (Completes(r, o, op) => k > 1 /\ plan[k - 1] = MoveOf(r, d, o))
  BY <1>1 DEF Planned
<1>3. r.fate[o].live => r.fate[o].at \in File /\ r.alias[r.fate[o].at] = o /\ Arrives(r, r.fate[o].at)
  BY LiveAt
<1>4. CASE op.kind = "write"
  <2>1. /\ r.fate[o].live /\ op.at = r.fate[o].at /\ op.text = r.fate[o].text /\ op.from \in File
        /\ o \notin r.created /\ op.at # o => Displaced(r, o)
    BY <1>2, <1>3, <1>4, OpKinds DEF Needs, Displaced, MoveOf
  <2>2. Arrives(r, op.at) /\ r.alias[op.at] = o /\ op.at \in File
    BY <1>3, <2>1
  <2>3. o \notin r.created /\ op.at # o => k > 1 /\ plan[k - 1] = MoveOf(r, d, o)
    BY <1>2, <1>4, <2>1 DEF Completes
  <2> QED BY <1>1, <1>2, <1>4, <2>1, <2>2, <2>3
<1>5. CASE op.kind = "rename"
  <2>1. Displaced(r, o) /\ o \notin r.created /\ op = MoveOf(r, d, o)
    BY <1>2, <1>5, OpKinds DEF Needs
  <2>2. op.from = o /\ op.at = r.fate[o].at
    BY <2>1, OpKinds DEF MoveOf
  <2> QED BY <1>1, <1>3, <1>5, <2>1, <2>2 DEF Displaced
<1>6. CASE op.kind = "delete"
  <2>1. o \in Doomed(r) /\ op.at = o /\ op.from = o
    BY <1>2, <1>6, OpKinds DEF Needs, MoveOf
  <2> QED BY <1>1, <1>2, <1>6, <2>1
<1>7. op.kind \in {"write", "rename", "delete"}
  BY <1>2, OpKinds DEF Needs, MoveOf
<1> QED BY <1>4, <1>5, <1>6, <1>7

\* Where the operations executed so far have left their marks.
LEMMA Marks ==
  ASSUME NEW d, NEW r, ReplayInv(r, d), NEW plan, Planned(r, d, plan), Parted(r),
         NEW k \in 0 .. Len(plan), NEW v \in File
  PROVE  /\ Landed(plan, k, "write", v) =>
              /\ Arrives(r, v) /\ v \notin Doomed(r) /\ ~ Left(plan, k, v)
              /\ r.alias[v] # v /\ r.alias[v] \notin r.created =>
                   Left(plan, k, r.alias[v]) /\ Landed(plan, k, "rename", v)
         /\ Landed(plan, k, "rename", v) =>
              /\ Arrives(r, v) /\ v \notin Doomed(r) /\ ~ Left(plan, k, v)
              /\ r.alias[v] # v /\ r.alias[v] \notin r.created /\ Left(plan, k, r.alias[v])
         /\ Landed(plan, k, "delete", v) => v \in Doomed(r) /\ ~ Arrives(r, v) /\ ~ Left(plan, k, v)
         /\ Left(plan, k, v) =>
              /\ Displaced(r, v) /\ v \notin r.created /\ r.alias[v] = v /\ ~ Arrives(r, v)
              /\ r.fate[v].at \in File /\ Landed(plan, k, "rename", r.fate[v].at)
<1>1. Len(plan) \in Nat /\ \A i \in 1 .. k : i \in 1 .. Len(plan)
  BY DEF Planned
<1>2. r.alias[v] \in File
  BY DEF ReplayInv, ReplayStates
<1>3. Left(plan, k, v) =>
        /\ Displaced(r, v) /\ v \notin r.created /\ r.alias[v] = v /\ ~ Arrives(r, v)
        /\ r.fate[v].at \in File /\ Landed(plan, k, "rename", r.fate[v].at)
  <2> SUFFICES ASSUME Left(plan, k, v)
               PROVE  /\ Displaced(r, v) /\ v \notin r.created /\ r.alias[v] = v /\ ~ Arrives(r, v)
                      /\ r.fate[v].at \in File /\ Landed(plan, k, "rename", r.fate[v].at)
    OBVIOUS
  <2>1. PICK i \in 1 .. k : plan[i].kind = "rename" /\ plan[i].from = v
    BY DEF Left
  <2>2. Arrives(r, plan[i].at) /\ v = r.alias[plan[i].at] /\ v # plan[i].at /\ v \notin r.created
    BY <1>1, <2>1, PlanKinds
  <2>3. r.fate[v].live /\ r.fate[v].at = plan[i].at /\ r.fate[v].at # v
    BY <2>2 DEF Arrives
  <2>4. r.alias[v] = v /\ ~ Arrives(r, v) /\ r.fate[v].at \in File
    BY <2>3, LiveAt
  <2> QED BY <2>1, <2>2, <2>3, <2>4 DEF Landed, Displaced
<1>4. Landed(plan, k, "rename", v) =>
        Arrives(r, v) /\ r.alias[v] # v /\ r.alias[v] \notin r.created /\ Left(plan, k, r.alias[v])
  <2> SUFFICES ASSUME Landed(plan, k, "rename", v)
               PROVE  Arrives(r, v) /\ r.alias[v] # v /\ r.alias[v] \notin r.created
                      /\ Left(plan, k, r.alias[v])
    OBVIOUS
  <2>1. PICK i \in 1 .. k : plan[i].kind = "rename" /\ plan[i].at = v
    BY DEF Landed
  <2>2. Arrives(r, v) /\ plan[i].from = r.alias[v] /\ plan[i].from # v /\ plan[i].from \notin r.created
    BY <1>1, <2>1, PlanKinds
  <2> QED BY <2>1, <2>2 DEF Left
<1>5. Landed(plan, k, "write", v) =>
        /\ Arrives(r, v)
        /\ r.alias[v] # v /\ r.alias[v] \notin r.created =>
             Left(plan, k, r.alias[v]) /\ Landed(plan, k, "rename", v)
  <2> SUFFICES ASSUME Landed(plan, k, "write", v)
               PROVE  /\ Arrives(r, v)
                      /\ r.alias[v] # v /\ r.alias[v] \notin r.created =>
                           Left(plan, k, r.alias[v]) /\ Landed(plan, k, "rename", v)
    OBVIOUS
  <2>1. PICK i \in 1 .. k : plan[i].kind = "write" /\ plan[i].at = v
    BY DEF Landed
  <2>2. /\ Arrives(r, v)
        /\ r.alias[v] # v /\ r.alias[v] \notin r.created =>
             i > 1 /\ plan[i - 1] = MoveOf(r, d, r.alias[v])
    BY <1>1, <2>1, PlanKinds
  <2>3. MoveOf(r, d, r.alias[v]).kind = "rename" /\ MoveOf(r, d, r.alias[v]).from = r.alias[v]
        /\ MoveOf(r, d, r.alias[v]).at = v
    BY <2>2, OpKinds DEF MoveOf, Arrives
  <2>4. i > 1 => i - 1 \in 1 .. k
    OBVIOUS
  <2> QED BY <2>2, <2>3, <2>4 DEF Left, Landed
<1>6. Landed(plan, k, "delete", v) => v \in Doomed(r)
  BY <1>1, PlanKinds DEF Landed
<1>7. v \in Doomed(r) => ~ Arrives(r, v) /\ ~ r.fate[v].live
  BY Constants DEF Parted, Doomed
<1> QED BY <1>3, <1>4, <1>5, <1>6, <1>7 DEF Displaced

LEMMA OneMore ==
  ASSUME NEW plan, Len(plan) \in Nat, NEW k \in 1 .. Len(plan)
  PROVE  /\ \A kind, v : Landed(plan, k, kind, v) <=>
              Landed(plan, k - 1, kind, v) \/ (plan[k].kind = kind /\ plan[k].at = v)
         /\ \A v : Left(plan, k, v) <=>
              Left(plan, k - 1, v) \/ (plan[k].kind = "rename" /\ plan[k].from = v)
<1>1. \A i \in 1 .. k : i = k \/ i \in 1 .. k - 1
  OBVIOUS
<1>2. k \in 1 .. k /\ \A i \in 1 .. k - 1 : i \in 1 .. k
  OBVIOUS
<1>3. ASSUME NEW kind, NEW v
      PROVE  Landed(plan, k, kind, v) <=>
               Landed(plan, k - 1, kind, v) \/ (plan[k].kind = kind /\ plan[k].at = v)
  BY <1>1, <1>2 DEF Landed
<1>4. ASSUME NEW v
      PROVE  Left(plan, k, v) <=>
               Left(plan, k - 1, v) \/ (plan[k].kind = "rename" /\ plan[k].from = v)
  BY <1>1, <1>2 DEF Left
<1> QED BY <1>3, <1>4

LEMMA ExecuteStands ==
  ASSUME NEW d, IsDisk(d), NEW r, ReplayInv(r, d), NEW plan, Planned(r, d, plan), Parted(r),
         NEW k \in 1 .. Len(plan), NEW S, Stands(r, d, plan, k - 1, S), Possible(S, plan[k])
  PROVE  Stands(r, d, plan, k, Execute(S, plan[k]))
<1>1. Len(plan) \in Nat /\ k \in 0 .. Len(plan) /\ k - 1 \in 0 .. Len(plan)
  BY DEF Planned
<1>2. PICK op : op = plan[k]
  OBVIOUS
<1>3. PICK T : T = Execute(S, op)
  OBVIOUS
<1>4. /\ \A kind, v : Landed(plan, k, kind, v) <=>
              Landed(plan, k - 1, kind, v) \/ (op.kind = kind /\ op.at = v)
      /\ \A v : Left(plan, k, v) <=>
              Left(plan, k - 1, v) \/ (op.kind = "rename" /\ op.from = v)
  BY <1>1, <1>2, OneMore
<1>5. S \in [File -> Inode] /\ \A v \in File : S[v] = Standing(r, d, plan, k - 1, v)
  BY DEF Stands
<1>6. Absent \in Inode /\ Absent.kind = "absent"
  BY Constants DEF Absent, Inode
<1>7. op.at \in File /\ op.from \in File
  BY <1>2, PlanKinds
<1>8. CASE op.kind = "write"
  <2>1. Arrives(r, op.at) /\ op.text = r.fate[r.alias[op.at]].text
    BY <1>2, <1>8, PlanKinds
  <2>2. PICK h : h = Holds(op.text)
    OBVIOUS
  <2>3. op.text \in Texts
    BY <1>7, <2>1 DEF ReplayInv, ReplayStates, Fates
  <2>4. h \in Inode
    BY <2>2, <2>3 DEF Holds, Inode
  <2>5. T = [S EXCEPT ![op.at] = h]
    BY <1>3, <1>8, <2>2 DEF Execute
  <2>6. T \in [File -> Inode] /\ \A v \in File : T[v] = IF v = op.at THEN h ELSE S[v]
    BY <1>5, <1>7, <2>4, <2>5
  <2>7. Standing(r, d, plan, k, op.at) = h
    BY <1>4, <1>8, <2>1, <2>2 DEF Standing
  <2>8. ASSUME NEW v \in File, v # op.at
        PROVE  Standing(r, d, plan, k, v) = Standing(r, d, plan, k - 1, v)
    BY <1>4, <1>8, <2>8 DEF Standing
  <2> QED BY <1>2, <1>3, <1>5, <2>6, <2>7, <2>8 DEF Stands
<1>9. CASE op.kind = "rename"
  <2>1. PICK o \in File : o = op.from
    BY <1>7
  <2>2. PICK n \in File : n = op.at
    BY <1>7
  <2>3. Arrives(r, n) /\ o = r.alias[n] /\ o # n /\ o \notin r.created
    BY <1>2, <1>9, <2>1, <2>2, PlanKinds
  <2>4. S[o].kind # "absent"
    BY <1>2, <1>9, <2>1 DEF Possible
  <2>5. r.fate[o].live /\ r.fate[o].at = n /\ ~ Arrives(r, o)
    BY <2>3, LiveAt DEF Arrives
  <2>6. o \notin Doomed(r)
    BY <2>5, Constants DEF Doomed
  <2>7. /\ ~ Landed(plan, k - 1, "write", o) /\ ~ Landed(plan, k - 1, "rename", o)
        /\ ~ Landed(plan, k - 1, "delete", o)
    BY <1>1, <2>5, <2>6, Marks
  <2>8. ~ Left(plan, k - 1, o)
    BY <1>5, <1>6, <2>4, <2>7 DEF Standing
  <2>9. S[o] = d[o]
    BY <1>5, <2>7, <2>8 DEF Standing
  <2>10. ~ Landed(plan, k - 1, "write", n)
    BY <1>1, <2>3, <2>8, Marks
  <2>11. T = [S EXCEPT ![n] = S[o], ![o] = Absent]
    BY <1>3, <1>9, <2>1, <2>2 DEF Execute
  <2>12. T \in [File -> Inode]
         /\ \A v \in File : T[v] = IF v = o THEN Absent ELSE IF v = n THEN d[o] ELSE S[v]
    BY <1>5, <1>6, <2>3, <2>9, <2>11
  <2>13. Standing(r, d, plan, k, n) = d[o]
    BY <1>4, <1>9, <2>2, <2>3, <2>10 DEF Standing
  <2>14. Standing(r, d, plan, k, o) = Absent
    BY <1>4, <1>9, <2>1, <2>2, <2>3, <2>7 DEF Standing
  <2>15. ASSUME NEW v \in File, v # o, v # n
         PROVE  Standing(r, d, plan, k, v) = Standing(r, d, plan, k - 1, v)
    BY <1>4, <1>9, <2>1, <2>2, <2>15 DEF Standing
  <2> QED BY <1>2, <1>3, <1>5, <2>3, <2>12, <2>13, <2>14, <2>15 DEF Stands
<1>10. CASE op.kind = "delete"
  <2>1. op.at \in Doomed(r)
    BY <1>2, <1>10, PlanKinds
  <2>2. T = [S EXCEPT ![op.at] = Absent]
    BY <1>3, <1>10 DEF Execute
  <2>3. T \in [File -> Inode] /\ \A v \in File : T[v] = IF v = op.at THEN Absent ELSE S[v]
    BY <1>5, <1>6, <1>7, <2>2
  <2>4. ~ Landed(plan, k, "write", op.at) /\ ~ Landed(plan, k, "rename", op.at)
    BY <1>1, <1>7, <2>1, Marks
  <2>5. Standing(r, d, plan, k, op.at) = Absent
    BY <1>4, <1>10, <2>4 DEF Standing
  <2>6. ASSUME NEW v \in File, v # op.at
        PROVE  Standing(r, d, plan, k, v) = Standing(r, d, plan, k - 1, v)
    BY <1>4, <1>10, <2>6 DEF Standing
  <2> QED BY <1>2, <1>3, <1>5, <2>3, <2>5, <2>6 DEF Stands
<1> QED BY <1>2, <1>8, <1>9, <1>10, PlanKinds

LEMMA DiskStands ==
  ASSUME NEW d, IsDisk(d), NEW r, ReplayInv(r, d), NEW plan, Planned(r, d, plan), Parted(r),
         NEW n \in 0 .. Len(plan), Committed(d, plan, n)
  PROVE  Stands(r, d, plan, n, Disks(d, plan)[n])
<1>1. Len(plan) \in Nat
  BY DEF Planned
<1>2. PICK g : g = Disks(d, plan)
  OBVIOUS
<1>3. g[0] = d /\ \A i \in 1 .. Len(plan) : g[i] = Execute(g[i - 1], plan[i])
  BY <1>1, <1>2, DisksEquation
<1>4. \A k \in 1 .. n : Possible(g[k - 1], plan[k])
  BY <1>2 DEF Committed
<1> DEFINE Good == {k \in 0 .. n : Stands(r, d, plan, k, g[k])}
<1>5. 0 \in Good
  <2>1. \A kind, v : ~ Landed(plan, 0, kind, v)
    BY DEF Landed
  <2>2. \A v : ~ Left(plan, 0, v)
    BY DEF Left
  <2>3. d \in [File -> Inode]
    BY DEF IsDisk, Inode
  <2>4. Stands(r, d, plan, 0, d)
    BY <2>1, <2>2, <2>3 DEF Stands, Standing
  <2> QED BY <1>3, <2>4
<1>6. ASSUME NEW k \in 1 .. n, k - 1 \in Good
      PROVE  k \in Good
  <2>1. k \in 1 .. Len(plan) /\ Stands(r, d, plan, k - 1, g[k - 1]) /\ Possible(g[k - 1], plan[k])
    BY <1>4, <1>6
  <2>2. Stands(r, d, plan, k, Execute(g[k - 1], plan[k]))
    BY <2>1, ExecuteStands
  <2> QED BY <1>3, <2>1, <2>2
<1>7. \A k \in 0 .. n : k \in Good
  <2> HIDE DEF Good
  <2> QED BY <1>5, <1>6, UpTo
<1> QED BY <1>2, <1>7
-----------------------------------------------------------------------------
(* The audit of a commit.                                                  *)

\* What a path holds that some operation executed so far emptied.
LEMMA Emptied ==
  ASSUME NEW d, NEW r, ReplayInv(r, d), NEW plan, Planned(r, d, plan), Parted(r),
         NEW n \in 0 .. Len(plan), NEW S, Stands(r, d, plan, n, S), NEW u \in File,
         Left(plan, n, u) \/ Landed(plan, n, "delete", u)
  PROVE  S[u] = Absent /\ Read(S, u) = Missing /\ Read(d, u) # Missing
<1>1. ~ Landed(plan, n, "write", u) /\ ~ Landed(plan, n, "rename", u)
  BY Marks
<1>2. S[u] = Absent
  BY <1>1 DEF Stands, Standing
<1>3. r.fate[u] # NoFate /\ u \notin r.created
  <2>1. CASE Left(plan, n, u)
    BY <2>1, Marks, Constants DEF Displaced
  <2>2. CASE Landed(plan, n, "delete", u)
    BY <2>2, Marks, Constants DEF Doomed
  <2> QED BY <2>1, <2>2
<1>4. Read(d, u) # Missing
  BY <1>3 DEF ReplayInv, Founded
<1> QED BY <1>2, <1>4 DEF Read, Absent

\* What a path holds that some operation executed so far filled.
LEMMA Filled ==
  ASSUME NEW d, IsDisk(d), NEW r, ReplayInv(r, d), NEW plan, Planned(r, d, plan), Parted(r),
         NEW n \in 0 .. Len(plan), NEW S, Stands(r, d, plan, n, S), NEW v \in File,
         Landed(plan, n, "write", v) \/ Landed(plan, n, "rename", v)
  PROVE  /\ Arrives(r, v) /\ r.alias[v] \in File
         /\ Landed(plan, n, "write", v) => Read(S, v) = r.fate[r.alias[v]].text
         /\ ~ Landed(plan, n, "write", v) => r.alias[v] \notin r.created /\ Read(S, v) = Read(d, r.alias[v])
         /\ r.fate[r.alias[v]].text.of =
              IF r.alias[v] \in r.created \cup r.replaced THEN "blank" ELSE r.alias[v]
         /\ Read(S, v).of \in {"missing", "blank", r.alias[v]}
<1>1. PICK o \in File : o = r.alias[v]
  BY DEF ReplayInv, ReplayStates
<1>2. Arrives(r, v)
  BY Marks
<1>3. r.fate[o].text.of = IF o \in r.created \cup r.replaced THEN "blank" ELSE o
  BY <1>1, <1>2 DEF ReplayInv, Contained, Arrives
<1>4. CASE Landed(plan, n, "write", v)
  <2>1. S[v] = Holds(r.fate[o].text)
    BY <1>1, <1>4 DEF Stands, Standing
  <2>2. Read(S, v) = r.fate[o].text
    BY <2>1 DEF Read, Holds
  <2> QED BY <1>1, <1>2, <1>3, <1>4, <2>2
<1>5. CASE ~ Landed(plan, n, "write", v)
  <2>1. S[v] = d[o] /\ Landed(plan, n, "rename", v)
    BY <1>1, <1>5 DEF Stands, Standing
  <2>2. Read(S, v) = Read(d, o) /\ o \notin r.created
    BY <1>1, <2>1, Marks DEF Read
  <2>3. Read(d, o).of \in {"missing", o}
    BY Constants DEF IsDisk
  <2> QED BY <1>1, <1>2, <1>3, <1>5, <2>2, <2>3
<1> QED BY <1>4, <1>5

LEMMA Names == "missing" \notin File /\ "blank" \notin File /\ "missing" # "blank"
BY FilesAssumption

\* The rows of a write.
RowsOfWrite(r, d, o, op) ==
  \/ r.fate[o].at = o /\ Changed(r, d, o) /\ op.rows = {RowOf(r, d, o)}
  \/ r.fate[o].at # o /\ o \notin r.created /\ op.rows = {RowOf(r, d, o)}
  \/ /\ r.fate[o].at # o /\ o \in r.created
     /\ op.rows = {Row({r.fate[o].at}, Read(d, o), r.fate[o].text)}

LEMMA WriteRows ==
  ASSUME NEW r, NEW d, NEW o, NEW op, Needs(r, d, o, op), op.kind = "write", r.fate[o].live
  PROVE  RowsOfWrite(r, d, o, op)
<1>1. MoveOf(r, d, o).kind = "rename"
  BY OpKinds DEF MoveOf
<1>2. op # MoveOf(r, d, o) /\ op # Unlink(o, {Row({o}, Read(d, o), Missing)})
  BY <1>1, OpKinds
<1>3. PICK a, b : a = {RowOf(r, d, o)} /\ b = {Row({r.fate[o].at}, Read(d, o), r.fate[o].text)}
  OBVIOUS
<1>4. PICK at, text : at = r.fate[o].at /\ text = r.fate[o].text
  OBVIOUS
<1>5. \/ at = o /\ Changed(r, d, o) /\ op = Write(o, text, a)
      \/ at # o /\ o \in r.created /\ op = Write(at, text, b)
      \/ at # o /\ o \notin r.created /\ op = Write(at, text, a)
  BY <1>2, <1>3, <1>4 DEF Needs, Displaced
<1>6. op.rows = a \/ op.rows = b
  BY <1>5, OpKinds
<1>7. \/ at = o /\ Changed(r, d, o) /\ op.rows = a
      \/ at # o /\ o \in r.created /\ op.rows = b
      \/ at # o /\ o \notin r.created /\ op.rows = a
  BY <1>5, OpKinds
<1> QED BY <1>3, <1>4, <1>7 DEF RowsOfWrite

LEMMA AuditOfCommit ==
  ASSUME NEW d, IsDisk(d), NEW r, ReplayInv(r, d), NEW plan, Planned(r, d, plan), Parted(r),
         NEW n \in 0 .. Len(plan), NEW S, Stands(r, d, plan, n, S)
  PROVE  /\ \A u \in File : Read(S, u) # Read(d, u) =>
              \E i \in 1 .. n : \E row \in plan[i].rows : u \in row.files
         /\ \A i \in 1 .. n : \A row \in plan[i].rows :
              \E u \in row.files : Read(S, u) # Read(d, u)
<1>1. Len(plan) \in Nat /\ \A i \in 1 .. n : i \in 1 .. Len(plan)
  BY DEF Planned
<1>2. \A files, b, a : Row(files, b, a).files = files
  BY DEF Row
<1>3. ASSUME NEW u \in File, Read(S, u) # Read(d, u)
      PROVE  \E i \in 1 .. n : \E row \in plan[i].rows : u \in row.files
  <2>1. S[u] # d[u]
    BY <1>3 DEF Read
  <2>2. \/ Landed(plan, n, "write", u) \/ Landed(plan, n, "rename", u)
        \/ Landed(plan, n, "delete", u) \/ Left(plan, n, u)
    BY <2>1 DEF Stands, Standing
  <2>3. CASE Landed(plan, n, "write", u)
    <3>1. PICK i \in 1 .. n : plan[i].kind = "write" /\ plan[i].at = u
      BY <2>3 DEF Landed
    <3>2. Needs(r, d, r.alias[u], plan[i]) /\ Arrives(r, u)
      BY <1>1, <3>1, PlanKinds
    <3>3. \E row \in plan[i].rows : u \in row.files
      BY <1>2, <3>1, <3>2, OpKinds DEF Needs, RowOf, Arrives, MoveOf
    <3> QED BY <3>3
  <2>4. CASE Landed(plan, n, "rename", u)
    <3>1. PICK i \in 1 .. n : plan[i].kind = "rename" /\ plan[i].at = u
      BY <2>4 DEF Landed
    <3>2. plan[i] = MoveOf(r, d, plan[i].from)
      BY <1>1, <3>1, PlanKinds
    <3>3. r.fate[plan[i].from].at = u /\ RowOf(r, d, plan[i].from) \in plan[i].rows
      BY <3>1, <3>2, OpKinds DEF MoveOf
    <3>4. u \in RowOf(r, d, plan[i].from).files
      BY <1>2, <3>3 DEF RowOf
    <3> QED BY <3>3, <3>4
  <2>5. CASE Landed(plan, n, "delete", u)
    <3>1. PICK i \in 1 .. n : plan[i].kind = "delete" /\ plan[i].at = u
      BY <2>5 DEF Landed
    <3>2. Needs(r, d, u, plan[i])
      BY <1>1, <3>1, PlanKinds
    <3>3. \E row \in plan[i].rows : u \in row.files
      BY <1>2, <3>1, <3>2, OpKinds DEF Needs, MoveOf
    <3> QED BY <3>3
  <2>6. CASE Left(plan, n, u)
    <3>1. PICK i \in 1 .. n : plan[i].kind = "rename" /\ plan[i].from = u
      BY <2>6 DEF Left
    <3>2. plan[i] = MoveOf(r, d, u)
      BY <1>1, <3>1, PlanKinds
    <3>3. RowOf(r, d, u) \in plan[i].rows
      BY <3>2, OpKinds DEF MoveOf
    <3>4. u \in RowOf(r, d, u).files
      BY <1>2 DEF RowOf
    <3> QED BY <3>3, <3>4
  <2> QED BY <2>2, <2>3, <2>4, <2>5, <2>6
<1>4. ASSUME NEW i \in 1 .. n, NEW row \in plan[i].rows
      PROVE  \E u \in row.files : Read(S, u) # Read(d, u)
  <2>1. CASE plan[i].kind = "write"
    <3>1. PICK v \in File : v = plan[i].at
      BY <1>1, PlanKinds
    <3>2. PICK o \in File : o = r.alias[v]
      BY DEF ReplayInv, ReplayStates
    <3>3. Needs(r, d, o, plan[i]) /\ Arrives(r, v)
      BY <1>1, <2>1, <3>1, <3>2, PlanKinds
    <3>4. Landed(plan, n, "write", v)
      BY <2>1, <3>1 DEF Landed
    <3>5. Read(S, v) = r.fate[o].text
          /\ r.fate[o].text.of = IF o \in r.created \cup r.replaced THEN "blank" ELSE o
      BY <3>2, <3>4, Filled
    <3>6. Read(d, v).of \in {"missing", v}
      BY Constants DEF IsDisk
    <3> DEFINE op == plan[i]
    <3>10. \/ v = o /\ Changed(r, d, o) /\ op.rows = {RowOf(r, d, o)}
           \/ v # o /\ o \notin r.created /\ op.rows = {RowOf(r, d, o)}
           \/ v # o /\ o \in r.created /\ op.rows = {Row({v}, Read(d, o), r.fate[o].text)}
      <4>1. Needs(r, d, o, op) /\ op.kind = "write" /\ r.fate[o].live /\ r.fate[o].at = v
        BY <2>1, <3>2, <3>3 DEF Arrives
      <4> HIDE DEF op
      <4>2. RowsOfWrite(r, d, o, op)
        BY <4>1, WriteRows
      <4> QED BY <4>1, <4>2 DEF RowsOfWrite
    <3>7. CASE o = v
      <4>1. Changed(r, d, o) /\ row = RowOf(r, d, o)
        BY <3>7, <3>10
      <4>2. Read(S, v) # Read(d, v)
        BY <3>5, <3>6, <3>7, <4>1, Names DEF Changed
      <4> QED BY <1>2, <3>7, <4>1, <4>2 DEF RowOf
    <3>8. CASE o # v /\ o \in r.created
      <4>1. row.files = {v}
        BY <1>2, <3>8, <3>10
      <4>2. Read(S, v) # Read(d, v)
        BY <3>5, <3>6, <3>8, Names
      <4> QED BY <4>1, <4>2
    <3>9. CASE o # v /\ o \notin r.created
      <4>1. row = RowOf(r, d, o)
        BY <3>9, <3>10
      <4>2. Left(plan, n, o)
        BY <3>2, <3>4, <3>9, Marks
      <4>3. Read(S, o) # Read(d, o)
        BY <4>2, Emptied
      <4> QED BY <1>2, <4>1, <4>3 DEF RowOf
    <3> QED BY <3>7, <3>8, <3>9
  <2>2. CASE plan[i].kind = "rename"
    <3>1. PICK v \in File : v = plan[i].at
      BY <1>1, PlanKinds
    <3>2. PICK o \in File : o = plan[i].from
      BY <1>1, PlanKinds
    <3>3. /\ Arrives(r, v) /\ o = r.alias[v] /\ o # v /\ o \notin r.created
          /\ plan[i] = MoveOf(r, d, o)
      BY <1>1, <2>2, <3>1, <3>2, PlanKinds
    <3>4. row = RowOf(r, d, o) \/ row \in Clobbers(r, d, v)
      <4>1. r.fate[o].at = v
        BY <3>3 DEF Arrives
      <4>2. plan[i].rows = {RowOf(r, d, o)} \cup Clobbers(r, d, v)
        BY <3>3, <4>1, OpKinds DEF MoveOf
      <4> QED BY <4>2
    <3>5. Left(plan, n, o) /\ Landed(plan, n, "rename", v)
      BY <2>2, <3>1, <3>2 DEF Left, Landed
    <3>6. CASE row = RowOf(r, d, o)
      BY <1>2, <3>5, <3>6, Emptied DEF RowOf
    <3>7. CASE row \in Clobbers(r, d, v)
      <4>1. v \in r.clobbered /\ row.files = {v}
        BY <1>2, <3>7 DEF Clobbers
      <4>2. Read(d, v).of = v
        BY <4>1 DEF ReplayInv, Freed, IsDisk
      <4>3. Read(S, v).of \in {"missing", "blank", o}
        BY <3>3, <3>5, Filled
      <4> QED BY <3>3, <4>1, <4>2, <4>3, Names
    <3> QED BY <3>4, <3>6, <3>7
  <2>3. CASE plan[i].kind = "delete"
    <3>1. PICK u \in File : u = plan[i].at
      BY <1>1, PlanKinds
    <3>2. Needs(r, d, u, plan[i])
      BY <1>1, <2>3, <3>1, PlanKinds
    <3>3. row.files = {u}
      BY <1>2, <2>3, <3>2, OpKinds DEF Needs, MoveOf
    <3>4. Landed(plan, n, "delete", u)
      BY <2>3, <3>1 DEF Landed
    <3> QED BY <3>3, <3>4, Emptied
  <2> QED BY <1>1, <2>1, <2>2, <2>3, PlanKinds
<1> QED BY <1>3, <1>4
-----------------------------------------------------------------------------
(* What is not clobbered.                                                  *)

Spared(r) == r.alias[Queried] = Queried /\ r.fate[Queried] = NoFate

SurrenderedBy(op) == op.uri = Queried /\ op.kind \in {"rename", "delete"}

LEMMA Undrifted == ~ Missing.drift /\ \A u : ~ Original(u).drift
<1>1. PICK none : none = ""
  OBVIOUS
<1>2. Missing = [of |-> "missing", site |-> none, drift |-> FALSE, edits |-> 0]
  BY <1>1, Zenon DEF Missing
<1>3. ~ Missing.drift
  BY <1>2
<1>4. \A u : ~ Original(u).drift
  BY DEF Original
<1> QED BY <1>3, <1>4

LEMMA SparesQueried ==
  ASSUME NEW d, IsDisk(d), NEW r, ReplayInv(r, d), NEW s, NEW op, IsOperation(op), Does(r, s, d, op),
         Read(d, Queried).drift, Spared(r), ~ SurrenderedBy(op)
  PROVE  Spared(s)
<1>1. Queried \in File /\ op.uri \in File /\ op.to \in File
  BY FilesAssumption DEF IsOperation
<1>2. r \in ReplayStates
  BY DEF ReplayInv
<1>3. Read(d, Queried) # Missing /\ Drifted(d, Queried) /\ Read(d, Queried) # Original(Queried)
  BY Undrifted DEF Drifted
<1>4. LiveOccupied(r, d, Queried) /\ ContentOf(r, d, Queried) = Read(d, Queried)
  BY <1>1, <1>2, <1>3, TextsRead DEF Spared
<1>5. \A u \in File : u # Queried => r.alias[u] # Queried
  BY <1>1 DEF Spared, ReplayInv, Freed
<1>6. CASE s = r
  BY <1>6
<1>7. CASE Creates(r, s, d, op.uri)
  <2>1. op.uri # Queried
    BY <1>4, <1>7 DEF Creates
  <2>2. s.alias = r.alias /\ Settles(r, s, op.uri, Live(op.uri, Blank))
    BY <1>7 DEF Creates
  <2> QED BY <1>1, <1>2, <2>1, <2>2, Settled DEF Spared
<1>8. CASE Replaces(r, s, d, op.uri)
  <2>1. op.uri # Queried
    BY <1>3, <1>8 DEF Replaces
  <2>2. s.alias = r.alias /\ Settles(r, s, op.uri, Live(op.uri, Blank))
    BY <1>8 DEF Replaces
  <2> QED BY <1>1, <1>2, <2>1, <2>2, Settled DEF Spared
<1>9. CASE op.kind = "delete" /\ Removes(r, s, d, op.uri)
  <2>1. op.uri # Queried
    BY <1>9 DEF SurrenderedBy
  <2>2. s.alias = r.alias /\ Settles(r, s, r.alias[op.uri], Deleted) /\ r.alias[op.uri] # Queried
    BY <1>1, <1>5, <1>9, <2>1 DEF Removes
  <2> QED BY <1>1, <1>2, <2>2, Settled DEF Spared
<1>10. ASSUME op.kind = "rename", Renames(r, s, d, op.uri, op.to), op.to # Queried
       PROVE  Spared(s)
  <2>1. op.uri # Queried
    BY <1>10 DEF SurrenderedBy
  <2>2. /\ s.alias = [r.alias EXCEPT ![op.to] = r.alias[op.uri]] /\ r.alias[op.uri] # Queried
        /\ Settles(r, s, r.alias[op.uri], Live(op.to, ContentOf(r, d, op.uri)))
    BY <1>1, <1>5, <1>10, <2>1 DEF Renames
  <2>3. s.alias[Queried] = r.alias[Queried]
    BY <1>1, <1>2, <1>10, <2>2 DEF ReplayStates
  <2> QED BY <1>1, <1>2, <2>2, <2>3, Settled DEF Spared
<1>11. CASE op.kind = "rename" /\ RenamesFreely(r, s, d, op.uri, op.to)
  BY <1>4, <1>10, <1>11 DEF RenamesFreely
<1>12. CASE op.kind = "rename" /\ RenamesOver(r, s, d, op.uri, op.to)
  BY <1>3, <1>10, <1>12 DEF RenamesOver
<1>13. CASE op.kind = "edit" /\ Edits(r, s, d, op)
  <2>1. op.uri # Queried
    BY <1>3, <1>4, <1>13 DEF Edits
  <2>2. PICK at : at = IF r.fate[r.alias[op.uri]].live THEN r.fate[r.alias[op.uri]].at ELSE op.uri
    OBVIOUS
  <2>3. PICK new : new = Edited(ContentOf(r, d, op.uri))
    OBVIOUS
  <2>4. s.alias = r.alias /\ Settles(r, s, r.alias[op.uri], Live(at, new)) /\ r.alias[op.uri] # Queried
    BY <1>1, <1>5, <1>13, <2>1, <2>2, <2>3 DEF Edits
  <2> QED BY <1>1, <1>2, <2>4, Settled DEF Spared
<1> QED BY <1>6, <1>7, <1>8, <1>9, <1>11, <1>12, <1>13 DEF Does

\* No file is deleted, replaced or overwritten, and none is created on top of one.
Gentle(r, d) ==
  /\ r.clobbered = {} /\ r.replaced = {}
  /\ \A o \in File : r.fate[o] # Deleted /\ (o \in r.created => Read(d, o) = Missing)

LEMMA StaysGentle ==
  ASSUME NEW d, IsDisk(d), NEW r, ReplayInv(r, d), NEW s, NEW op, IsOperation(op), Does(r, s, d, op),
         Gentle(r, d), op.kind # "delete", op.kind # "edit" => ~ op.overwrite
  PROVE  Gentle(s, d)
<1>1. op.uri \in File /\ op.to \in File /\ r \in ReplayStates
  BY DEF IsOperation, ReplayInv
<1>2. \A u, t : Live(u, t) # Deleted
  BY DEF Live, Deleted
<1>3. CASE s = r
  BY <1>3
<1>4. CASE Creates(r, s, d, op.uri)
  <2>1. /\ Settles(r, s, op.uri, Live(op.uri, Blank)) /\ s.created = r.created \cup {op.uri}
        /\ s.clobbered = r.clobbered /\ s.replaced = r.replaced
        /\ r.alias[op.uri] = op.uri /\ ~ LiveOccupied(r, d, op.uri)
    BY <1>4 DEF Creates
  <2>2. IF r.fate[op.uri] = NoFate THEN Read(d, op.uri) = Missing ELSE ~ r.fate[op.uri].live
    BY <1>1, <2>1, TextsRead
  <2>3. Read(d, op.uri) = Missing
    BY <1>1, <2>2 DEF Gentle, ReplayInv, Lifeless
  <2> QED BY <1>1, <1>2, <2>1, <2>3, Settled DEF Gentle
<1>5. CASE op.kind = "rename" /\ RenamesFreely(r, s, d, op.uri, op.to)
  <2>1. /\ Settles(r, s, r.alias[op.uri], Live(op.to, ContentOf(r, d, op.uri)))
        /\ s.clobbered = r.clobbered /\ s.replaced = r.replaced /\ s.created = r.created
    BY <1>5 DEF RenamesFreely, Renames
  <2> QED BY <1>1, <1>2, <2>1, Settled DEF Gentle
<1>6. CASE op.kind = "edit" /\ Edits(r, s, d, op)
  <2>1. PICK at : at = IF r.fate[r.alias[op.uri]].live THEN r.fate[r.alias[op.uri]].at ELSE op.uri
    OBVIOUS
  <2>2. PICK new : new = Edited(ContentOf(r, d, op.uri))
    OBVIOUS
  <2>3. /\ Settles(r, s, r.alias[op.uri], Live(at, new))
        /\ s.clobbered = r.clobbered /\ s.replaced = r.replaced /\ s.created = r.created
    BY <1>6, <2>1, <2>2 DEF Edits
  <2> QED BY <1>1, <1>2, <2>3, Settled DEF Gentle
<1> QED BY <1>3, <1>4, <1>5, <1>6 DEF Does

LEMMA BatchSpares ==
  ASSUME NEW d, IsDisk(d), NEW ops, IsBatch(ops), Accepted(Replay(d, ops)), Read(d, Queried).drift,
         \A i \in 1 .. Len(ops) : ~ SurrenderedBy(ops[i])
  PROVE  Spared(Replay(d, ops))
<1>1. PICK g : g = Replays(d, ops)
  OBVIOUS
<1>2. PICK n \in Nat : n = Len(ops)
  BY DEF IsBatch
<1>3. /\ g[0] = Untouched
      /\ \A i \in 0 .. n : ReplayInv(g[i], d)
      /\ \A i \in 1 .. n : Does(g[i - 1], g[i], d, ops[i]) /\ IsOperation(ops[i])
  BY <1>1, <1>2, BatchDoes DEF IsBatch
<1> DEFINE Good == {i \in 0 .. n : Spared(g[i])}
<1>4. 0 \in Good
  BY <1>3, FilesAssumption, UntouchedHolds DEF Spared
<1>5. ASSUME NEW i \in 1 .. n, i - 1 \in Good
      PROVE  i \in Good
  <2>1. ReplayInv(g[i - 1], d) /\ ~ SurrenderedBy(ops[i]) /\ Spared(g[i - 1])
    BY <1>2, <1>3, <1>5
  <2> QED BY <1>3, <2>1, SparesQueried
<1>6. \A i \in 0 .. n : i \in Good
  <2> HIDE DEF Good
  <2> QED BY <1>4, <1>5, UpTo
<1> QED BY <1>1, <1>2, <1>6 DEF Replay

LEMMA BatchGentle ==
  ASSUME NEW d, IsDisk(d), NEW ops, IsBatch(ops), Accepted(Replay(d, ops)),
         \A i \in 1 .. Len(ops) : ops[i].kind # "delete" /\ (ops[i].kind # "edit" => ~ ops[i].overwrite)
  PROVE  Gentle(Replay(d, ops), d)
<1>1. PICK g : g = Replays(d, ops)
  OBVIOUS
<1>2. PICK n \in Nat : n = Len(ops)
  BY DEF IsBatch
<1>3. /\ g[0] = Untouched
      /\ \A i \in 0 .. n : ReplayInv(g[i], d)
      /\ \A i \in 1 .. n : Does(g[i - 1], g[i], d, ops[i]) /\ IsOperation(ops[i])
  BY <1>1, <1>2, BatchDoes DEF IsBatch
<1> DEFINE Good == {i \in 0 .. n : Gentle(g[i], d)}
<1>4. 0 \in Good
  <2>1. Gentle(Untouched, d)
    BY Constants, UntouchedHolds DEF Gentle
  <2> QED BY <1>3, <2>1
<1>5. ASSUME NEW i \in 1 .. n, i - 1 \in Good
      PROVE  i \in Good
  <2>1. ReplayInv(g[i - 1], d) /\ Gentle(g[i - 1], d)
    BY <1>3, <1>5
  <2>2. ops[i].kind # "delete" /\ (ops[i].kind # "edit" => ~ ops[i].overwrite)
    BY <1>2
  <2> QED BY <1>3, <2>1, <2>2, StaysGentle
<1>6. \A i \in 0 .. n : i \in Good
  <2> HIDE DEF Good
  <2> QED BY <1>4, <1>5, UpTo
<1> QED BY <1>1, <1>2, <1>6 DEF Replay

LEMMA BatchOverwritesNothing ==
  ASSUME NEW d, IsDisk(d), NEW ops, IsBatch(ops), Accepted(Replay(d, ops)),
         \A i \in 1 .. Len(ops) : ops[i].kind # "edit" => ~ ops[i].overwrite
  PROVE  Replay(d, ops).overwrites = {}
<1>1. PICK g : g = Replays(d, ops)
  OBVIOUS
<1>2. PICK n \in Nat : n = Len(ops)
  BY DEF IsBatch
<1>3. /\ g[0] = Untouched
      /\ \A i \in 1 .. n : Does(g[i - 1], g[i], d, ops[i])
  BY <1>1, <1>2, BatchDoes
<1> DEFINE Good == {i \in 0 .. n : g[i].overwrites = {}}
<1>4. 0 \in Good
  BY <1>3, UntouchedHolds
<1>5. ASSUME NEW i \in 1 .. n, i - 1 \in Good
      PROVE  i \in Good
  <2>1. ops[i].kind # "edit" => ~ ops[i].overwrite
    BY <1>2
  <2>2. g[i] = g[i - 1] \/ g[i].overwrites = g[i - 1].overwrites
    BY <1>3, <2>1 DEF Does, Creates, Removes, RenamesFreely, Edits
  <2> QED BY <1>5, <2>2
<1>6. \A i \in 0 .. n : i \in Good
  <2> HIDE DEF Good
  <2> QED BY <1>4, <1>5, UpTo
<1> QED BY <1>1, <1>2, <1>6 DEF Replay

LEMMA SparedStands ==
  ASSUME NEW d, NEW r, ReplayInv(r, d), NEW plan, Planned(r, d, plan), Parted(r),
         NEW n \in 0 .. Len(plan), NEW S, Stands(r, d, plan, n, S), Spared(r)
  PROVE  S[Queried] = d[Queried]
<1>1. Queried \in File
  BY FilesAssumption
<1>2. ~ Arrives(r, Queried) /\ Queried \notin Doomed(r) /\ ~ Displaced(r, Queried)
  BY Constants DEF Spared, Arrives, Doomed, Displaced
<1>3. /\ ~ Landed(plan, n, "write", Queried) /\ ~ Landed(plan, n, "rename", Queried)
      /\ ~ Landed(plan, n, "delete", Queried) /\ ~ Left(plan, n, Queried)
  BY <1>1, <1>2, Marks
<1> QED BY <1>1, <1>3 DEF Stands, Standing

LEMMA GentleStands ==
  ASSUME NEW d, IsDisk(d), NEW r, ReplayInv(r, d), NEW plan, Planned(r, d, plan), Parted(r),
         NEW n \in 0 .. Len(plan), NEW S, Stands(r, d, plan, n, S), Gentle(r, d),
         NEW u \in File, Read(d, u) # Missing
  PROVE  \E v \in File : Read(S, v).of = u
<1>1. Read(d, u).of = u
  BY DEF IsDisk
<1>2. u \notin Doomed(r) /\ ~ Landed(plan, n, "delete", u)
  <2>1. u \notin Doomed(r)
    BY DEF Gentle, Doomed
  <2> QED BY <2>1, Marks
<1>3. CASE ~ r.fate[u].live
  <2>1. r.alias[u] = u
    BY <1>3 DEF ReplayInv, Freed, Gentle
  <2>2. ~ Arrives(r, u) /\ ~ Displaced(r, u)
    BY <1>3, <2>1 DEF Arrives, Displaced
  <2>3. ~ Landed(plan, n, "write", u) /\ ~ Landed(plan, n, "rename", u) /\ ~ Left(plan, n, u)
    BY <2>2, Marks
  <2>4. S[u] = d[u]
    BY <1>2, <2>3 DEF Stands, Standing
  <2> QED BY <1>1, <2>4 DEF Read
<1>4. CASE r.fate[u].live
  <2>1. u \notin r.created \cup r.replaced /\ r.fate[u].text.of = u
    BY <1>4 DEF Gentle, ReplayInv, Contained
  <2>2. PICK v \in File : v = r.fate[u].at /\ r.alias[v] = u /\ r.alias[u] = u
    BY <1>4, LiveAt
  <2>3. CASE Landed(plan, n, "write", v) \/ Landed(plan, n, "rename", v)
    <3>1. Read(S, v) = r.fate[u].text \/ Read(S, v) = Read(d, u)
      BY <2>2, <2>3, Filled
    <3> QED BY <1>1, <2>1, <3>1
  <2>4. CASE ~ Landed(plan, n, "write", v) /\ ~ Landed(plan, n, "rename", v)
    <3>1. ~ Left(plan, n, u)
      BY <2>2, <2>4, Marks
    <3>2. ~ Landed(plan, n, "write", u) /\ ~ Landed(plan, n, "rename", u)
      BY <2>2, <2>4, Marks DEF Arrives
    <3>3. S[u] = d[u]
      BY <1>2, <3>1, <3>2 DEF Stands, Standing
    <3> QED BY <1>1, <3>3 DEF Read
  <2> QED BY <2>3, <2>4
<1> QED BY <1>3, <1>4
-----------------------------------------------------------------------------
(* The invariant: what rename() returns is what it did.                    *)

IsRequest(op) == op \in Operation /\ op.to \in File /\ (op.kind = "rename" => op.uri # op.to)

\* The documents of the session, none of them stale or confused, on files that exist.
Documents ==
  [open : BOOLEAN, refs : Nat, version : Nat, awaiting : BOOLEAN, cached : {None} \cup File,
   buffer : [open : BOOLEAN, version : Nat, text : {None} \cup Texts], confused : BOOLEAN]

DocsKept(ds, d) ==
  /\ ds \in [File -> Documents]
  /\ \A u \in File :
       /\ ~ ds[u].confused
       /\ ds[u].open <=> ds[u].buffer.open
       /\ ds[u].open => ds[u].version = ds[u].buffer.version /\ Read(d, u) # Missing
       /\ ~ ds[u].open => ds[u].cached = None

\* The batch applied to the disk d, as far as n operations of its plan.
AppliedTo(ds, d, n) ==
  LET r    == Replay(d, edit)
      plan == Plan(r, d)
  IN  /\ gates.write /\ ~ BlockedByGuard /\ Confined
      /\ \A i \in 1 .. Len(edit) : ~ BadOption(edit[i])
      /\ Accepted(r) /\ ~ StaleSite(r, d, edit) /\ ~ Collision(r)
      /\ n \in 0 .. Len(plan) /\ Committed(d, plan, n)
      /\ disk = Disks(d, plan)[n]
      /\ docs = Resynced(ds, r, d, plan, n)
      /\ result = Applied(r, plan, n)

Unapplied(res) == ~ res.applied /\ res.rows = {} /\ res.overwritten = {}

RenameInv ==
  /\ gates \in [write : BOOLEAN, destructive : BOOLEAN, incomplete : BOOLEAN, lister : BOOLEAN]
  /\ IsDisk(base)
  /\ Len(edit) \in Nat /\ DOMAIN edit = 1 .. Len(edit) /\ \A i \in 1 .. Len(edit) : IsRequest(edit[i])
  /\ phase \in {"idle", "computed", "done"}
  /\ Read(base, Queried) # Missing
  /\ \/ disk = base /\ Unapplied(result) /\ DocsKept(docs, base)
     \/ phase = "done" /\ \E n \in Nat : \E ds : DocsKept(ds, base) /\ AppliedTo(ds, base, n)

LEMMA OperationsAreRequests ==
  ASSUME NEW op \in Operations
  PROVE  IsRequest(op)
<1>1. Queried \in File
  BY FilesAssumption
<1>2. CASE op \in Operation /\ Usual(op)
  BY <1>1, <1>2 DEF IsRequest, Usual, Operation
<1>3. CASE op \in Unusual
  <2>0. \A k \in Kinds : \A u, n \in File \cup {Outside} :
         Plain(k, u, n) \in Operation /\ Plain(k, u, n).kind = k /\ Plain(k, u, n).to = n
    BY DEF Plain, Operation
  <2>1. PICK del \in Operation : del = Plain("delete", Queried, Queried) /\ del.kind = "delete" /\ del.to = Queried
    BY <1>1, <2>0 DEF Kinds
  <2>2. PICK chg \in Operation : chg = Plain("edit", Queried, Queried) /\ chg.kind = "edit" /\ chg.to = Queried
    BY <1>1, <2>0 DEF Kinds
  <2>3. PICK far \in Operation : far = Plain("edit", Outside, Queried) /\ far.kind = "edit" /\ far.to = Queried
    BY <1>1, <2>0 DEF Kinds
  <2>4. op \in {[del EXCEPT !.recursive = TRUE], [chg EXCEPT !.site = "confirm"],
               [chg EXCEPT !.site = "overlap"], far}
    BY <1>3, <2>1, <2>2, <2>3 DEF Unusual
  <2>5. op \in Operation /\ op.to = Queried /\ op.kind # "rename"
    BY <2>1, <2>2, <2>3, <2>4 DEF Operation
  <2> QED BY <1>1, <2>5 DEF IsRequest
<1> QED BY <1>2, <1>3 DEF Operations
LEMMA BatchesAreRequests ==
  ASSUME NEW ops \in Batches
  PROVE  Len(ops) \in Nat /\ DOMAIN ops = 1 .. Len(ops) /\ \A i \in 1 .. Len(ops) : IsRequest(ops[i])
<1>1. PICK n : n \in 0 .. MaxOps /\ ops \in [1 .. n -> Operations]
  BY DEF Batches
<1>2. n \in Nat
  BY <1>1
<1>3. Len(ops) = n /\ DOMAIN ops = 1 .. n
  BY <1>1, <1>2
<1>4. ASSUME NEW i \in 1 .. n PROVE IsRequest(ops[i])
  <2>1. ops[i] \in Operations
    BY <1>1
  <2> QED BY <2>1, OperationsAreRequests
<1> QED BY <1>2, <1>3, <1>4

\* A confined batch of requests is one the replay can run.
LEMMA RequestsConfined ==
  ASSUME Len(edit) \in Nat, DOMAIN edit = 1 .. Len(edit),
         \A i \in 1 .. Len(edit) : IsRequest(edit[i]), Confined
  PROVE  IsBatch(edit)
<1>1. ASSUME NEW i \in 1 .. Len(edit) PROVE IsOperation(edit[i])
  <2>1. edit[i] \in Operation /\ edit[i].to \in File /\ (edit[i].kind = "rename" => edit[i].uri # edit[i].to)
    BY DEF IsRequest
  <2>2. edit[i].uri \in Endpoints(edit[i])
    BY DEF Endpoints
  <2>3. edit[i].uri \in File
    BY <2>2 DEF Confined, Touched
  <2>4. edit[i] \in [kind : Kinds, uri : File, to : File,
                     overwrite : BOOLEAN, ignore : BOOLEAN, recursive : BOOLEAN,
                     site : {"plain", "confirm", "overlap"}]
    BY <2>1, <2>3 DEF Operation
  <2> QED BY <2>1, <2>4 DEF IsOperation
<1> QED BY <1>1 DEF IsBatch

-----------------------------------------------------------------------------
(* The session's documents.                                                *)

LEMMA OriginalText ==
  ASSUME NEW u \in File
  PROVE  Original(u) \in Texts /\ Original(u).of = u /\ Original(u) # Missing
<1>1. "sym" \in Sites
  BY Zenon DEF Sites
<1>2. Original(u) \in Texts /\ Original(u).of = u
  BY <1>1 DEF Original, Texts
<1> QED BY <1>2, Constants, Names

LEMMA InodesHold ==
  ASSUME NEW u \in File, NEW i \in Inodes(u)
  PROVE  /\ i \in Inode
         /\ i.text = Missing \/ (i.text.of = u /\ i.kind \in {"file", "link"})
         /\ i.kind = "file" => i.text.of = u
<1>1. Original(u) \in Texts /\ Original(u).of = u /\ Missing \in Texts
  BY OriginalText, Constants
<1>2. i \in {Absent, Holds(Original(u)),
             [kind |-> "link", text |-> Original(u)], [kind |-> "dir", text |-> Missing]}
  BY DEF Inodes
<1>3. CASE i = Absent
  BY <1>1, <1>3 DEF Absent, Inode
<1>4. CASE i = Holds(Original(u))
  BY <1>1, <1>4 DEF Holds, Inode
<1>5. CASE i = [kind |-> "link", text |-> Original(u)]
  BY <1>1, <1>5 DEF Inode
<1>6. CASE i = [kind |-> "dir", text |-> Missing]
  BY <1>1, <1>6 DEF Inode
<1> QED BY <1>2, <1>3, <1>4, <1>5, <1>6

\* A document opened with a text.
LEMMA Opens ==
  ASSUME NEW doc \in Documents, NEW refs \in Nat, NEW text \in Texts
  PROVE  LET opened == DidOpen(FreshlyOpen(doc, refs), text) IN
         /\ opened \in Documents /\ opened.open /\ opened.buffer.open
         /\ opened.version = opened.buffer.version /\ opened.buffer.text = text
         /\ ~ doc.confused /\ ~ doc.buffer.open => ~ opened.confused
<1>1. PICK fresh : fresh = FreshlyOpen(doc, refs)
  OBVIOUS
<1>2. /\ fresh \in Documents /\ fresh.open /\ fresh.version = 1
      /\ fresh.buffer = doc.buffer /\ fresh.confused = doc.confused
  BY <1>1 DEF FreshlyOpen, Documents
<1>3. PICK buf : buf = [open |-> TRUE, version |-> 1, text |-> text]
  OBVIOUS
<1> DEFINE Buffers == [open : BOOLEAN, version : Nat, text : {None} \cup Texts]
<1>0. buf \in Buffers /\ buf.open /\ buf.version = 1 /\ buf.text = text
  BY <1>3
<1>4. PICK mixed \in BOOLEAN : mixed = (fresh.confused \/ fresh.buffer.open)
  BY <1>2 DEF Documents
<1>8. ~ doc.confused /\ ~ doc.buffer.open => ~ mixed
  BY <1>2, <1>4
<1>5. DidOpen(fresh, text) = [fresh EXCEPT !.buffer = buf, !.confused = mixed]
  BY <1>3, <1>4 DEF DidOpen
<1>6. PICK opened : opened = [fresh EXCEPT !.buffer = buf, !.confused = mixed]
  OBVIOUS
<1>7. opened \in Documents /\ opened.open = fresh.open /\ opened.buffer = buf
      /\ opened.version = fresh.version /\ opened.confused = mixed
  BY <1>2, <1>0, <1>4, <1>6 DEF Documents
<1>9. DidOpen(FreshlyOpen(doc, refs), text) = opened
  BY <1>1, <1>5, <1>6
<1> QED BY <1>0, <1>2, <1>7, <1>8, <1>9

LEMMA Evicts ==
  ASSUME NEW doc \in Documents
  PROVE  /\ Evict(doc) \in Documents /\ ~ Evict(doc).open /\ ~ Evict(doc).buffer.open
         /\ Evict(doc).cached = None /\ Evict(doc).confused = doc.confused
<1>1. PICK gone : gone = [doc EXCEPT !.open = FALSE, !.refs = 0, !.version = 0,
                                     !.awaiting = FALSE, !.cached = None]
  OBVIOUS
<1>2. gone \in Documents /\ ~ gone.open /\ gone.cached = None /\ gone.confused = doc.confused
  BY <1>1 DEF Documents
<1>3. PICK buf : buf = NoBuffer
  OBVIOUS
<1>0. buf \in [open : BOOLEAN, version : Nat, text : {None} \cup Texts] /\ ~ buf.open
  BY <1>3 DEF NoBuffer
<1>4. PICK shut : shut = [gone EXCEPT !.buffer = buf]
  OBVIOUS
<1>5. /\ shut \in Documents /\ shut.open = gone.open /\ shut.buffer = buf
      /\ shut.cached = gone.cached /\ shut.confused = gone.confused
  BY <1>0, <1>2, <1>4 DEF Documents
<1> QED BY <1>0, <1>1, <1>2, <1>3, <1>4, <1>5 DEF Evict, DidClose

\* A document the server has open at the client's version takes the new text.
LEMMA Changes ==
  ASSUME NEW doc \in Documents, doc.open, doc.buffer.open, doc.version = doc.buffer.version,
         NEW text \in Texts
  PROVE  LET next    == doc.version + 1
             changed == DidChange([doc EXCEPT !.version = next], next, text)
         IN  /\ changed \in Documents /\ changed.open /\ changed.buffer.open
             /\ changed.version = changed.buffer.version /\ changed.buffer.text = text
             /\ changed.confused = doc.confused /\ changed.cached = doc.cached
<1> DEFINE next == doc.version + 1
<1>1. PICK raised : raised = [doc EXCEPT !.version = next]
  OBVIOUS
<1>2. next \in Nat /\ next > doc.buffer.version
  BY DEF Documents
<1>3. /\ raised \in Documents /\ raised.open /\ raised.buffer = doc.buffer /\ raised.version = next
      /\ raised.confused = doc.confused /\ raised.cached = doc.cached
  BY <1>1, <1>2 DEF Documents
<1>4. PICK buf : buf = [raised.buffer EXCEPT !.version = next, !.text = text]
  OBVIOUS
<1>5. /\ buf \in [open : BOOLEAN, version : Nat, text : {None} \cup Texts]
      /\ buf.open /\ buf.version = next /\ buf.text = text
  BY <1>2, <1>3, <1>4 DEF Documents
<1>6. DidChange(raised, next, text) = [raised EXCEPT !.buffer = buf]
  BY <1>2, <1>3, <1>4 DEF DidChange
<1>7. PICK changed : changed = [raised EXCEPT !.buffer = buf]
  OBVIOUS
<1>8. /\ changed \in Documents /\ changed.open = raised.open /\ changed.buffer = buf
      /\ changed.version = raised.version
      /\ changed.confused = raised.confused /\ changed.cached = raised.cached
  BY <1>3, <1>5, <1>7 DEF Documents
<1>9. DidChange([doc EXCEPT !.version = next], next, text) = changed
  BY <1>1, <1>6, <1>7
<1> HIDE DEF next
<1>10. PICK res : res = DidChange([doc EXCEPT !.version = next], next, text)
  OBVIOUS
<1>11. /\ res \in Documents /\ res.open /\ res.buffer.open
       /\ res.version = res.buffer.version /\ res.buffer.text = text
       /\ res.confused = doc.confused /\ res.cached = doc.cached
  BY <1>3, <1>5, <1>8, <1>9, <1>10
<1> USE DEF next
<1> QED BY <1>10, <1>11

-----------------------------------------------------------------------------
(* The invariant holds.                                                    *)

LEMMA NothingDone ==
  /\ Unapplied(NotApplied)
  /\ \A why : Unapplied(Refused(why))
<1>1. PICK none : none = ""
  OBVIOUS
<1>2. NotApplied = [applied |-> FALSE, refused |-> none, partial |-> FALSE,
                    rows |-> {}, overwritten |-> {}]
  BY <1>1, Zenon DEF NotApplied
<1>3. Unapplied(NotApplied)
  BY <1>2 DEF Unapplied
<1>4. ASSUME NEW why PROVE Unapplied(Refused(why))
  BY <1>2 DEF Unapplied, Refused
<1> QED BY <1>3, <1>4

LEMMA FirstOpened ==
  ASSUME NEW u \in File, NEW text \in Texts, NEW doc,
         doc = [DidOpen(FreshlyOpen(Closed, 1), text) EXCEPT !.awaiting = FALSE, !.cached = u]
  PROVE  /\ doc \in Documents /\ doc.open /\ doc.buffer.open
         /\ doc.version = doc.buffer.version /\ ~ doc.confused
<1>1. PICK shut : shut = Closed
  OBVIOUS
<1>2. shut \in Documents /\ ~ shut.buffer.open /\ ~ shut.confused
  BY <1>1 DEF Closed, NoBuffer, Documents
<1>3. PICK opened : opened = DidOpen(FreshlyOpen(shut, 1), text)
  OBVIOUS
<1>4. /\ opened \in Documents /\ opened.open /\ opened.buffer.open
      /\ opened.version = opened.buffer.version /\ ~ opened.confused
  BY <1>2, <1>3, Opens
<1> QED BY <1>1, <1>3, <1>4 DEF Documents

\* The documents as the session starts.
LEMMA FirstDocuments ==
  ASSUME NEW d, IsDisk(d), NEW S \in SUBSET {u \in File : Read(d, u) # Missing}, NEW ds,
         ds = [u \in File |->
                 IF u \in S THEN [DidOpen(FreshlyOpen(Closed, 1), Read(d, u))
                                    EXCEPT !.awaiting = FALSE, !.cached = u]
                 ELSE Closed]
  PROVE  DocsKept(ds, d)
<1>1. PICK shut : shut = Closed
  OBVIOUS
<1>2. /\ shut \in Documents /\ ~ shut.open /\ ~ shut.buffer.open /\ ~ shut.confused /\ shut.cached = None
  BY <1>1 DEF Closed, NoBuffer, Documents
<1>3. ASSUME NEW u \in File
      PROVE  /\ ds[u] \in Documents /\ ~ ds[u].confused
             /\ ds[u].open <=> ds[u].buffer.open
             /\ ds[u].open => ds[u].version = ds[u].buffer.version /\ Read(d, u) # Missing
             /\ ~ ds[u].open => ds[u].cached = None
  <2>1. CASE u \notin S
    BY <1>1, <1>2, <2>1
  <2>2. CASE u \in S
    <3>1. Read(d, u) \in Texts /\ Read(d, u) # Missing
      BY <2>2 DEF IsDisk, Read
    <3>2. ds[u] = [DidOpen(FreshlyOpen(Closed, 1), Read(d, u)) EXCEPT !.awaiting = FALSE, !.cached = u]
      BY <2>2
    <3>3. /\ ds[u] \in Documents /\ ds[u].open /\ ds[u].buffer.open
          /\ ds[u].version = ds[u].buffer.version /\ ~ ds[u].confused
      BY <3>1, <3>2, FirstOpened
    <3> QED BY <3>1, <3>3
  <2> QED BY <2>1, <2>2
<1> QED BY <1>3 DEF DocsKept

LEMMA InitHolds == Init => RenameInv
<1> SUFFICES ASSUME Init PROVE RenameInv
  OBVIOUS
<1>1. PICK d \in [File -> UNION {Inodes(u) : u \in File}] :
        /\ d[Queried] = Holds(Original(Queried))
        /\ \A u \in File : d[u] \in Inodes(u)
        /\ disk = d
        /\ \E S \in SUBSET {u \in File : Read(d, u) # Missing} :
             docs = [u \in File |->
                       IF u \in S THEN [DidOpen(FreshlyOpen(Closed, 1), Read(d, u))
                                          EXCEPT !.awaiting = FALSE, !.cached = u]
                       ELSE Closed]
  BY DEF Init
<1>2. IsDisk(d)
  <2>1. \A u \in File : /\ d[u] \in Inode
                        /\ Read(d, u) = Missing \/ (Read(d, u).of = u /\ d[u].kind \in {"file", "link"})
                        /\ d[u].kind = "file" => Read(d, u).of = u
    BY <1>1, InodesHold DEF Read
  <2> QED BY <1>1, <2>1 DEF IsDisk, Inode
<1>3. DocsKept(docs, d)
  BY <1>1, <1>2, FirstDocuments
<1>4. base = d /\ edit = <<>> /\ phase = "idle" /\ result = NotApplied
      /\ gates \in [write : BOOLEAN, destructive : BOOLEAN, incomplete : BOOLEAN, lister : BOOLEAN]
  BY <1>1 DEF Init
<1>5. Len(edit) = 0 /\ DOMAIN edit = 1 .. Len(edit) /\ \A i \in 1 .. Len(edit) : IsRequest(edit[i])
  BY <1>4
<1>6. Read(base, Queried) # Missing
  <2>1. PICK held : held = Holds(Original(Queried))
    OBVIOUS
  <2>2. held.text = Original(Queried)
    BY <2>1 DEF Holds
  <2>3. d[Queried] = held
    BY <1>1, <2>1
  <2>4. Original(Queried) # Missing
    BY FilesAssumption, OriginalText
  <2> QED BY <1>4, <2>2, <2>3, <2>4 DEF Read
<1>7. Unapplied(result)
  BY <1>4, NothingDone
<1> QED BY <1>1, <1>2, <1>3, <1>4, <1>5, <1>6, <1>7 DEF RenameInv

\* Opening the queried document.
LEMMA EnsuresOpen ==
  ASSUME NEW d, IsDisk(d), NEW ds, DocsKept(ds, d), NEW u \in File, Read(d, u) # Missing
  PROVE  DocsKept(EnsureOpen(ds, u, Read(d, u)), d)
<1>1. PICK es : es = EnsureOpen(ds, u, Read(d, u))
  OBVIOUS
<1>2. Read(d, u) \in Texts /\ ds[u] \in Documents
  BY DEF IsDisk, Read, DocsKept
<1>3. CASE ds[u].open
  <2>1. PICK more : more = [ds[u] EXCEPT !.refs = @ + 1]
    OBVIOUS
  <2>2. /\ more \in Documents /\ more.open = ds[u].open /\ more.buffer = ds[u].buffer
        /\ more.version = ds[u].version /\ more.confused = ds[u].confused /\ more.cached = ds[u].cached
    BY <1>2, <2>1 DEF Documents
  <2>3. es = [ds EXCEPT ![u] = more]
    BY <1>1, <1>3, <2>1 DEF EnsureOpen
  <2>4. es \in [File -> Documents] /\ \A v \in File : es[v] = IF v = u THEN more ELSE ds[v]
    BY <2>2, <2>3 DEF DocsKept
  <2> QED BY <1>1, <2>2, <2>4 DEF DocsKept
<1>4. CASE ~ ds[u].open
  <2>1. PICK opened : opened = DidOpen(FreshlyOpen(ds[u], 1), Read(d, u))
    OBVIOUS
  <2>2. ~ ds[u].confused /\ ~ ds[u].buffer.open
    BY <1>4 DEF DocsKept
  <2>3. /\ opened \in Documents /\ opened.open /\ opened.buffer.open
        /\ opened.version = opened.buffer.version /\ ~ opened.confused
    BY <1>2, <2>1, <2>2, Opens
  <2>4. es = [ds EXCEPT ![u] = opened]
    BY <1>1, <1>4, <2>1 DEF EnsureOpen
  <2>5. es \in [File -> Documents] /\ \A v \in File : es[v] = IF v = u THEN opened ELSE ds[v]
    BY <2>3, <2>4 DEF DocsKept
  <2> QED BY <1>1, <2>3, <2>5 DEF DocsKept
<1> QED BY <1>3, <1>4

LEMMA DriftHolds ==
  ASSUME RenameInv, NEW u \in File, NEW site \in {"sym", "other"}, Drift(u, site)
  PROVE  RenameInv'
<1>1. /\ phase = "computed" /\ base' = disk'
      /\ disk[u].kind \in {"file", "absent"}
      /\ disk' = [disk EXCEPT ![u] = Holds([Original(u) EXCEPT !.site = site, !.drift = TRUE])]
      /\ UNCHANGED <<gates, docs, edit, verdict, phase, result>>
  BY DEF Drift
<1>2. disk = base /\ Unapplied(result) /\ DocsKept(docs, base) /\ IsDisk(base)
  BY <1>1 DEF RenameInv
<1>3. site \in Sites
  <2>1. "sym" \in Sites /\ "other" \in Sites
    BY Zenon DEF Sites
  <2> QED BY <2>1
<1>4. PICK t : t = [Original(u) EXCEPT !.site = site, !.drift = TRUE]
  OBVIOUS
<1>5. t \in Texts /\ t.of = u
  <2>1. PICK own \in Texts : own = Original(u) /\ own.of = u
    BY OriginalText
  <2>2. t = [own EXCEPT !.site = site, !.drift = TRUE]
    BY <1>4, <2>1
  <2> QED BY <1>3, <2>1, <2>2 DEF Texts
<1>6. t # Missing
  BY <1>5, Constants, Names
<1>7. PICK held : held = Holds(t)
  OBVIOUS
<1>8. held \in Inode /\ held.kind = "file" /\ held.text = t
  BY <1>5, <1>7 DEF Holds, Inode
<1>9. disk' = [disk EXCEPT ![u] = held]
  BY <1>1, <1>4, <1>7
<1>10. disk' \in [File -> Inode] /\ \A v \in File : disk'[v] = IF v = u THEN held ELSE base[v]
  BY <1>2, <1>8, <1>9 DEF IsDisk, Inode
<1>11. \A v \in File : Read(disk', v) = IF v = u THEN t ELSE Read(base, v)
  BY <1>8, <1>10 DEF Read
<1>12. IsDisk(base')
  <2>1. PICK b : b = base'
    OBVIOUS
  <2>2. b \in [File -> Inode] /\ \A v \in File : b[v] = IF v = u THEN held ELSE base[v]
    BY <1>1, <1>10, <2>1
  <2>3. \A v \in File : Read(b, v) = IF v = u THEN t ELSE Read(base, v)
    BY <1>1, <1>11, <2>1
  <2>4. ASSUME NEW v \in File
        PROVE  /\ Read(b, v) = Missing \/ (Read(b, v).of = v /\ b[v].kind \in {"file", "link"})
               /\ b[v].kind = "file" => Read(b, v).of = v
    <3>1. CASE v = u
      BY <1>5, <1>8, <2>2, <2>3, <3>1
    <3>2. CASE v # u
      BY <1>2, <2>2, <2>3, <3>2 DEF IsDisk
    <3> QED BY <3>1, <3>2
  <2>5. IsDisk(b)
    BY <2>2, <2>4 DEF IsDisk, Inode
  <2> QED BY <2>1, <2>5
<1>13. DocsKept(docs', base')
  BY <1>1, <1>2, <1>6, <1>11 DEF DocsKept
<1>14. Unapplied(result)' /\ disk' = base' /\ phase' = "computed"
  BY <1>1, <1>2 DEF Unapplied
<1>15. edit' = edit /\ gates' = gates
  BY <1>1
<1>16. Read(base', Queried) # Missing
  <2>1. Queried \in File /\ Read(base, Queried) # Missing
    BY FilesAssumption DEF RenameInv
  <2> QED BY <1>1, <1>6, <1>11, <2>1
<1> QED BY <1>12, <1>13, <1>14, <1>15, <1>16 DEF RenameInv

LEMMA Agreed ==
  ASSUME NEW r, NEW d, NEW ops, WhyNot(r, d, ops) = ""
  PROVE  Accepted(r) /\ ~ StaleSite(r, d, ops) /\ ~ Collision(r)
<1>1. r.refused = ""
  BY Zenon DEF WhyNot
<1>2. ~ StaleSite(r, d, ops)
  BY <1>1, Zenon DEF WhyNot
<1>3. ~ Collision(r)
  BY <1>1, <1>2, Zenon DEF WhyNot
<1> QED BY <1>1, <1>2, <1>3, Zenon DEF Accepted

Replying == \E why : result' = Refused(why) /\ UNCHANGED <<disk, docs>>

Committing ==
  LET r    == Replay(disk, edit)
      plan == Plan(r, disk)
  IN  /\ Accepted(r) /\ ~ StaleSite(r, disk, edit) /\ ~ Collision(r)
      /\ \E n \in 0 .. Len(plan) :
           /\ Committed(disk, plan, n)
           /\ disk'   = Disks(disk, plan)[n]
           /\ docs'   = Resynced(docs, r, disk, plan, n)
           /\ result' = Applied(r, plan, n)

LEMMA ApplySteps ==
  ASSUME Apply
  PROVE  /\ phase = "computed" /\ gates.write /\ ~ BlockedByGuard /\ Confined
         /\ \A i \in DOMAIN edit : ~ BadOption(edit[i])
         /\ phase' = "done"
         /\ UNCHANGED <<gates, edit, verdict, base>>
         /\ Replying \/ Committing
<1> DEFINE r    == Replay(disk, edit)
           why  == WhyNot(r, disk, edit)
           plan == Plan(r, disk)
<1>1. /\ phase = "computed" /\ gates.write /\ ~ BlockedByGuard /\ Confined
      /\ \A i \in DOMAIN edit : ~ BadOption(edit[i])
      /\ phase' = "done"
      /\ UNCHANGED <<gates, edit, verdict, base>>
  BY Zenon DEF Apply
<1>2. \/ result' = Refused(why) /\ UNCHANGED <<disk, docs>>
      \/ result' = Refused("throws") /\ UNCHANGED <<disk, docs>>
      \/ /\ why = ""
         /\ \E n \in 0 .. Len(plan) :
              /\ Committed(disk, plan, n)
              /\ disk'   = Disks(disk, plan)[n]
              /\ docs'   = Resynced(docs, r, disk, plan, n)
              /\ result' = Applied(r, plan, n)
  BY Zenon DEF Apply
<1>3. CASE \/ result' = Refused(why) /\ UNCHANGED <<disk, docs>>
           \/ result' = Refused("throws") /\ UNCHANGED <<disk, docs>>
  BY <1>1, <1>3, Zenon DEF Replying
<1>4. CASE /\ why = ""
           /\ \E n \in 0 .. Len(plan) :
                /\ Committed(disk, plan, n)
                /\ disk'   = Disks(disk, plan)[n]
                /\ docs'   = Resynced(docs, r, disk, plan, n)
                /\ result' = Applied(r, plan, n)
  <2>1. Accepted(r) /\ ~ StaleSite(r, disk, edit) /\ ~ Collision(r)
    BY <1>4, Agreed, Zenon
  <2>2. Committing
    BY <1>4, <2>1, Zenon DEF Committing
  <2> QED BY <1>1, <2>2
<1> QED BY <1>1, <1>2, <1>3, <1>4, Zenon

LEMMA NextHolds ==
  ASSUME RenameInv, [Next]_vars
  PROVE  RenameInv'
<1>1. ASSUME NEW ops \in Batches, NEW scan \in Scans, Compute(ops, scan)
      PROVE  RenameInv'
  <2>1. /\ phase = "idle" /\ phase' = "computed" /\ edit' = ops
        /\ docs' = EnsureOpen(docs, Queried, Read(disk, Queried))
        /\ UNCHANGED <<gates, disk, base, result>>
    BY <1>1 DEF Compute
  <2>2. disk = base /\ Unapplied(result) /\ DocsKept(docs, base) /\ Read(base, Queried) # Missing /\ IsDisk(base)
    BY <2>1 DEF RenameInv
  <2>3. DocsKept(docs', base')
    BY <2>1, <2>2, EnsuresOpen, FilesAssumption
  <2>4. Unapplied(result)' /\ disk' = base' /\ IsDisk(base')
    BY <2>1, <2>2 DEF Unapplied
  <2>5. Len(edit') \in Nat /\ DOMAIN edit' = 1 .. Len(edit') /\ \A i \in 1 .. Len(edit') : IsRequest(edit'[i])
    BY <2>1, BatchesAreRequests
  <2>6. gates' \in [write : BOOLEAN, destructive : BOOLEAN, incomplete : BOOLEAN, lister : BOOLEAN]
    BY <2>1 DEF RenameInv
  <2> QED BY <2>1, <2>3, <2>4, <2>5, <2>6 DEF RenameInv
<1>2. CASE ComputeNothing
  <2>1. /\ phase = "idle" /\ phase' = "done"
        /\ docs' = EnsureOpen(docs, Queried, Read(disk, Queried))
        /\ UNCHANGED <<gates, disk, edit, base, result>>
    BY <1>2 DEF ComputeNothing
  <2>2. disk = base /\ Unapplied(result) /\ DocsKept(docs, base) /\ Read(base, Queried) # Missing /\ IsDisk(base)
    BY <2>1 DEF RenameInv
  <2>3. DocsKept(docs', base')
    BY <2>1, <2>2, EnsuresOpen, FilesAssumption
  <2>4. Unapplied(result)' /\ disk' = base' /\ IsDisk(base')
    BY <2>1, <2>2 DEF Unapplied
  <2> QED BY <2>1, <2>3, <2>4 DEF RenameInv
<1>3. ASSUME NEW u \in File, NEW site \in {"sym", "other"}, Drift(u, site)
      PROVE  RenameInv'
  BY <1>3, DriftHolds
<1>4. CASE DryRun
  <2>1. /\ phase = "computed" /\ phase' = "done"
        /\ result' \in {NotApplied, Refused("incomplete")}
        /\ UNCHANGED <<gates, disk, docs, edit, base>>
    BY <1>4 DEF DryRun
  <2>2. Unapplied(result)' /\ disk = base /\ DocsKept(docs, base)
    BY <2>1, NothingDone DEF RenameInv, Unapplied
  <2> QED BY <2>1, <2>2 DEF RenameInv
<1>5. CASE RefuseEarly
  <2>1. /\ phase = "computed" /\ phase' = "done"
        /\ \E why : result' = Refused(why)
        /\ UNCHANGED <<gates, disk, docs, edit, base>>
    BY <1>5 DEF RefuseEarly
  <2>2. Unapplied(result)' /\ disk = base /\ DocsKept(docs, base)
    BY <2>1, NothingDone DEF RenameInv, Unapplied
  <2> QED BY <2>1, <2>2 DEF RenameInv
<1>6. CASE Apply
  <2>1. /\ phase = "computed" /\ gates.write /\ ~ BlockedByGuard /\ Confined
        /\ \A i \in DOMAIN edit : ~ BadOption(edit[i])
        /\ phase' = "done"
        /\ UNCHANGED <<gates, edit, verdict, base>>
        /\ Replying \/ Committing
    BY <1>6, ApplySteps
  <2>2. disk = base /\ DocsKept(docs, base) /\ IsDisk(base)
        /\ Len(edit) \in Nat /\ DOMAIN edit = 1 .. Len(edit) /\ \A i \in 1 .. Len(edit) : IsRequest(edit[i])
    BY <2>1 DEF RenameInv
  <2>3. CASE Replying
    <3>1. Unapplied(result)' /\ disk' = base' /\ DocsKept(docs', base')
      BY <2>1, <2>2, <2>3, NothingDone DEF Replying, Unapplied
    <3> QED BY <2>1, <2>2, <3>1 DEF RenameInv
  <2>4. CASE Committing
    <3> DEFINE r    == Replay(disk, edit)
               plan == Plan(r, disk)
    <3>1. PICK n \in 0 .. Len(plan) :
            /\ Accepted(r) /\ ~ StaleSite(r, disk, edit) /\ ~ Collision(r)
            /\ Committed(disk, plan, n)
            /\ disk'   = Disks(disk, plan)[n]
            /\ docs'   = Resynced(docs, r, disk, plan, n)
            /\ result' = Applied(r, plan, n)
      BY <2>4 DEF Committing
    <3>2. BlockedByGuard' = BlockedByGuard /\ Confined' = Confined
          /\ \A op : BadOption(op)' = BadOption(op)
      BY <2>1 DEF BlockedByGuard, DestructiveBatch, Confined, Touched, BadOption, DestructiveAllowed
    <3>4. PICK ds, b : ds = docs /\ b = base
      OBVIOUS
    <3>3. AppliedTo(ds, b, n)'
      BY <2>1, <2>2, <3>1, <3>2, <3>4 DEF AppliedTo
    <3>5. AppliedTo(ds, base, n)'
      BY <2>1, <3>3, <3>4 DEF AppliedTo
    <3>6. n \in Nat /\ DocsKept(ds, base')
      BY <2>1, <2>2, <3>4
    <3> QED BY <2>1, <2>2, <3>5, <3>6 DEF RenameInv
  <2> QED BY <2>1, <2>3, <2>4
<1>7. CASE UNCHANGED vars
  <2>1. PICK dummy : TRUE
    OBVIOUS
  <2> QED BY <1>7 DEF vars, RenameInv, Unapplied, AppliedTo, BlockedByGuard, DestructiveBatch, Confined, Touched, BadOption, DestructiveAllowed
<1> QED BY <1>1, <1>2, <1>3, <1>4, <1>5, <1>6, <1>7 DEF Next

\* What rename() reports is what the replay and its plan did to the disk.
THEOREM ReportsWhatItDid == Spec => []RenameInv
<1>1. Init => RenameInv
  BY InitHolds
<1>2. RenameInv /\ [Next]_vars => RenameInv'
  BY NextHolds
<1> QED BY <1>1, <1>2, PTL DEF Spec

-----------------------------------------------------------------------------
(* The properties.                                                         *)

\* All that is known of a batch that was applied.
Performed(r, plan, n) ==
  /\ r = Replay(base, edit) /\ ReplayInv(r, base) /\ Accepted(r)
  /\ plan = Plan(r, base) /\ Planned(r, base, plan) /\ Parted(r)
  /\ n \in 0 .. Len(plan) /\ Stands(r, base, plan, n, disk)
  /\ result = Applied(r, plan, n)

LEMMA AppliedPerformed ==
  ASSUME RenameInv, NEW n \in Nat, NEW ds, AppliedTo(ds, base, n)
  PROVE  /\ IsBatch(edit)
         /\ \E r, plan : Performed(r, plan, n) /\ docs = Resynced(ds, r, base, plan, n)
<1>1. IsDisk(base) /\ IsBatch(edit)
  <2>1. Confined
    BY DEF AppliedTo
  <2> QED BY <2>1, RequestsConfined DEF RenameInv
<1>2. PICK r, plan : r = Replay(base, edit) /\ plan = Plan(r, base)
  OBVIOUS
<1>3. /\ Accepted(r) /\ ~ Collision(r)
      /\ n \in 0 .. Len(plan) /\ Committed(base, plan, n)
      /\ disk = Disks(base, plan)[n]
      /\ docs = Resynced(ds, r, base, plan, n)
      /\ result = Applied(r, plan, n)
  BY <1>2 DEF AppliedTo
<1>4. ReplayInv(r, base)
  <2>1. PICK m \in Nat : m = Len(edit)
    BY <1>1 DEF IsBatch
  <2>2. r = Replays(base, edit)[m]
    BY <1>2, <2>1 DEF Replay
  <2>3. Accepted(Replay(base, edit))
    BY <1>2, <1>3
  <2>4. \A i \in 0 .. m : ReplayInv(Replays(base, edit)[i], base)
    BY <1>1, <2>1, <2>3, BatchDoes
  <2> QED BY <2>2, <2>4
<1>5. Planned(r, base, plan) /\ Parted(r)
  BY <1>2, <1>3, <1>4, PlanPlanned, Parts
<1>6. Stands(r, base, plan, n, disk)
  BY <1>1, <1>3, <1>4, <1>5, DiskStands
<1> QED BY <1>1, <1>2, <1>3, <1>4, <1>5, <1>6 DEF Performed

LEMMA AppliedFields ==
  ASSUME NEW r, NEW plan, Len(plan) \in Nat, NEW n \in Nat
  PROVE  /\ Applied(r, plan, n).applied
         /\ Applied(r, plan, n).partial <=> n < Len(plan)
         /\ \A row : row \in Applied(r, plan, n).rows <=> \E i \in 1 .. n : row \in plan[i].rows
         /\ Applied(r, plan, n).overwritten \subseteq r.overwrites
<1>1. PICK none : none = ""
  OBVIOUS
<1>2. PICK rows, over : /\ rows = UNION {plan[i].rows : i \in 1 .. n}
                        /\ over = {u \in r.overwrites : \/ Landed(plan, n, "write", u)
                                                        \/ Landed(plan, n, "rename", u)}
  OBVIOUS
<1>3. PICK part \in BOOLEAN : part = (n < Len(plan))
  BY (n < Len(plan)) \in BOOLEAN, Zenon
<1>4. Applied(r, plan, n) = [applied |-> TRUE, refused |-> none, partial |-> part,
                             rows |-> rows, overwritten |-> over]
  BY <1>1, <1>2, <1>3, Zenon DEF Applied
<1>5. over \subseteq r.overwrites
  BY <1>2
<1>7. \A row : row \in rows <=> \E i \in 1 .. n : row \in plan[i].rows
  BY <1>2
<1>6. /\ Applied(r, plan, n).applied /\ Applied(r, plan, n).partial = part
      /\ Applied(r, plan, n).rows = rows /\ Applied(r, plan, n).overwritten = over
  BY <1>4
<1> QED BY <1>3, <1>5, <1>6, <1>7

\* The audit rows name exactly the documents whose text changed on the disk,
\* however far the commit got.
THEOREM AuditIsExact == Spec => []AuditNamesWhatLanded
<1>1. RenameInv => AuditNamesWhatLanded
  <2> SUFFICES ASSUME RenameInv PROVE AuditNamesWhatLanded
    OBVIOUS
  <2>1. CASE disk = base /\ Unapplied(result)
    BY <2>1 DEF AuditNamesWhatLanded, Unapplied
  <2>2. ASSUME NEW n \in Nat, NEW ds, AppliedTo(ds, base, n)
        PROVE  AuditNamesWhatLanded
    <3>1. PICK r, plan : Performed(r, plan, n)
      BY <2>2, AppliedPerformed
    <3>2. IsDisk(base)
      BY DEF RenameInv
    <3>3. /\ \A u \in File : Read(disk, u) # Read(base, u) =>
               \E i \in 1 .. n : \E row \in plan[i].rows : u \in row.files
          /\ \A i \in 1 .. n : \A row \in plan[i].rows :
               \E u \in row.files : Read(disk, u) # Read(base, u)
      BY <3>1, <3>2, AuditOfCommit DEF Performed
    <3>4. Len(plan) \in Nat /\ result = Applied(r, plan, n)
      BY <3>1 DEF Performed, Planned
    <3>5. \A row : row \in result.rows <=> \E i \in 1 .. n : row \in plan[i].rows
      BY <3>4, AppliedFields
    <3> QED BY <3>3, <3>5 DEF AuditNamesWhatLanded
  <2> QED BY <2>1, <2>2 DEF RenameInv
<1> QED BY <1>1, ReportsWhatItDid, PTL

\* What was written to the queried document meanwhile survives, no document is
\* replaced without the destructive gate, and the partial-rename guard holds.
THEOREM ClobbersNothing == Spec => []NothingIsClobbered
<1>1. RenameInv => NothingIsClobbered
  <2> SUFFICES ASSUME RenameInv PROVE NothingIsClobbered
    OBVIOUS
  <2>0. Queried \in File /\ IsDisk(base) /\ Len(edit) \in Nat /\ DOMAIN edit = 1 .. Len(edit)
        /\ \A i \in 1 .. Len(edit) : IsRequest(edit[i])
    BY FilesAssumption DEF RenameInv
  <2>1. CASE disk = base /\ Unapplied(result)
    <3>1. \A u \in File : Read(base, u) = Missing \/ Read(base, u).of = u
      BY <2>0 DEF IsDisk
    <3> QED BY <2>1, <3>1 DEF NothingIsClobbered, Unapplied
  <2>2. ASSUME NEW n \in Nat, NEW ds, AppliedTo(ds, base, n)
        PROVE  NothingIsClobbered
    <3>1. PICK r, plan : Performed(r, plan, n)
      BY <2>2, AppliedPerformed
    <3>2. IsBatch(edit)
      BY <2>2, AppliedPerformed
    <3>3. /\ gates.write /\ ~ BlockedByGuard
          /\ \A i \in 1 .. Len(edit) : ~ BadOption(edit[i])
      BY <2>2 DEF AppliedTo
    <3>4. ReplayInv(r, base) /\ Planned(r, base, plan) /\ Parted(r) /\ Stands(r, base, plan, n, disk)
          /\ n \in 0 .. Len(plan) /\ r = Replay(base, edit) /\ Accepted(Replay(base, edit))
      BY <3>1 DEF Performed
    <3>5. ASSUME Read(base, Queried).drift, ~ Surrendered(Queried)
          PROVE  Read(disk, Queried) = Read(base, Queried)
      <4>1. \A i \in 1 .. Len(edit) : ~ SurrenderedBy(edit[i])
        BY <2>0, <3>5 DEF Surrendered, SurrenderedBy
      <4>2. Spared(Replay(base, edit))
        BY <2>0, <3>2, <3>4, <3>5, <4>1, BatchSpares
      <4>3. disk[Queried] = base[Queried]
        BY <3>4, <4>2, SparedStands
      <4> QED BY <4>3 DEF Read
    <3>6. ASSUME ~ (gates.write /\ gates.destructive), NEW u \in File, Read(base, u) # Missing, ~ Deletes
          PROVE  \E v \in File : Read(disk, v).of = u
      <4>1. ASSUME NEW i \in 1 .. Len(edit)
            PROVE  edit[i].kind # "delete" /\ (edit[i].kind # "edit" => ~ edit[i].overwrite)
        <5>1. edit[i].kind \in Kinds /\ edit[i].kind # "delete"
          BY <2>0, <3>2, <3>6 DEF Deletes, IsBatch, IsOperation
        <5>2. ~ BadOption(edit[i])
          BY <3>3
        <5> QED BY <3>6, <5>1, <5>2 DEF BadOption, DestructiveAllowed, Kinds
      <4>2. Gentle(Replay(base, edit), base)
        BY <2>0, <3>2, <3>4, <4>1, BatchGentle
      <4> QED BY <2>0, <3>4, <3>6, <4>2, GentleStands
    <3>7. ~ (verdict = "suspect" /\ ~ gates.incomplete)
      BY <3>3 DEF BlockedByGuard
    <3>8. ASSUME verdict = "unknown", ~ gates.incomplete
          PROVE  result.overwritten = {}
      <4>1. ~ DestructiveBatch
        BY <3>3, <3>8 DEF BlockedByGuard
      <4>2. \A i \in 1 .. Len(edit) : edit[i].kind # "edit" => ~ edit[i].overwrite
        BY <2>0, <4>1 DEF DestructiveBatch
      <4>3. r.overwrites = {}
        BY <2>0, <3>2, <3>4, <4>2, BatchOverwritesNothing
      <4>4. result.overwritten \subseteq r.overwrites
        BY <3>1, AppliedFields DEF Performed, Planned
      <4> QED BY <4>3, <4>4
    <3> QED BY <3>5, <3>6, <3>7, <3>8 DEF NothingIsClobbered
  <2> QED BY <2>1, <2>2 DEF RenameInv
<1> QED BY <1>1, ReportsWhatItDid, PTL

-----------------------------------------------------------------------------
(* Straight batches mean what they do.                                     *)

\* What a path holds once the fates of the files are what they are.
Value(r, d, v) ==
  IF Arrives(r, v) THEN r.fate[r.alias[v]].text
  ELSE IF r.alias[v] = v /\ r.fate[v] = NoFate THEN Read(d, v) ELSE Missing

\* Paths whose file went elsewhere are known to have been renamed; files born
\* on a deleted one, or put over one, are where they were put.
Tracks(r, d) ==
  /\ \A v \in File : r.fate[r.alias[v]].live /\ ~ Arrives(r, v) => v \in r.renamedOld
  /\ \A v \in File : r.alias[v] # v => r.alias[v] \in r.renamedOld
  /\ \A o \in r.created : Read(d, o) # Missing => r.alias[o] = o /\ Arrives(r, o)
  /\ \A n \in r.clobbered : Arrives(r, n)

\* The operation takes nothing from a path that another was put at.
Clear(r, d, op) ==
  /\ op.uri \notin r.renamedOld
  /\ op.kind \in {"delete", "rename"} =>
       op.uri \notin r.clobbered /\ (op.uri \in r.created => Read(d, op.uri) = Missing)

\* What a path not renamed before holds is what the replay finds there, and
\* nothing else is left of its file.
LEMMA ClearValue ==
  ASSUME NEW d, IsDisk(d), NEW r, ReplayInv(r, d), Tracks(r, d), NEW u \in File, u \notin r.renamedOld
  PROVE  /\ ContentOf(r, d, u) = Value(r, d, u)
         /\ LiveOccupied(r, d, u) <=> Value(r, d, u) # Missing
         /\ ContentOf(r, d, u) # Missing =>
              /\ r.fate[r.alias[u]].live => r.fate[r.alias[u]].at = u
              /\ \A v \in File : v # u /\ r.alias[v] = r.alias[u] =>
                   Value(r, d, v) = Missing /\ v \in r.renamedOld /\ r.fate[r.alias[u]].live
<1> DEFINE o == r.alias[u]
<1>1. /\ o \in File /\ r \in ReplayStates
      /\ ContentOf(r, d, u) = IF r.fate[o] = NoFate THEN Read(d, u) ELSE r.fate[o].text
      /\ LiveOccupied(r, d, u) <=> IF r.fate[o] = NoFate THEN Read(d, u) # Missing ELSE r.fate[o].live
  BY TextsRead DEF ReplayInv
<1>2. CASE r.fate[o] = NoFate
  <2>1. o = u
    BY <1>2 DEF ReplayInv, Freed
  <2>2. ~ r.fate[o].live
    BY <1>2, Constants
  <2>3. \A v \in File : v # u => r.alias[v] # u
    BY <1>2, <2>1 DEF ReplayInv, Freed
  <2>4. Value(r, d, u) = Read(d, u)
    BY <1>2, <2>1, <2>2 DEF Value, Arrives
  <2> QED BY <1>1, <1>2, <2>1, <2>2, <2>3, <2>4
<1>3. CASE r.fate[o].live
  <2>1. r.fate[o] # NoFate
    BY <1>3, Constants
  <2>2. r.fate[o].at = u
    BY <1>3 DEF Tracks, Arrives
  <2>3. Value(r, d, u) = r.fate[o].text
    BY <1>3, <2>2 DEF Value, Arrives
  <2>4. r.fate[o].text # Missing
    <3>1. r.fate[o].text.of = IF o \in r.created \cup r.replaced THEN "blank" ELSE o
      BY <1>1, <1>3 DEF ReplayInv, Contained
    <3> QED BY <1>1, <3>1, Constants, Names
  <2>5. ASSUME NEW v \in File, v # u, r.alias[v] = o
        PROVE  Value(r, d, v) = Missing /\ v \in r.renamedOld
    <3>1. ~ Arrives(r, v)
      BY <2>2, <2>5 DEF Arrives
    <3>2. ~ (r.alias[v] = v /\ r.fate[v] = NoFate)
      BY <2>1, <2>5
    <3> QED BY <1>3, <2>5, <3>1, <3>2 DEF Value, Tracks
  <2> QED BY <1>1, <1>3, <2>1, <2>2, <2>3, <2>4, <2>5
<1>4. CASE r.fate[o] # NoFate /\ ~ r.fate[o].live
  <2>1. r.fate[o].text = Missing
    BY <1>1, <1>4, Constants DEF ReplayInv, Lifeless
  <2>2. Value(r, d, u) = Missing
    BY <1>4 DEF Value, Arrives
  <2> QED BY <1>1, <1>4, <2>1, <2>2
<1> QED BY <1>2, <1>3, <1>4

LEMMA CreatesTracks ==
  ASSUME NEW d, IsDisk(d), NEW r, ReplayInv(r, d), Tracks(r, d), NEW s, NEW u \in File, u \notin r.renamedOld,
         Settles(r, s, u, Live(u, Blank)), r.alias[u] = u,
         s.alias = r.alias, s.renamedOld = r.renamedOld, s.clobbered = r.clobbered,
         s.created \in {r.created, r.created \cup {u}}
  PROVE  /\ Tracks(s, d)
         /\ \A v \in File : Value(s, d, v) = IF v = u THEN Blank ELSE Value(r, d, v)
<1>1. /\ \A x \in File : s.fate[x] = IF x = u THEN Live(u, Blank) ELSE r.fate[x]
      /\ Live(u, Blank).live /\ Live(u, Blank).at = u /\ Live(u, Blank).text = Blank
      /\ r \in ReplayStates /\ \A v \in File : r.alias[v] \in File
  <2>1. r \in ReplayStates
    BY DEF ReplayInv
  <2> QED BY <2>1, Settled, Constants DEF ReplayStates
<1>2. \A v \in File : v # u => r.alias[v] # u
  BY DEF Tracks
<1>3. \A v \in File : v # u => s.fate[s.alias[v]] = r.fate[r.alias[v]] /\ s.alias[v] = r.alias[v] /\ s.fate[v] = r.fate[v]
  BY <1>1, <1>2
<1>4. s.fate[s.alias[u]] = Live(u, Blank) /\ s.alias[u] = u /\ Arrives(s, u)
  BY <1>1 DEF Arrives
<1>5. \A v \in File : v # u => (Arrives(s, v) <=> Arrives(r, v))
  BY <1>3 DEF Arrives
<1>6. \A v \in File : v # u => Value(s, d, v) = Value(r, d, v)
  BY <1>3, <1>5 DEF Value
<1>7. Value(s, d, u) = Blank
  BY <1>1, <1>4 DEF Value
<1>8. Tracks(s, d)
  <2>1. \A v \in File : s.fate[s.alias[v]].live /\ ~ Arrives(s, v) => v \in s.renamedOld
    BY <1>3, <1>4, <1>5 DEF Tracks
  <2>2. \A v \in File : s.alias[v] # v => s.alias[v] \in s.renamedOld
    BY DEF Tracks
  <2>3. r.created \subseteq File /\ r.clobbered \subseteq File
    BY <1>1 DEF ReplayStates
  <2>4. \A o \in s.created : Read(d, o) # Missing => s.alias[o] = o /\ Arrives(s, o)
    BY <1>4, <1>5, <2>3 DEF Tracks
  <2>5. \A n \in s.clobbered : Arrives(s, n)
    BY <1>4, <1>5, <2>3 DEF Tracks
  <2> QED BY <2>1, <2>2, <2>4, <2>5 DEF Tracks
<1> QED BY <1>6, <1>7, <1>8

LEMMA RemovesTracks ==
  ASSUME NEW d, IsDisk(d), NEW r, ReplayInv(r, d), Tracks(r, d), NEW s, NEW u \in File, Removes(r, s, d, u),
         u \notin r.renamedOld, u \notin r.clobbered, u \in r.created => Read(d, u) = Missing
  PROVE  /\ Tracks(s, d)
         /\ \A v \in File : Value(s, d, v) = IF v = u THEN Missing ELSE Value(r, d, v)
<1> DEFINE o == r.alias[u]
<1>1. /\ \A x \in File : s.fate[x] = IF x = o THEN Deleted ELSE r.fate[x]
      /\ s.alias = r.alias /\ s.created = r.created /\ s.renamedOld = r.renamedOld /\ s.clobbered = r.clobbered
      /\ ContentOf(r, d, u) # Missing
      /\ ~ Deleted.live /\ Deleted # NoFate
      /\ o \in File /\ r \in ReplayStates /\ \A v \in File : r.alias[v] \in File
  <2>1. r \in ReplayStates
    BY DEF ReplayInv
  <2> QED BY <2>1, Settled, Constants DEF Removes, ReplayStates
<1>2. /\ r.fate[o].live => r.fate[o].at = u
      /\ \A v \in File : v # u /\ r.alias[v] = o => Value(r, d, v) = Missing /\ r.fate[o].live
  BY <1>1, ClearValue
<1>3. \A v \in File : r.alias[v] # o => s.fate[s.alias[v]] = r.fate[r.alias[v]]
  BY <1>1
<1>4. \A v \in File : r.alias[v] # o => (Arrives(s, v) <=> Arrives(r, v))
  BY <1>1, <1>3 DEF Arrives
<1>5. \A v \in File : r.alias[v] = o => ~ Arrives(s, v) /\ Value(s, d, v) = Missing
  <2> SUFFICES ASSUME NEW v \in File, r.alias[v] = o PROVE ~ Arrives(s, v) /\ Value(s, d, v) = Missing
    OBVIOUS
  <2>1. ~ Arrives(s, v)
    BY <1>1 DEF Arrives
  <2>2. ~ (s.alias[v] = v /\ s.fate[v] = NoFate)
    BY <1>1
  <2> QED BY <2>1, <2>2 DEF Value
<1>6. \A v \in File : r.alias[v] # o => Value(s, d, v) = Value(r, d, v)
  <2> SUFFICES ASSUME NEW v \in File, r.alias[v] # o PROVE Value(s, d, v) = Value(r, d, v)
    OBVIOUS
  <2>1. r.alias[v] = v => s.fate[v] = r.fate[v]
    BY <1>1
  <2> QED BY <1>1, <1>3, <1>4, <2>1 DEF Value
<1>7. ASSUME NEW v \in File, Arrives(r, v), v # u PROVE Arrives(s, v)
  <2>1. r.alias[v] # o
    BY <1>2, <1>7 DEF Arrives
  <2> QED BY <1>4, <1>7, <2>1
<1>8. Tracks(s, d)
  <2>1. \A v \in File : s.fate[s.alias[v]].live /\ ~ Arrives(s, v) => v \in s.renamedOld
    BY <1>1, <1>3, <1>4 DEF Tracks
  <2>2. \A v \in File : s.alias[v] # v => s.alias[v] \in s.renamedOld
    BY <1>1 DEF Tracks
  <2>3. r.created \subseteq File /\ r.clobbered \subseteq File
    BY <1>1 DEF ReplayStates
  <2>4. \A x \in s.created : Read(d, x) # Missing => s.alias[x] = x /\ Arrives(s, x)
    BY <1>1, <1>7, <2>3 DEF Tracks
  <2>5. \A n \in s.clobbered : Arrives(s, n)
    BY <1>1, <1>7, <2>3 DEF Tracks
  <2> QED BY <2>1, <2>2, <2>4, <2>5 DEF Tracks
<1> QED BY <1>2, <1>5, <1>6, <1>8

LEMMA RenamesTracks ==
  ASSUME NEW d, IsDisk(d), NEW r, ReplayInv(r, d), Tracks(r, d), NEW s,
         NEW u \in File, NEW n \in File, u # n, Renames(r, s, d, u, n), ~ r.fate[n].live,
         u \notin r.renamedOld, u \notin r.clobbered, u \in r.created => Read(d, u) = Missing,
         s.clobbered \in {r.clobbered, r.clobbered \cup {n}}
  PROVE  /\ Tracks(s, d)
         /\ \A v \in File : Value(s, d, v) = IF v = n THEN Value(r, d, u)
                                             ELSE IF v = u THEN Missing ELSE Value(r, d, v)
<1> DEFINE o == r.alias[u]
<1>0. PICK text \in Texts : text = ContentOf(r, d, u)
  BY TextsRead DEF ReplayInv
<1>1. /\ s.created = r.created /\ s.renamedOld = r.renamedOld \cup {u}
      /\ ContentOf(r, d, u) # Missing
      /\ n \notin r.renamedOld /\ r.alias[n] = n /\ n # o
      /\ o \in File /\ r \in ReplayStates /\ \A v \in File : r.alias[v] \in File
  BY DEF Renames, ReplayInv, ReplayStates
<1>2. \A x \in File : s.fate[x] = IF x = o THEN Live(n, text) ELSE r.fate[x]
  BY <1>0, <1>1, Settled DEF Renames
<1>3. Live(n, text).live /\ Live(n, text).at = n /\ Live(n, text).text = text /\ Live(n, text) # NoFate
  BY <1>0, Constants
<1>4. \A v \in File : s.alias[v] = IF v = n THEN o ELSE r.alias[v]
  BY <1>1 DEF Renames, ReplayStates
<1>5. /\ ContentOf(r, d, u) = Value(r, d, u)
      /\ r.fate[o].live => r.fate[o].at = u
      /\ \A v \in File : v # u /\ r.alias[v] = o => Value(r, d, v) = Missing /\ v \in r.renamedOld /\ r.fate[o].live
  BY <1>1, ClearValue
<1>6. Arrives(s, n) /\ Value(s, d, n) = Value(r, d, u)
  <2>1. s.fate[s.alias[n]] = Live(n, text)
    BY <1>1, <1>2, <1>4
  <2> QED BY <1>0, <1>3, <1>5, <2>1 DEF Arrives, Value
<1>7. ASSUME NEW v \in File, v # n, r.alias[v] = o
      PROVE  ~ Arrives(s, v) /\ Value(s, d, v) = Missing /\ v \in s.renamedOld
  <2>1. s.fate[s.alias[v]] = Live(n, text) /\ s.alias[v] = o
    BY <1>1, <1>2, <1>4, <1>7
  <2>2. ~ Arrives(s, v)
    BY <1>3, <1>7, <2>1 DEF Arrives
  <2>3. ~ (s.alias[v] = v /\ s.fate[v] = NoFate)
    BY <1>3, <2>1
  <2>4. v \in s.renamedOld
    BY <1>1, <1>5, <1>7
  <2> QED BY <2>2, <2>3, <2>4 DEF Value
<1>8. ASSUME NEW v \in File, v # n, r.alias[v] # o
      PROVE  /\ s.alias[v] = r.alias[v] /\ s.fate[s.alias[v]] = r.fate[r.alias[v]]
             /\ Arrives(s, v) <=> Arrives(r, v)
             /\ Value(s, d, v) = Value(r, d, v)
  <2>1. s.alias[v] = r.alias[v] /\ s.fate[s.alias[v]] = r.fate[r.alias[v]]
    BY <1>1, <1>2, <1>4, <1>8
  <2>2. Arrives(s, v) <=> Arrives(r, v)
    BY <2>1 DEF Arrives
  <2>3. r.alias[v] = v => s.fate[v] = r.fate[v]
    BY <1>2, <1>8
  <2> QED BY <2>1, <2>2, <2>3 DEF Value
<1>9. ASSUME NEW v \in File, Arrives(r, v), v # u
      PROVE  v # n /\ Arrives(s, v) /\ s.alias[v] = r.alias[v]
  <2>1. v # n
    BY <1>1, <1>9 DEF Arrives
  <2>2. r.alias[v] # o
    BY <1>5, <1>9 DEF Arrives
  <2> QED BY <1>8, <1>9, <2>1, <2>2
<1>10. Tracks(s, d)
  <2>1. ASSUME NEW v \in File, s.fate[s.alias[v]].live, ~ Arrives(s, v) PROVE v \in s.renamedOld
    <3>1. v # n
      BY <1>6, <2>1
    <3>2. CASE r.alias[v] = o
      BY <1>7, <3>1, <3>2
    <3>3. CASE r.alias[v] # o
      BY <1>1, <1>8, <2>1, <3>1, <3>3 DEF Tracks
    <3> QED BY <3>2, <3>3
  <2>2. ASSUME NEW v \in File, s.alias[v] # v PROVE s.alias[v] \in s.renamedOld
    <3>1. CASE v = n
      <4>1. s.alias[v] = o
        BY <1>4, <3>1
      <4>2. o = u \/ o \in r.renamedOld
        BY DEF Tracks
      <4> QED BY <1>1, <4>1, <4>2
    <3>2. CASE v # n
      BY <1>1, <1>4, <2>2, <3>2 DEF Tracks
    <3> QED BY <3>1, <3>2
  <2>3. r.created \subseteq File /\ r.clobbered \subseteq File
    BY <1>1 DEF ReplayStates
  <2>4. ASSUME NEW x \in s.created, Read(d, x) # Missing PROVE s.alias[x] = x /\ Arrives(s, x)
    <3>1. x \in File /\ r.alias[x] = x /\ Arrives(r, x) /\ x # u
      BY <1>1, <2>3, <2>4 DEF Tracks
    <3> QED BY <1>9, <3>1
  <2>5. ASSUME NEW x \in s.clobbered PROVE Arrives(s, x)
    <3>1. CASE x = n
      BY <1>6, <3>1
    <3>2. CASE x # n
      <4>1. x \in r.clobbered /\ x \in File /\ Arrives(r, x) /\ x # u
        BY <2>3, <2>5, <3>2 DEF Tracks
      <4> QED BY <1>9, <4>1
    <3> QED BY <3>1, <3>2
  <2> QED BY <2>1, <2>2, <2>4, <2>5 DEF Tracks
<1>11. r.alias[u] = o /\ u # n
  OBVIOUS
<1>12. ASSUME NEW v \in File
       PROVE  Value(s, d, v) = IF v = n THEN Value(r, d, u)
                               ELSE IF v = u THEN Missing ELSE Value(r, d, v)
  <2>1. CASE v = n
    BY <1>6, <2>1
  <2>2. CASE v # n /\ r.alias[v] = o
    BY <1>5, <1>7, <2>2
  <2>3. CASE v # n /\ r.alias[v] # o
    BY <1>8, <2>3
  <2> QED BY <2>1, <2>2, <2>3
<1> QED BY <1>10, <1>12

LEMMA EditsTracks ==
  ASSUME NEW d, IsDisk(d), NEW r, ReplayInv(r, d), Tracks(r, d), NEW s,
         NEW op, IsOperation(op), Edits(r, s, d, op)
  PROVE  /\ Tracks(s, d)
         /\ Value(r, d, op.uri) # Missing
         /\ \A v \in File : Value(s, d, v) = IF v = op.uri THEN Edited(Value(r, d, v)) ELSE Value(r, d, v)
<1>0. PICK u \in File : u = op.uri
  BY DEF IsOperation
<1>1. PICK t \in Texts : t = ContentOf(r, d, u)
  BY TextsRead DEF ReplayInv
<1>2. PICK text \in Texts : text = Edited(t)
  BY EditedText
<1> DEFINE o == r.alias[u]
<1>3. /\ s.alias = r.alias /\ s.created = r.created /\ s.renamedOld = r.renamedOld /\ s.clobbered = r.clobbered
      /\ t # Missing /\ u \notin r.renamedOld
      /\ Settles(r, s, o, Live(IF r.fate[o].live THEN r.fate[o].at ELSE u, text))
      /\ o \in File /\ r \in ReplayStates /\ \A v \in File : r.alias[v] \in File
  BY <1>0, <1>1, <1>2 DEF Edits, ReplayInv, ReplayStates
<1>4. /\ t = Value(r, d, u)
      /\ r.fate[o].live => r.fate[o].at = u
      /\ \A v \in File : v # u /\ r.alias[v] = o => Value(r, d, v) = Missing /\ v \in r.renamedOld /\ r.fate[o].live
  BY <1>1, <1>3, ClearValue
<1>5. Settles(r, s, o, Live(u, text))
  BY <1>3, <1>4
<1>6. \A x \in File : s.fate[x] = IF x = o THEN Live(u, text) ELSE r.fate[x]
  BY <1>3, <1>5, Settled
<1>7. Live(u, text).live /\ Live(u, text).at = u /\ Live(u, text).text = text /\ Live(u, text) # NoFate
  BY Constants
<1>8. Arrives(s, u) /\ Value(s, d, u) = text
  <2>1. s.fate[s.alias[u]] = Live(u, text)
    BY <1>3, <1>6
  <2> QED BY <1>7, <2>1 DEF Arrives, Value
<1>9. ASSUME NEW v \in File, v # u, r.alias[v] = o
      PROVE  ~ Arrives(s, v) /\ Value(s, d, v) = Missing /\ v \in s.renamedOld
  <2>1. s.fate[s.alias[v]] = Live(u, text)
    BY <1>3, <1>6, <1>9
  <2>2. ~ Arrives(s, v)
    BY <1>7, <1>9, <2>1 DEF Arrives
  <2>3. ~ (s.alias[v] = v /\ s.fate[v] = NoFate)
    BY <1>7, <2>1
  <2> QED BY <1>3, <1>4, <1>9, <2>2, <2>3 DEF Value
<1>10. ASSUME NEW v \in File, r.alias[v] # o
       PROVE  /\ s.fate[s.alias[v]] = r.fate[r.alias[v]]
              /\ Arrives(s, v) <=> Arrives(r, v)
              /\ Value(s, d, v) = Value(r, d, v)
  <2>1. s.alias[v] = r.alias[v] /\ s.fate[s.alias[v]] = r.fate[r.alias[v]]
    BY <1>3, <1>6, <1>10
  <2>2. Arrives(s, v) <=> Arrives(r, v)
    BY <2>1 DEF Arrives
  <2>3. r.alias[v] = v => s.fate[v] = r.fate[v]
    BY <1>6, <1>10
  <2> QED BY <2>1, <2>2, <2>3 DEF Value
<1>11. ASSUME NEW v \in File, Arrives(r, v) PROVE Arrives(s, v)
  <2>1. CASE v = u
    BY <1>8, <2>1
  <2>2. CASE v # u
    <3>1. r.alias[v] # o
      BY <1>4, <1>11, <2>2 DEF Arrives
    <3> QED BY <1>10, <1>11, <3>1
  <2> QED BY <2>1, <2>2
<1>12. Tracks(s, d)
  <2>1. ASSUME NEW v \in File, s.fate[s.alias[v]].live, ~ Arrives(s, v) PROVE v \in s.renamedOld
    <3>1. v # u
      BY <1>8, <2>1
    <3>2. CASE r.alias[v] = o
      BY <1>9, <3>1, <3>2
    <3>3. CASE r.alias[v] # o
      BY <1>3, <1>10, <2>1, <3>3 DEF Tracks
    <3> QED BY <3>2, <3>3
  <2>2. \A v \in File : s.alias[v] # v => s.alias[v] \in s.renamedOld
    BY <1>3 DEF Tracks
  <2>3. r.created \subseteq File /\ r.clobbered \subseteq File
    BY <1>3 DEF ReplayStates
  <2>4. \A x \in s.created : Read(d, x) # Missing => s.alias[x] = x /\ Arrives(s, x)
    BY <1>3, <1>11, <2>3 DEF Tracks
  <2>5. \A n \in s.clobbered : Arrives(s, n)
    BY <1>3, <1>11, <2>3 DEF Tracks
  <2> QED BY <2>1, <2>2, <2>4, <2>5 DEF Tracks
<1>13. ASSUME NEW v \in File
       PROVE  Value(s, d, v) = IF v = op.uri THEN Edited(Value(r, d, v)) ELSE Value(r, d, v)
  <2>1. CASE v = u
    BY <1>0, <1>2, <1>4, <1>8, <2>1
  <2>2. CASE v # u /\ r.alias[v] = o
    BY <1>0, <1>4, <1>9, <2>2
  <2>3. CASE v # u /\ r.alias[v] # o
    BY <1>0, <1>10, <2>3
  <2> QED BY <2>1, <2>2, <2>3
<1> QED BY <1>0, <1>3, <1>4, <1>12, <1>13

Memory == [ok : BOOLEAN, disk : [File -> Inode]]

Simulates(r, d, m) ==
  m \in Memory /\ m.ok /\ \A v \in File : Read(m.disk, v) = Value(r, d, v)

PutIn(next, m, u, t)     == next = [m EXCEPT !.disk[u] = Holds(t)]
TakenFrom(next, m, u)    == next = [m EXCEPT !.disk[u] = Absent]
ShiftedIn(next, m, u, n) == next = [m EXCEPT !.disk[n] = m.disk[u], !.disk[u] = Absent]

LEMMA Puts ==
  ASSUME NEW m \in Memory, m.ok, NEW u \in File, NEW t \in Texts, NEW next, PutIn(next, m, u, t)
  PROVE  /\ next \in Memory /\ next.ok
         /\ \A v \in File : Read(next.disk, v) = IF v = u THEN t ELSE Read(m.disk, v)
<1>0. PICK held : held = Holds(t)
  OBVIOUS
<1>1. held \in Inode /\ held = Holds(t) /\ held.text = t
  BY <1>0 DEF Holds, Inode
<1>2. PICK d \in [File -> Inode] : d = m.disk
  BY DEF Memory
<1>3. PICK e : e = [d EXCEPT ![u] = held]
  OBVIOUS
<1>4. e \in [File -> Inode] /\ \A v \in File : e[v] = IF v = u THEN held ELSE d[v]
  BY <1>1, <1>3
<1>5. next = [m EXCEPT !.disk = e]
  BY <1>1, <1>2, <1>3 DEF PutIn
<1>6. next \in Memory /\ next.ok /\ next.disk = e
  BY <1>4, <1>5 DEF Memory
<1> QED BY <1>1, <1>2, <1>4, <1>6 DEF Read

LEMMA AbsentInode == Absent \in Inode /\ Absent.text = Missing
  BY Constants DEF Absent, Inode

LEMMA Takes ==
  ASSUME NEW m \in Memory, m.ok, NEW u \in File, NEW next, TakenFrom(next, m, u)
  PROVE  /\ next \in Memory /\ next.ok
         /\ \A v \in File : Read(next.disk, v) = IF v = u THEN Missing ELSE Read(m.disk, v)
<1>2. PICK d \in [File -> Inode] : d = m.disk
  BY DEF Memory
<1>3. PICK e : e = [d EXCEPT ![u] = Absent]
  OBVIOUS
<1>4. e \in [File -> Inode] /\ \A v \in File : e[v] = IF v = u THEN Absent ELSE d[v]
  BY <1>3, AbsentInode
<1>5. next = [m EXCEPT !.disk = e]
  BY <1>2, <1>3 DEF TakenFrom
<1>6. next \in Memory /\ next.ok /\ next.disk = e
  BY <1>4, <1>5 DEF Memory
<1> QED BY <1>2, <1>4, <1>6, AbsentInode DEF Read

LEMMA Shifts ==
  ASSUME NEW m \in Memory, m.ok, NEW u \in File, NEW n \in File, u # n, NEW next,
         ShiftedIn(next, m, u, n)
  PROVE  /\ next \in Memory /\ next.ok
         /\ \A v \in File : Read(next.disk, v) = IF v = n THEN Read(m.disk, u)
                                                 ELSE IF v = u THEN Missing ELSE Read(m.disk, v)
<1>2. PICK d \in [File -> Inode] : d = m.disk
  BY DEF Memory
<1>3. PICK e : e = [[d EXCEPT ![n] = d[u]] EXCEPT ![u] = Absent]
  OBVIOUS
<1>4. e \in [File -> Inode] /\ \A v \in File : e[v] = IF v = u THEN Absent ELSE IF v = n THEN d[u] ELSE d[v]
  BY <1>3, AbsentInode
<1>5. next = [m EXCEPT !.disk = e]
  BY <1>2, <1>3 DEF ShiftedIn
<1>6. next \in Memory /\ next.ok /\ next.disk = e
  BY <1>4, <1>5 DEF Memory
<1> QED BY <1>2, <1>4, <1>6, AbsentInode DEF Read

LEMMA SkipMeans ==
  ASSUME NEW d, IsDisk(d), NEW r, ReplayInv(r, d), Tracks(r, d), NEW op, IsOperation(op), Clear(r, d, op),
         Skips(r, d, op), NEW m, Simulates(r, d, m)
  PROVE  Meaning(m, op) = m
<1>1. op.uri \in File /\ op.to \in File /\ op.ignore /\ op.uri \notin r.renamedOld
  BY DEF IsOperation, Clear, Skips
<1>2. /\ m.ok /\ \A v \in File : Read(m.disk, v) = Value(r, d, v)
  BY DEF Simulates
<1>3. CASE op.kind = "create" /\ ~ op.overwrite /\ LiveOccupied(r, d, op.uri)
  <2>1. Read(m.disk, op.uri) # Missing
    BY <1>1, <1>2, <1>3, ClearValue
  <2> QED BY <1>1, <1>2, <1>3, <2>1 DEF Meaning
<1>4. CASE op.kind = "delete" /\ ContentOf(r, d, op.uri) = Missing
  <2>1. Read(m.disk, op.uri) = Missing
    BY <1>1, <1>2, <1>4, ClearValue
  <2> QED BY <1>1, <1>2, <1>4, <2>1 DEF Meaning
<1>5. CASE /\ op.kind = "rename" /\ ContentOf(r, d, op.uri) # Missing
           /\ op.to \notin r.renamedOld
           /\ ~ op.overwrite /\ LiveOccupied(r, d, op.to)
  <2>1. Read(m.disk, op.uri) # Missing /\ Read(m.disk, op.to) # Missing
    BY <1>1, <1>2, <1>5, ClearValue
  <2> QED BY <1>1, <1>2, <1>5, <2>1 DEF Meaning
<1> QED BY <1>3, <1>4, <1>5 DEF Skips

\* A clear operation leaves the paths where the replay looks for them.
LEMMA StepTracks ==
  ASSUME NEW d, IsDisk(d), NEW r, ReplayInv(r, d), Tracks(r, d), NEW s,
         NEW op, IsOperation(op), Clear(r, d, op), Does(r, s, d, op)
  PROVE  Tracks(s, d)
<1>0. PICK u \in File, n \in File : u = op.uri /\ n = op.to
  BY DEF IsOperation
<1>1. /\ u \notin r.renamedOld
      /\ op.kind \in {"delete", "rename"} => u \notin r.clobbered /\ (u \in r.created => Read(d, u) = Missing)
  BY <1>0 DEF Clear
<1>4. CASE s = r /\ Skips(r, d, op)
  BY <1>4
<1>5. CASE op.kind = "create" /\ (Creates(r, s, d, u) \/ (op.overwrite /\ Replaces(r, s, d, u)))
  <2>1. /\ Settles(r, s, u, Live(u, Blank)) /\ r.alias[u] = u
        /\ s.alias = r.alias /\ s.renamedOld = r.renamedOld /\ s.clobbered = r.clobbered
        /\ s.created \in {r.created, r.created \cup {u}}
    BY <1>5 DEF Creates, Replaces
  <2> QED BY <1>1, <2>1, CreatesTracks
<1>6. CASE op.kind = "delete" /\ Removes(r, s, d, u)
  BY <1>1, <1>6, RemovesTracks
<1>7. CASE op.kind = "rename" /\ (RenamesFreely(r, s, d, u, n) \/ (op.overwrite /\ RenamesOver(r, s, d, u, n)))
  <2>1. u # n
    BY <1>0, <1>7 DEF IsOperation
  <2>2. /\ Renames(r, s, d, u, n) /\ ~ r.fate[n].live
        /\ s.clobbered \in {r.clobbered, r.clobbered \cup {n}}
    <3>1. CASE RenamesFreely(r, s, d, u, n)
      <4>1. r.alias[n] = n /\ ~ LiveOccupied(r, d, n) /\ r \in ReplayStates
        BY <3>1 DEF RenamesFreely, Renames, ReplayInv
      <4>2. ~ r.fate[n].live
        BY <4>1, TextsRead, Constants
      <4> QED BY <3>1, <4>2 DEF RenamesFreely
    <3>2. CASE RenamesOver(r, s, d, u, n)
      BY <3>2 DEF RenamesOver
    <3> QED BY <1>7, <3>1, <3>2
  <2> QED BY <1>1, <1>7, <2>1, <2>2, RenamesTracks
<1>8. CASE op.kind = "edit" /\ Edits(r, s, d, op)
  BY <1>0, <1>8, EditsTracks
<1> QED BY <1>0, <1>4, <1>5, <1>6, <1>7, <1>8 DEF Does

\* Of a clear operation that awaits no confirmation, what the replay does is
\* what it means.
LEMMA StepMeans ==
  ASSUME NEW d, IsDisk(d), NEW r, ReplayInv(r, d), Tracks(r, d), NEW s,
         NEW op, IsOperation(op), Clear(r, d, op), Does(r, s, d, op), NEW m, Simulates(r, d, m),
         op.site # "confirm"
  PROVE  Simulates(s, d, Meaning(m, op))
<1>0. PICK u \in File, n \in File : u = op.uri /\ n = op.to
  BY DEF IsOperation
<1>1. /\ u \notin r.renamedOld /\ m \in Memory /\ m.ok /\ \A v \in File : Read(m.disk, v) = Value(r, d, v)
      /\ op.kind \in {"delete", "rename"} => u \notin r.clobbered /\ (u \in r.created => Read(d, u) = Missing)
  BY <1>0 DEF Clear, Simulates
<1>2. PICK next : next = Meaning(m, op)
  OBVIOUS
<1>3. /\ ContentOf(r, d, u) = Value(r, d, u)
      /\ LiveOccupied(r, d, u) <=> Value(r, d, u) # Missing
  BY <1>1, ClearValue
<1>4. CASE s = r /\ Skips(r, d, op)
  BY <1>4, SkipMeans
<1>5. CASE op.kind = "create" /\ (Creates(r, s, d, u) \/ (op.overwrite /\ Replaces(r, s, d, u)))
  <2>1. Tracks(s, d) /\ \A v \in File : Value(s, d, v) = IF v = u THEN Blank ELSE Value(r, d, v)
    <3>1. /\ Settles(r, s, u, Live(u, Blank)) /\ r.alias[u] = u
          /\ s.alias = r.alias /\ s.renamedOld = r.renamedOld /\ s.clobbered = r.clobbered
          /\ s.created \in {r.created, r.created \cup {u}}
      BY <1>5 DEF Creates, Replaces
    <3> QED BY <1>1, <3>1, CreatesTracks
  <2>2. Read(m.disk, u) = Missing \/ op.overwrite
    BY <1>1, <1>3, <1>5 DEF Creates
  <2>3. PutIn(next, m, u, Blank)
    BY <1>0, <1>1, <1>2, <1>5, <2>2 DEF Meaning, PutIn, TakenFrom, ShiftedIn
  <2>4. /\ next \in Memory /\ next.ok
        /\ \A v \in File : Read(next.disk, v) = IF v = u THEN Blank ELSE Read(m.disk, v)
    BY <1>1, <2>3, Puts, Constants
  <2> QED BY <1>1, <1>2, <2>1, <2>4 DEF Simulates
<1>6. CASE op.kind = "delete" /\ Removes(r, s, d, u)
  <2>1. Tracks(s, d) /\ \A v \in File : Value(s, d, v) = IF v = u THEN Missing ELSE Value(r, d, v)
    BY <1>1, <1>6, RemovesTracks
  <2>2. Read(m.disk, u) # Missing
    BY <1>1, <1>3, <1>6 DEF Removes
  <2>3. TakenFrom(next, m, u)
    BY <1>0, <1>1, <1>2, <1>6, <2>2 DEF Meaning, PutIn, TakenFrom, ShiftedIn
  <2>4. /\ next \in Memory /\ next.ok
        /\ \A v \in File : Read(next.disk, v) = IF v = u THEN Missing ELSE Read(m.disk, v)
    BY <1>1, <2>3, Takes
  <2> QED BY <1>1, <1>2, <2>1, <2>4 DEF Simulates
<1>7. CASE op.kind = "rename" /\ (RenamesFreely(r, s, d, u, n) \/ (op.overwrite /\ RenamesOver(r, s, d, u, n)))
  <2>1. u # n
    BY <1>0, <1>7 DEF IsOperation
  <2>2. /\ Renames(r, s, d, u, n) /\ ~ r.fate[n].live
        /\ s.clobbered \in {r.clobbered, r.clobbered \cup {n}}
    <3>1. CASE RenamesFreely(r, s, d, u, n)
      <4>1. r.alias[n] = n /\ ~ LiveOccupied(r, d, n) /\ r \in ReplayStates
        BY <3>1 DEF RenamesFreely, Renames, ReplayInv
      <4>2. ~ r.fate[n].live
        BY <4>1, TextsRead, Constants
      <4> QED BY <3>1, <4>2 DEF RenamesFreely
    <3>2. CASE RenamesOver(r, s, d, u, n)
      BY <3>2 DEF RenamesOver
    <3> QED BY <1>7, <3>1, <3>2
  <2>3. /\ Tracks(s, d)
        /\ \A v \in File : Value(s, d, v) = IF v = n THEN Value(r, d, u)
                                            ELSE IF v = u THEN Missing ELSE Value(r, d, v)
    BY <1>1, <1>7, <2>1, <2>2, RenamesTracks
  <2>4. Read(m.disk, u) # Missing
    BY <1>1, <1>3, <2>2 DEF Renames
  <2>5. Read(m.disk, n) = Missing \/ op.overwrite
    <3>1. CASE RenamesFreely(r, s, d, u, n)
      <4>1. n \notin r.renamedOld /\ ~ LiveOccupied(r, d, n)
        BY <3>1 DEF RenamesFreely, Renames
      <4> QED BY <1>1, <4>1, ClearValue
    <3> QED BY <1>7, <3>1
  <2>6. ShiftedIn(next, m, u, n)
    BY <1>0, <1>1, <1>2, <1>7, <2>4, <2>5 DEF Meaning, PutIn, TakenFrom, ShiftedIn
  <2>7. /\ next \in Memory /\ next.ok
        /\ \A v \in File : Read(next.disk, v) = IF v = n THEN Read(m.disk, u)
                                                ELSE IF v = u THEN Missing ELSE Read(m.disk, v)
    BY <1>1, <2>1, <2>6, Shifts
  <2> QED BY <1>1, <1>2, <2>3, <2>7 DEF Simulates
<1>8. CASE op.kind = "edit" /\ Edits(r, s, d, op)
  <2>1. /\ Tracks(s, d)
        /\ Value(r, d, u) # Missing
        /\ \A v \in File : Value(s, d, v) = IF v = u THEN Edited(Value(r, d, v)) ELSE Value(r, d, v)
    BY <1>0, <1>8, EditsTracks
  <2>2. PICK t \in Texts : t = Value(r, d, u) /\ t = Read(m.disk, u)
    BY <1>1, <1>3, TextsRead DEF ReplayInv
  <2>3. PICK text \in Texts : text = Edited(t)
    BY EditedText
  <2>4. PutIn(next, m, u, text)
    BY <1>0, <1>1, <1>2, <1>8, <2>1, <2>2, <2>3 DEF Meaning, PutIn, TakenFrom, ShiftedIn
  <2>5. /\ next \in Memory /\ next.ok
        /\ \A v \in File : Read(next.disk, v) = IF v = u THEN text ELSE Read(m.disk, v)
    BY <1>1, <2>4, Puts
  <2> QED BY <1>1, <1>2, <2>1, <2>2, <2>3, <2>5 DEF Simulates
<1> QED BY <1>0, <1>4, <1>5, <1>6, <1>7, <1>8 DEF Does

\* The first i operations account for what the replay remembers of them.
RenamedBy(ops, i, u)  == \E j \in 1 .. i : ops[j].kind = "rename" /\ ops[j].uri = u
DeletedBy(ops, i, u)  == \E j \in 1 .. i : ops[j].kind = "delete" /\ ops[j].uri = u
RevivedBy(ops, i, u)  ==
  \E j, k \in 1 .. i : /\ j < k
                       /\ ops[j].kind = "delete" /\ ops[k].kind = "create"
                       /\ ops[j].uri = u /\ ops[k].uri = u
ReplacedBy(ops, i, u) ==
  \E j \in 1 .. i : ops[j].kind = "rename" /\ ops[j].overwrite /\ ops[j].to = u

Witnessed(r, d, ops, i) ==
  /\ \A u \in r.renamedOld : RenamedBy(ops, i, u)
  /\ \A o \in File : r.fate[o] = Deleted /\ o \notin r.renamedOld => DeletedBy(ops, i, o)
  /\ \A o \in r.created : Read(d, o) # Missing => RevivedBy(ops, i, o)
  /\ \A n \in r.clobbered : ReplacedBy(ops, i, n)

LEMMA StraightClears ==
  ASSUME NEW d, NEW r, NEW ops, Len(ops) \in Nat, DOMAIN ops = 1 .. Len(ops), Straight(ops),
         NEW i \in 1 .. Len(ops), Witnessed(r, d, ops, i - 1)
  PROVE  Clear(r, d, ops[i])
<1>1. /\ ~ Vacated(ops, i)
      /\ ops[i].kind \in {"delete", "rename"} => ~ Revived(ops, i) /\ ~ Overwritten(ops, i)
  BY DEF Straight
<1>2. /\ RenamedBy(ops, i - 1, ops[i].uri) => Vacated(ops, i)
      /\ RevivedBy(ops, i - 1, ops[i].uri) => Revived(ops, i)
      /\ ReplacedBy(ops, i - 1, ops[i].uri) => Overwritten(ops, i)
  BY DEF RenamedBy, Vacated, RevivedBy, Revived, ReplacedBy, Overwritten
<1> QED BY <1>1, <1>2 DEF Witnessed, Clear

LEMMA WitnessedMore ==
  ASSUME NEW d, NEW r, NEW ops, NEW i \in Nat, i > 0, Witnessed(r, d, ops, i - 1)
  PROVE  Witnessed(r, d, ops, i)
<1>1. \A u : /\ RenamedBy(ops, i - 1, u) => RenamedBy(ops, i, u)
             /\ DeletedBy(ops, i - 1, u) => DeletedBy(ops, i, u)
             /\ RevivedBy(ops, i - 1, u) => RevivedBy(ops, i, u)
             /\ ReplacedBy(ops, i - 1, u) => ReplacedBy(ops, i, u)
  <2>1. 1 .. i - 1 \subseteq 1 .. i
    OBVIOUS
  <2> QED BY <2>1 DEF RenamedBy, DeletedBy, RevivedBy, ReplacedBy
<1> QED BY <1>1 DEF Witnessed

LEMMA StaysWitnessed ==
  ASSUME NEW d, IsDisk(d), NEW r, ReplayInv(r, d), Tracks(r, d), NEW s,
         NEW ops, NEW i \in Nat, i > 0, IsOperation(ops[i]), Clear(r, d, ops[i]),
         Does(r, s, d, ops[i]), Witnessed(r, d, ops, i - 1)
  PROVE  Witnessed(s, d, ops, i)
<1>9. PICK op : op = ops[i]
  OBVIOUS
<1>10. IsOperation(op)
  BY <1>9
<1>11. PICK u \in File, n \in File : u = op.uri /\ n = op.to
  BY <1>10 DEF IsOperation
<1>0. op = ops[i] /\ u = op.uri /\ n = op.to
  BY <1>9, <1>11
<1>1. Witnessed(r, d, ops, i) /\ i \in 1 .. i
  BY WitnessedMore
<1>2. r \in ReplayStates /\ u \notin r.renamedOld /\ r.alias[u] \in File
      /\ (r.alias[u] # u => r.alias[u] \in r.renamedOld)
      /\ \A t \in Texts : \A x \in File : Live(x, t) # Deleted
  BY <1>0, Constants DEF ReplayInv, Clear, Tracks, ReplayStates
<1>4. CASE s = r /\ Skips(r, d, op)
  BY <1>1, <1>4
<1>5. CASE op.kind = "create" /\ (Creates(r, s, d, u) \/ (op.overwrite /\ Replaces(r, s, d, u)))
  <2>1. /\ Settles(r, s, u, Live(u, Blank)) /\ r.alias[u] = u
        /\ s.renamedOld = r.renamedOld /\ s.clobbered = r.clobbered
        /\ s.created = r.created \/ (s.created = r.created \cup {u} /\ ~ LiveOccupied(r, d, u))
    BY <1>5 DEF Creates, Replaces
  <2>2. \A x \in File : s.fate[x] = IF x = u THEN Live(u, Blank) ELSE r.fate[x]
    BY <1>2, <2>1, Settled
  <2>3. \A x \in File : s.fate[x] = Deleted => r.fate[x] = Deleted
    BY <1>2, <2>2, Constants
  <2>4. ASSUME ~ LiveOccupied(r, d, u), Read(d, u) # Missing
        PROVE  RevivedBy(ops, i, u)
    <3>1. r.fate[u] # NoFate /\ ~ r.fate[u].live
      BY <1>2, <2>1, <2>4, TextsRead
    <3>2. r.fate[u] = Deleted
      BY <3>1 DEF ReplayInv, Lifeless
    <3>3. DeletedBy(ops, i - 1, u)
      BY <1>2, <3>2 DEF Witnessed
    <3>4. PICK j \in 1 .. i - 1 : ops[j].kind = "delete" /\ ops[j].uri = u
      BY <3>3 DEF DeletedBy
    <3>5. j \in 1 .. i /\ j < i
      BY <3>4
    <3> QED BY <1>0, <1>1, <1>5, <3>4, <3>5 DEF RevivedBy
  <2> QED BY <1>1, <2>1, <2>3, <2>4 DEF Witnessed
<1>6. CASE op.kind = "delete" /\ Removes(r, s, d, u)
  <2>1. /\ Settles(r, s, r.alias[u], Deleted)
        /\ s.renamedOld = r.renamedOld /\ s.clobbered = r.clobbered /\ s.created = r.created
    BY <1>6 DEF Removes
  <2>2. \A x \in File : s.fate[x] = IF x = r.alias[u] THEN Deleted ELSE r.fate[x]
    BY <1>2, <2>1, Settled
  <2>3. DeletedBy(ops, i, u)
    BY <1>0, <1>1, <1>6 DEF DeletedBy
  <2>4. ASSUME NEW x \in File, s.fate[x] = Deleted, x \notin s.renamedOld
        PROVE  DeletedBy(ops, i, x)
    <3>1. CASE x = r.alias[u]
      BY <1>2, <2>1, <2>3, <2>4, <3>1
    <3>2. CASE x # r.alias[u]
      BY <1>1, <2>1, <2>2, <2>4, <3>2 DEF Witnessed
    <3> QED BY <3>1, <3>2
  <2> QED BY <1>1, <2>1, <2>4 DEF Witnessed
<1>7. CASE op.kind = "rename" /\ (RenamesFreely(r, s, d, u, n) \/ (op.overwrite /\ RenamesOver(r, s, d, u, n)))
  <2>1. /\ Settles(r, s, r.alias[u], Live(n, ContentOf(r, d, u)))
        /\ s.renamedOld = r.renamedOld \cup {u} /\ s.created = r.created
        /\ s.clobbered = r.clobbered \/ (op.overwrite /\ s.clobbered = r.clobbered \cup {n})
    BY <1>7 DEF RenamesFreely, RenamesOver, Renames
  <2>2. \A x \in File : s.fate[x] = IF x = r.alias[u] THEN Live(n, ContentOf(r, d, u)) ELSE r.fate[x]
    BY <1>2, <2>1, Settled
  <2>3. \A x \in File : s.fate[x] = Deleted => r.fate[x] = Deleted
    BY <1>2, <2>2, TextsRead
  <2>4. RenamedBy(ops, i, u) /\ (op.overwrite => ReplacedBy(ops, i, n))
    BY <1>0, <1>1, <1>7 DEF RenamedBy, ReplacedBy
  <2> QED BY <1>1, <2>1, <2>3, <2>4 DEF Witnessed
<1>8. CASE op.kind = "edit" /\ Edits(r, s, d, op)
  <2>1. PICK at : /\ Settles(r, s, r.alias[u], Live(at, Edited(ContentOf(r, d, u))))
                  /\ s.renamedOld = r.renamedOld /\ s.clobbered = r.clobbered /\ s.created = r.created
    BY <1>0, <1>8 DEF Edits
  <2>2. \A x \in File : s.fate[x] = IF x = r.alias[u] THEN Live(at, Edited(ContentOf(r, d, u))) ELSE r.fate[x]
    BY <1>2, <2>1, Settled
  <2>3. Live(at, Edited(ContentOf(r, d, u))) # Deleted
    <3>1. Live(at, Edited(ContentOf(r, d, u))).live
      BY DEF Live
    <3> QED BY <3>1, Constants
  <2>4. \A x \in File : s.fate[x] = Deleted => r.fate[x] = Deleted
    BY <2>2, <2>3
  <2> QED BY <1>1, <2>1, <2>4 DEF Witnessed
<1> QED BY <1>0, <1>4, <1>5, <1>6, <1>7, <1>8 DEF Does

\* The replay of a straight batch follows its meaning, operation by operation,
\* if none of its edits awaits confirmation.
LEMMA StraightBatch ==
  ASSUME NEW d, IsDisk(d), NEW ops, IsBatch(ops), DOMAIN ops = 1 .. Len(ops), Straight(ops),
         Accepted(Replay(d, ops))
  PROVE  /\ Tracks(Replay(d, ops), d)
         /\ AsksNothing(ops) => Simulates(Replay(d, ops), d, InOrder(d, ops))
<1>1. PICK n \in Nat : n = Len(ops)
  BY DEF IsBatch
<1>2. PICK rs : rs = Replays(d, ops)
  OBVIOUS
<1>3. PICK ms : ms = Meanings(d, ops)
  OBVIOUS
<1>4. /\ rs[0] = Untouched
      /\ \A i \in 0 .. n : ReplayInv(rs[i], d) /\ Accepted(rs[i])
      /\ \A i \in 1 .. n : Does(rs[i - 1], rs[i], d, ops[i])
  BY <1>1, <1>2, BatchDoes
<1>5. ms[0] = AtFirst(d) /\ \A i \in 1 .. n : ms[i] = Meaning(ms[i - 1], ops[i])
  BY <1>1, <1>3, MeaningsEquation
<1> DEFINE Good == {i \in 0 .. n : /\ Tracks(rs[i], d)
                                   /\ Witnessed(rs[i], d, ops, i)
                                   /\ AsksNothing(ops) => Simulates(rs[i], d, ms[i])}
<1>6. 0 \in Good
  <2>1. /\ ReplayInv(Untouched, d)
        /\ \A u \in File : Untouched.alias[u] = u /\ Untouched.fate[u] = NoFate
        /\ Untouched.created = {} /\ Untouched.clobbered = {} /\ Untouched.renamedOld = {}
    BY UntouchedHolds
  <2>2. Tracks(Untouched, d)
    BY <2>1, Constants DEF Tracks
  <2>3. Witnessed(Untouched, d, ops, 0)
    BY <2>1, Constants DEF Witnessed
  <2>4. \A v \in File : Value(Untouched, d, v) = Read(d, v)
    BY <2>1, Constants DEF Value, Arrives
  <2>5. d \in [File -> Inode]
    BY DEF IsDisk, Inode
  <2>6. AtFirst(d) \in Memory /\ AtFirst(d).ok /\ AtFirst(d).disk = d
    BY <2>5 DEF AtFirst, Memory
  <2>7. Simulates(Untouched, d, AtFirst(d))
    BY <2>4, <2>6 DEF Simulates
  <2> QED BY <1>1, <1>4, <1>5, <2>2, <2>3, <2>7
<1>7. ASSUME NEW i \in 1 .. n, i - 1 \in Good
      PROVE  i \in Good
  <2>1. PICK k \in 0 .. n : k = i - 1
    BY <1>1
  <2>2. /\ Tracks(rs[k], d) /\ Witnessed(rs[k], d, ops, i - 1)
        /\ AsksNothing(ops) => Simulates(rs[k], d, ms[k]) /\ ops[i].site # "confirm"
        /\ ReplayInv(rs[k], d) /\ Does(rs[k], rs[i], d, ops[i]) /\ ms[i] = Meaning(ms[k], ops[i])
        /\ IsOperation(ops[i]) /\ i \in Nat /\ i > 0
    BY <1>1, <1>4, <1>5, <1>7, <2>1 DEF IsBatch, AsksNothing
  <2>3. Clear(rs[k], d, ops[i])
    BY <1>1, <2>2, StraightClears
  <2>4. Witnessed(rs[i], d, ops, i)
    BY <2>2, <2>3, StaysWitnessed
  <2>5. Tracks(rs[i], d)
    BY <2>2, <2>3, StepTracks
  <2>6. AsksNothing(ops) => Simulates(rs[i], d, ms[i])
    BY <2>2, <2>3, StepMeans
  <2> QED BY <2>4, <2>5, <2>6
<1>8. n \in Good
  <2> HIDE DEF Good
  <2>1. \A i \in 0 .. n : i \in Good
    BY <1>6, <1>7, UpTo
  <2> QED BY <2>1
<1> QED BY <1>1, <1>2, <1>3, <1>8 DEF Replay, InOrder

\* What the whole plan leaves on the disk.
LEMMA WholePlan ==
  ASSUME NEW d, IsDisk(d), NEW r, ReplayInv(r, d), Tracks(r, d), NEW plan, Planned(r, d, plan), Parted(r),
         NEW n, n = Len(plan), NEW S, Stands(r, d, plan, n, S), NEW v \in File
  PROVE  Read(S, v) = Value(r, d, v)
<1> DEFINE o == r.alias[v]
<1>1. n \in 0 .. Len(plan) /\ o \in File /\ r \in ReplayStates
  BY DEF Planned, ReplayInv, ReplayStates
<1>2. \A x \in File : \A op : Needs(r, d, x, op) => \E k \in 1 .. n : plan[k] = op
  BY DEF Planned
<1>3. S[v] = Standing(r, d, plan, n, v)
  BY DEF Stands
<1>4. \A t : Holds(t).text = t
  BY DEF Holds
<1>5. CASE Arrives(r, v)
  <2>1. ~ Landed(plan, n, "delete", v) /\ ~ Left(plan, n, v)
    BY <1>1, <1>5, Marks
  <2>2. Landed(plan, n, "write", v) => Read(S, v) = r.fate[o].text
    BY <1>3, <1>4 DEF Standing, Read
  <2>3. Value(r, d, v) = r.fate[o].text
    BY <1>5 DEF Value
  <2>4. CASE Changed(r, d, o) \/ (o # v /\ o \in r.created)
    <3>1. PICK rows : Needs(r, d, o, Write(v, r.fate[o].text, rows))
      BY <1>5, <2>4 DEF Needs, Displaced, Arrives
    <3>2. PICK k \in 1 .. n : plan[k] = Write(v, r.fate[o].text, rows)
      BY <1>1, <1>2, <3>1
    <3>3. Landed(plan, n, "write", v)
      BY <3>2, OpKinds DEF Landed
    <3> QED BY <2>2, <2>3, <3>3
  <2>5. CASE ~ Changed(r, d, o) /\ o = v
    <3>1. r.fate[o].text = Read(d, v)
      BY <2>5 DEF Changed
    <3>2. ~ Landed(plan, n, "rename", v)
      BY <1>1, <2>5, Marks
    <3>3. ~ Landed(plan, n, "write", v) => Read(S, v) = Read(d, v)
      BY <1>3, <2>1, <3>2 DEF Standing, Read
    <3> QED BY <2>2, <2>3, <3>1, <3>3
  <2>6. CASE ~ Changed(r, d, o) /\ o # v /\ o \notin r.created
    <3>1. r.fate[o].text = Read(d, o)
      BY <2>6 DEF Changed
    <3>2. Needs(r, d, o, MoveOf(r, d, o)) /\ r.fate[o].at = v
      BY <1>5, <2>6 DEF Needs, Displaced, Arrives
    <3>3. PICK k \in 1 .. n : plan[k] = MoveOf(r, d, o)
      BY <1>1, <1>2, <3>2
    <3>4. Landed(plan, n, "rename", v)
      BY <3>2, <3>3, OpKinds DEF Landed, MoveOf
    <3>5. ~ Landed(plan, n, "write", v) => Read(S, v) = Read(d, o)
      BY <1>3, <3>4 DEF Standing, Read
    <3> QED BY <2>2, <2>3, <3>1, <3>5
  <2> QED BY <2>4, <2>5, <2>6
<1>6. CASE ~ Arrives(r, v)
  <2>1. ~ Landed(plan, n, "write", v) /\ ~ Landed(plan, n, "rename", v)
    BY <1>1, <1>6, Marks
  <2>2. Read(S, v) = IF Landed(plan, n, "delete", v) \/ Left(plan, n, v) THEN Missing ELSE Read(d, v)
    BY <1>3, <2>1, AbsentInode DEF Standing, Read
  <2>3. CASE r.alias[v] = v /\ r.fate[v] = NoFate
    <3>1. Value(r, d, v) = Read(d, v)
      BY <1>6, <2>3 DEF Value
    <3>2. v \notin Doomed(r) /\ ~ Displaced(r, v)
      BY <2>3, Constants DEF Doomed, Displaced
    <3>3. ~ Landed(plan, n, "delete", v) /\ ~ Left(plan, n, v)
      BY <1>1, <3>2, Marks
    <3> QED BY <2>2, <3>1, <3>3
  <2>4. CASE ~ (r.alias[v] = v /\ r.fate[v] = NoFate)
    <3>1. Value(r, d, v) = Missing
      BY <1>6, <2>4 DEF Value
    <3>2. CASE v \in Doomed(r)
      <4>1. PICK op : op = Unlink(v, {Row({v}, Read(d, v), Missing)})
        OBVIOUS
      <4>2. Needs(r, d, v, op)
        BY <3>2, <4>1 DEF Needs
      <4>3. PICK k \in 1 .. n : plan[k] = op
        BY <1>2, <4>2
      <4>4. Landed(plan, n, "delete", v)
        BY <4>1, <4>3, OpKinds DEF Landed
      <4> QED BY <2>2, <3>1, <4>4
    <3>3. CASE Displaced(r, v) /\ v \notin r.created
      <4>1. Needs(r, d, v, MoveOf(r, d, v))
        BY <3>3 DEF Needs
      <4>2. PICK k \in 1 .. n : plan[k] = MoveOf(r, d, v)
        BY <1>2, <4>1
      <4>3. Left(plan, n, v)
        BY <4>2, OpKinds DEF Left, MoveOf
      <4> QED BY <2>2, <3>1, <4>3
    <3>4. CASE v \in r.created
      <4>1. Read(d, v) = Missing
        BY <1>6, <3>4 DEF Tracks
      <4> QED BY <2>2, <3>1, <4>1
    <3>5. CASE v \notin Doomed(r) /\ ~ Displaced(r, v) /\ v \notin r.created
      <4>1. r.fate[v] # Deleted
        BY <3>5 DEF Doomed
      <4>2. CASE r.alias[v] = v
        <5>1. r.fate[v].live
          BY <2>4, <4>1, <4>2 DEF ReplayInv, Lifeless
        <5> QED BY <1>6, <3>5, <4>2, <5>1 DEF Arrives, Displaced
      <4>3. CASE r.alias[v] # v
        <5>1. Read(d, v) = Missing \/ v \in r.clobbered
          BY <4>1, <4>3 DEF ReplayInv, Freed
        <5>2. Read(d, v) = Missing
          BY <1>6, <5>1 DEF Tracks
        <5> QED BY <2>2, <3>1, <5>2
      <4> QED BY <4>2, <4>3
    <3> QED BY <3>2, <3>3, <3>4, <3>5
  <2> QED BY <2>3, <2>4
<1> QED BY <1>5, <1>6

\* Of every straight batch that applies completely and of which no edit awaits
\* confirmation, the disk ends as its operations, one after the other, would
\* leave it.
THEOREM StraightBatchesMeanWhatTheyDo == Spec => []StraightAppliedInOrder
<1>1. RenameInv => StraightAppliedInOrder
  <2> SUFFICES ASSUME RenameInv, Completed, AsksNothing(edit), Straight(edit) PROVE ReplayedInOrder
    BY DEF StraightAppliedInOrder
  <2>1. PICK n \in Nat : \E ds : AppliedTo(ds, base, n)
    BY DEF RenameInv, Completed, Unapplied
  <2>2. PICK r, plan : Performed(r, plan, n)
    BY <2>1, AppliedPerformed
  <2>3. IsBatch(edit)
    BY <2>1, AppliedPerformed
  <2>4. IsDisk(base) /\ DOMAIN edit = 1 .. Len(edit)
    BY DEF RenameInv
  <2>5. /\ r = Replay(base, edit) /\ ReplayInv(r, base) /\ Accepted(Replay(base, edit))
        /\ Planned(r, base, plan) /\ Parted(r)
        /\ n \in 0 .. Len(plan) /\ Len(plan) \in Nat /\ Stands(r, base, plan, n, disk)
        /\ result = Applied(r, plan, n)
    BY <2>2 DEF Performed, Planned
  <2>6. n = Len(plan)
    <3>1. ~ (n < Len(plan))
      BY <2>5, AppliedFields DEF Completed
    <3> QED BY <2>5, <3>1
  <2>7. Tracks(r, base) /\ Simulates(r, base, InOrder(base, edit))
    BY <2>3, <2>4, <2>5, StraightBatch
  <2>8. \A v \in File : Read(disk, v) = Value(r, base, v)
    BY <2>4, <2>5, <2>6, <2>7, WholePlan
  <2> QED BY <2>7, <2>8 DEF Simulates, ReplayedInOrder
<1> QED BY <1>1, ReportsWhatItDid, PTL

-----------------------------------------------------------------------------
(* The buffers follow the disk.                                            *)

\* A document of which client and server agree whether it is open.
Neat(doc) ==
  /\ doc \in Documents
  /\ ~ doc.confused
  /\ doc.open <=> doc.buffer.open
  /\ doc.open => doc.version = doc.buffer.version
  /\ ~ doc.open => doc.cached = None

\* And has the text of a file that is not what it was.
Follows(doc, S, d, u) ==
  Neat(doc) /\ (doc.open /\ S[u] # d[u] => doc.buffer.text = Read(S, u))

Others(es, fs, P) == \A v \in File : v \notin P => fs[v] = es[v]

LEMMA AppliesEdited ==
  ASSUME NEW es \in [File -> Documents], NEW u \in File, Neat(es[u]), NEW text \in Texts,
         NEW fs, fs = ApplyEdited(es, u, text)
  PROVE  /\ fs \in [File -> Documents] /\ Others(es, fs, {u}) /\ Neat(fs[u])
         /\ fs[u].open => fs[u].buffer.text = text
<1>1. CASE ~ es[u].open
  BY <1>1 DEF ApplyEdited, Others
<1>2. CASE es[u].open
  <2>1. PICK changed : changed = DidChange([es[u] EXCEPT !.version = es[u].version + 1], es[u].version + 1, text)
    OBVIOUS
  <2>2. es[u] \in Documents /\ es[u].buffer.open /\ es[u].version = es[u].buffer.version /\ ~ es[u].confused
    BY <1>2 DEF Neat
  <2>3. /\ changed \in Documents /\ changed.open /\ changed.buffer.open
        /\ changed.version = changed.buffer.version /\ changed.buffer.text = text
        /\ ~ changed.confused
    BY <1>2, <2>1, <2>2, Changes
  <2>4. fs = [es EXCEPT ![u] = changed]
    BY <1>2, <2>1 DEF ApplyEdited
  <2>5. fs \in [File -> Documents] /\ \A v \in File : fs[v] = IF v = u THEN changed ELSE es[v]
    BY <2>3, <2>4
  <2> QED BY <2>3, <2>5 DEF Neat, Others
<1> QED BY <1>1, <1>2

LEMMA EvictsNeatly ==
  ASSUME NEW doc \in Documents, ~ doc.confused
  PROVE  Neat(Evict(doc)) /\ ~ Evict(doc).open
<1>1. PICK gone : gone = Evict(doc)
  OBVIOUS
<1>2. gone \in Documents /\ ~ gone.open /\ ~ gone.buffer.open /\ gone.cached = None /\ ~ gone.confused
  BY <1>1, Evicts
<1>3. Neat(gone)
  BY <1>2 DEF Neat
<1> QED BY <1>1, <1>2, <1>3

LEMMA DeletesFile ==
  ASSUME NEW es \in [File -> Documents], NEW u \in File, Neat(es[u]),
         NEW fs, fs = DidFileDelete(es, u)
  PROVE  fs \in [File -> Documents] /\ Others(es, fs, {u}) /\ Neat(fs[u]) /\ ~ fs[u].open
<1>1. CASE ~ es[u].open
  BY <1>1 DEF DidFileDelete, Others
<1>2. CASE es[u].open
  <2>1. PICK gone : gone = Evict(es[u])
    OBVIOUS
  <2>2. Neat(gone) /\ ~ gone.open /\ gone \in Documents
    <3>1. ~ es[u].confused /\ es[u] \in Documents
      BY DEF Neat
    <3>2. Neat(gone) /\ ~ gone.open
      BY <2>1, <3>1, EvictsNeatly
    <3> QED BY <3>2 DEF Neat
  <2>3. fs = [es EXCEPT ![u] = gone]
    BY <1>2, <2>1 DEF DidFileDelete
  <2>4. fs \in [File -> Documents] /\ \A v \in File : fs[v] = IF v = u THEN gone ELSE es[v]
    BY <2>2, <2>3
  <2> QED BY <2>2, <2>4 DEF Others
<1> QED BY <1>1, <1>2

LEMMA RenamesFile ==
  ASSUME NEW es \in [File -> Documents], NEW old \in File, NEW new \in File, old # new,
         Neat(es[old]), Neat(es[new]), ~ es[new].open, NEW text \in Texts,
         NEW fs, fs = DidFileRename(es, old, new, text)
  PROVE  /\ fs \in [File -> Documents] /\ Others(es, fs, {old, new})
         /\ Neat(fs[old]) /\ ~ fs[old].open
         /\ Neat(fs[new]) /\ (fs[new].open => fs[new].buffer.text = text)
<1>1. CASE ~ es[old].open
  BY <1>1 DEF DidFileRename, Others
<1>2. CASE es[old].open
  <2>1. PICK gone : gone = Evict(es[old])
    OBVIOUS
  <2>2. Neat(gone) /\ ~ gone.open /\ gone \in Documents
    <3>1. ~ es[old].confused /\ es[old] \in Documents
      BY DEF Neat
    <3>2. Neat(gone) /\ ~ gone.open
      BY <2>1, <3>1, EvictsNeatly
    <3> QED BY <3>2 DEF Neat
  <2>3. PICK refs \in Nat : refs = es[old].refs
    BY DEF Documents
  <2>4. PICK opened : opened = DidOpen(FreshlyOpen(es[new], refs), text)
    OBVIOUS
  <2>5. es[new] \in Documents /\ ~ es[new].confused /\ ~ es[new].buffer.open
    BY DEF Neat
  <2>6. /\ opened \in Documents /\ opened.open /\ opened.buffer.open
        /\ opened.version = opened.buffer.version /\ opened.buffer.text = text
        /\ ~ opened.confused
    BY <2>4, <2>5, Opens
  <2>7. PICK mid : mid = [es EXCEPT ![old] = gone]
    OBVIOUS
  <2>8. mid \in [File -> Documents] /\ \A v \in File : mid[v] = IF v = old THEN gone ELSE es[v]
    BY <2>2, <2>7
  <2>9. fs = [mid EXCEPT ![new] = opened]
    BY <1>2, <2>1, <2>3, <2>4, <2>7, <2>8 DEF DidFileRename
  <2>10. fs \in [File -> Documents] /\ \A v \in File : fs[v] = IF v = new THEN opened ELSE mid[v]
    BY <2>6, <2>8, <2>9
  <2> QED BY <2>2, <2>6, <2>8, <2>10 DEF Neat, Others
<1> QED BY <1>1, <1>2

\* A replay that tracks its files, and n operations of its plan executed.
Syncing(r, d, plan, n, S, ds) ==
  /\ IsDisk(d) /\ ReplayInv(r, d) /\ Tracks(r, d) /\ Planned(r, d, plan) /\ Parted(r)
  /\ n \in 0 .. Len(plan) /\ Stands(r, d, plan, n, S)
  /\ Read(d, Queried) # Missing /\ DocsKept(ds, d)

LEMMA KeptNeat ==
  ASSUME NEW d, NEW ds, DocsKept(ds, d), NEW u \in File
  PROVE  Neat(ds[u]) /\ (ds[u].open => Read(d, u) # Missing)
BY DEF DocsKept, Neat

\* A path no operation executed so far has touched.
LEMMA Untold ==
  ASSUME NEW r, NEW d, NEW plan, NEW n, NEW S, NEW ds, Syncing(r, d, plan, n, S, ds), NEW u \in File,
         ~ Landed(plan, n, "write", u), ~ Landed(plan, n, "rename", u),
         ~ Landed(plan, n, "delete", u), ~ Left(plan, n, u)
  PROVE  Follows(ds[u], S, d, u)
<1>1. S[u] = d[u]
  BY DEF Syncing, Stands, Standing
<1>2. Neat(ds[u])
  BY KeptNeat DEF Syncing
<1> QED BY <1>1, <1>2 DEF Follows

LEMMA Resyncs ==
  ASSUME NEW r, NEW d, NEW plan, NEW n, NEW S, NEW ds, Syncing(r, d, plan, n, S, ds),
         NEW o \in File, r.fate[o].live, NEW at \in File, at = r.fate[o].at,
         NEW es \in [File -> Documents], es[o] = ds[o], es[at] = ds[at],
         NEW fs, fs = Resync(es, r, d, plan, n, o)
  PROVE  /\ fs \in [File -> Documents] /\ Others(es, fs, {o, at})
         /\ Follows(fs[o], S, d, o) /\ Follows(fs[at], S, d, at)
<1>1. /\ IsDisk(d) /\ ReplayInv(r, d) /\ Tracks(r, d) /\ Planned(r, d, plan) /\ Parted(r)
      /\ n \in 0 .. Len(plan) /\ Stands(r, d, plan, n, S)
      /\ Read(d, Queried) # Missing /\ DocsKept(ds, d)
  BY DEF Syncing
<1>2. /\ r.alias[at] = o /\ Arrives(r, at) /\ r.alias[o] = o
      /\ at # o => ~ Arrives(r, o)
  BY <1>1, LiveAt
<1>3. Neat(ds[o]) /\ Neat(ds[at]) /\ (ds[o].open => Read(d, o) # Missing) /\ (ds[at].open => Read(d, at) # Missing)
  BY <1>1, KeptNeat
<1>4. PICK text \in Texts : text = r.fate[o].text
  BY <1>1 DEF ReplayInv, ReplayStates, Fates
<1>5. Landed(plan, n, "write", at) => Read(S, at) = text
  BY <1>1, <1>2, <1>4, Filled
<1>6. PICK written \in BOOLEAN, moved \in BOOLEAN :
        (written <=> Landed(plan, n, "write", at)) /\ (moved <=> Landed(plan, n, "rename", at))
  OBVIOUS
<1>7. o \notin Doomed(r)
  BY <1>1, Constants DEF Doomed
<1>8. /\ ~ Landed(plan, n, "delete", o) /\ ~ Landed(plan, n, "delete", at) /\ ~ Left(plan, n, at)
      /\ Left(plan, n, o) => at # o /\ o \notin r.created /\ Landed(plan, n, "rename", at)
      /\ at # o => ~ Landed(plan, n, "write", o) /\ ~ Landed(plan, n, "rename", o)
      /\ at # o /\ o \notin r.created /\ Landed(plan, n, "write", at) => Landed(plan, n, "rename", at)
      /\ Landed(plan, n, "rename", at) => at # o /\ o \notin r.created
  <2>1. /\ ~ Landed(plan, n, "delete", o) /\ ~ Landed(plan, n, "delete", at) /\ ~ Left(plan, n, at)
        /\ at # o => ~ Landed(plan, n, "write", o) /\ ~ Landed(plan, n, "rename", o)
    BY <1>1, <1>2, <1>7, Marks DEF Arrives
  <2>2. /\ at # o /\ o \notin r.created /\ Landed(plan, n, "write", at) => Landed(plan, n, "rename", at)
        /\ Landed(plan, n, "rename", at) => at # o /\ o \notin r.created
    BY <1>1, <1>2, Marks
  <2>3. Left(plan, n, o) => at # o /\ o \notin r.created /\ Landed(plan, n, "rename", at)
    BY <1>1, <1>2, Marks DEF Displaced
  <2> QED BY <2>1, <2>2, <2>3
<1>9. ASSUME ~ written, ~ moved
      PROVE  Follows(ds[o], S, d, o) /\ Follows(ds[at], S, d, at)
  BY <1>6, <1>8, <1>9, Untold
<1>10. CASE o \in r.created
  <2>1. ~ (o = Queried /\ at # o)
    BY <1>1, <1>2, <1>10 DEF Tracks
  <2>2. CASE ~ written
    <3>1. fs = es
      BY <1>6, <1>10, <2>2 DEF Resync
    <3> QED BY <1>6, <1>8, <1>9, <1>10, <2>2, <3>1 DEF Others
  <2>3. CASE written
    <3>1. fs = ApplyEdited(es, at, text)
      BY <1>4, <1>6, <1>10, <2>1, <2>3 DEF Resync
    <3>6. PICK v \in File : v = at
      OBVIOUS
    <3>7. Neat(es[v]) /\ fs = ApplyEdited(es, v, text)
      BY <1>3, <3>1, <3>6
    <3>8. /\ fs \in [File -> Documents] /\ Others(es, fs, {v}) /\ Neat(fs[v])
          /\ fs[v].open => fs[v].buffer.text = text
      BY <3>7, AppliesEdited
    <3>2. /\ fs \in [File -> Documents] /\ Others(es, fs, {at}) /\ Neat(fs[at])
          /\ fs[at].open => fs[at].buffer.text = text
      BY <3>6, <3>8
    <3>3. Follows(fs[at], S, d, at)
      BY <1>5, <1>6, <2>3, <3>2 DEF Follows
    <3>4. CASE at = o
      BY <3>2, <3>3, <3>4 DEF Others
    <3>5. CASE at # o
      <4>1. fs[o] = ds[o]
        BY <3>2, <3>5 DEF Others
      <4>2. Follows(ds[o], S, d, o)
        BY <1>8, <1>10, <3>5, Untold
      <4> QED BY <3>2, <3>3, <4>1, <4>2 DEF Others
    <3> QED BY <3>4, <3>5
  <2> QED BY <2>2, <2>3
<1>11. CASE o \notin r.created /\ at # o
  <2>1. CASE ~ moved
    <3>1. fs = es
      BY <1>6, <1>11, <2>1 DEF Resync
    <3> QED BY <1>6, <1>8, <1>9, <1>11, <2>1, <3>1 DEF Others
  <2>2. CASE moved
    <3>1. PICK cs : cs = IF at \in r.clobbered THEN DidFileDelete(es, at) ELSE es
      OBVIOUS
    <3>2. PICK put \in Texts : put = IF written THEN text ELSE Read(d, o)
      BY <1>1 DEF IsDisk, Read
    <3>3. fs = DidFileRename(cs, o, at, put)
      BY <1>4, <1>6, <1>11, <2>2, <3>1, <3>2 DEF Resync
    <3>4. /\ cs \in [File -> Documents] /\ Others(es, cs, {at}) /\ Neat(cs[at]) /\ ~ cs[at].open
      <4>1. CASE at \in r.clobbered
        BY <1>3, <3>1, <4>1, DeletesFile
      <4>2. CASE at \notin r.clobbered
        <5>1. Read(d, at) = Missing \/ r.fate[at] = Deleted
          BY <1>1, <1>2, <1>11, <4>2 DEF ReplayInv, Freed
        <5>2. at \notin Doomed(r)
          BY <1>1, <1>2 DEF Parted
        <5>3. r.fate[at] = Deleted => at \in r.created
          BY <5>2 DEF Doomed
        <5>4. at \in r.created => Read(d, at) = Missing
          BY <1>1, <1>2, <1>11 DEF Tracks
        <5>5. ~ ds[at].open
          BY <1>3, <5>1, <5>3, <5>4
        <5> QED BY <1>3, <3>1, <4>2, <5>5 DEF Others
      <4> QED BY <4>1, <4>2
    <3>5. cs[o] = ds[o]
      BY <1>11, <3>4 DEF Others
    <3>9. PICK v \in File : v = at
      OBVIOUS
    <3>10. o # v /\ Neat(cs[o]) /\ Neat(cs[v]) /\ ~ cs[v].open /\ fs = DidFileRename(cs, o, v, put)
      BY <1>3, <1>11, <3>3, <3>4, <3>5, <3>9
    <3>11. /\ fs \in [File -> Documents] /\ Others(cs, fs, {o, v})
           /\ Neat(fs[o]) /\ ~ fs[o].open
           /\ Neat(fs[v]) /\ (fs[v].open => fs[v].buffer.text = put)
      BY <3>4, <3>10, RenamesFile
    <3>6. /\ fs \in [File -> Documents] /\ Others(cs, fs, {o, at})
          /\ Neat(fs[o]) /\ ~ fs[o].open
          /\ Neat(fs[at]) /\ (fs[at].open => fs[at].buffer.text = put)
      BY <3>9, <3>11
    <3>7. ~ Landed(plan, n, "write", at) => Read(S, at) = Read(d, o)
      BY <1>1, <1>2, <1>6, <2>2, Filled
    <3>8. Read(S, at) = put
      BY <1>5, <1>6, <3>2, <3>7
    <3> QED BY <3>4, <3>6, <3>8 DEF Follows, Others
  <2> QED BY <2>1, <2>2
<1>12. CASE o \notin r.created /\ at = o
  <2>1. CASE ~ written
    <3>1. fs = es
      BY <1>6, <1>12, <2>1 DEF Resync
    <3> QED BY <1>6, <1>8, <1>9, <1>12, <2>1, <3>1 DEF Others
  <2>2. CASE written
    <3>1. fs = ApplyEdited(es, o, text)
      BY <1>4, <1>6, <1>12, <2>2 DEF Resync
    <3>2. /\ fs \in [File -> Documents] /\ Others(es, fs, {o}) /\ Neat(fs[o])
          /\ fs[o].open => fs[o].buffer.text = text
      BY <1>3, <3>1, AppliesEdited
    <3> QED BY <1>5, <1>6, <1>12, <2>2, <3>2 DEF Follows, Others
  <2> QED BY <2>1, <2>2
<1> QED BY <1>10, <1>11, <1>12

\* The path o comes from or goes to.
Belongs(r, p, o) == r.fate[o].live /\ p \in {o, r.fate[o].at}

LEMMA BelongsToOne ==
  ASSUME NEW d, NEW r, ReplayInv(r, d), NEW p \in File, NEW o \in File, NEW x \in File,
         Belongs(r, p, o), Belongs(r, p, x)
  PROVE  o = x
<1>1. /\ r.alias[r.fate[o].at] = o /\ r.alias[o] = o
      /\ r.alias[r.fate[x].at] = x /\ r.alias[x] = x
  BY LiveAt DEF Belongs
<1> QED BY <1>1 DEF Belongs

\* The files of the order up to the i-th.
Upto(r, i) == {r.order[j] : j \in 1 .. i}

\* The documents once the files up to the i-th have been resynchronised.
SyncedTo(r, d, S, ds, es, i) ==
  /\ es \in [File -> Documents]
  /\ \A p \in File :
       /\ (\E o \in Upto(r, i) : Belongs(r, p, o)) => Follows(es[p], S, d, p)
       /\ (\A o \in Upto(r, i) : ~ Belongs(r, p, o)) => es[p] = ds[p]

LEMMA ResyncsNext ==
  ASSUME NEW r, NEW d, NEW plan, NEW n, NEW S, NEW ds, Syncing(r, d, plan, n, S, ds),
         NEW i \in 1 .. Len(r.order), NEW es, SyncedTo(r, d, S, ds, es, i - 1)
  PROVE  SyncedTo(r, d, S, ds, Resync(es, r, d, plan, n, r.order[i]), i)
<1>1. ReplayInv(r, d) /\ r \in ReplayStates /\ r.order \in Seq(File) /\ Ordered(r)
  BY DEF Syncing, ReplayInv, ReplayStates
<1>2. PICK o \in File : o = r.order[i]
  BY <1>1
<1>3. PICK fs : fs = Resync(es, r, d, plan, n, o)
  OBVIOUS
<1>4. Upto(r, i) = Upto(r, i - 1) \cup {o} /\ o \notin Upto(r, i - 1) /\ Upto(r, i - 1) \subseteq File
  <2>1. \A j \in 1 .. i - 1 : r.order[j] # r.order[i] /\ r.order[j] \in File
    BY <1>1 DEF Ordered
  <2> QED BY <1>2, <2>1 DEF Upto
<1>5. CASE ~ r.fate[o].live
  <2>1. fs = es
    BY <1>3, <1>5 DEF Resync
  <2>2. \A p \in File : ~ Belongs(r, p, o)
    BY <1>5 DEF Belongs
  <2> QED BY <1>2, <1>3, <1>4, <2>1, <2>2 DEF SyncedTo
<1>6. CASE r.fate[o].live
  <2>1. PICK at \in File : at = r.fate[o].at
    BY <1>1, <1>6, LiveAt
  <2>2. \A p \in File : Belongs(r, p, o) <=> p \in {o, at}
    BY <1>6, <2>1 DEF Belongs
  <2>3. \A p \in {o, at} : \A x \in Upto(r, i - 1) : ~ Belongs(r, p, x)
    <3> SUFFICES ASSUME NEW p \in {o, at}, NEW x \in Upto(r, i - 1), Belongs(r, p, x) PROVE FALSE
      OBVIOUS
    <3>1. p \in File /\ x \in File /\ x # o /\ Belongs(r, p, o)
      BY <1>4, <2>2
    <3> QED BY <1>1, <3>1, BelongsToOne
  <2>4. es \in [File -> Documents] /\ es[o] = ds[o] /\ es[at] = ds[at]
    BY <2>3 DEF SyncedTo
  <2>5. /\ fs \in [File -> Documents] /\ Others(es, fs, {o, at})
        /\ Follows(fs[o], S, d, o) /\ Follows(fs[at], S, d, at)
    BY <1>3, <1>6, <2>1, <2>4, Resyncs
  <2>6. ASSUME NEW p \in File, \E x \in Upto(r, i) : Belongs(r, p, x)
        PROVE  Follows(fs[p], S, d, p)
    <3>1. CASE p \in {o, at}
      BY <2>5, <3>1
    <3>2. CASE p \notin {o, at}
      <4>1. \E x \in Upto(r, i - 1) : Belongs(r, p, x)
        BY <1>4, <2>2, <2>6, <3>2
      <4>2. fs[p] = es[p]
        BY <2>5, <3>2 DEF Others
      <4> QED BY <4>1, <4>2 DEF SyncedTo
    <3> QED BY <3>1, <3>2
  <2>7. ASSUME NEW p \in File, \A x \in Upto(r, i) : ~ Belongs(r, p, x)
        PROVE  fs[p] = ds[p]
    <3>1. p \notin {o, at} /\ \A x \in Upto(r, i - 1) : ~ Belongs(r, p, x)
      BY <1>4, <2>2, <2>7
    <3>2. fs[p] = es[p]
      BY <2>5, <3>1 DEF Others
    <3> QED BY <3>1, <3>2 DEF SyncedTo
  <2> QED BY <1>2, <1>3, <2>5, <2>6, <2>7 DEF SyncedTo
<1> QED BY <1>5, <1>6

LEMMA ResyncedAll ==
  ASSUME NEW r, NEW d, NEW plan, NEW n, NEW S, NEW ds, Syncing(r, d, plan, n, S, ds)
  PROVE  SyncedTo(r, d, S, ds, ResyncedLive(ds, r, d, plan, n)[Len(r.order)], Len(r.order))
<1>1. PICK len \in Nat : len = Len(r.order)
  BY DEF Syncing, ReplayInv, ReplayStates
<1>2. PICK after : after = ResyncedLive(ds, r, d, plan, n)
  OBVIOUS
<1>3. after[0] = ds /\ \A i \in 1 .. len : after[i] = Resync(after[i - 1], r, d, plan, n, r.order[i])
  BY <1>1, <1>2, ResyncedLiveEquation
<1> DEFINE Good == {i \in 0 .. len : SyncedTo(r, d, S, ds, after[i], i)}
<1>4. 0 \in Good
  <2>1. Upto(r, 0) = {} /\ ds \in [File -> Documents]
    BY DEF Upto, Syncing, DocsKept
  <2>2. SyncedTo(r, d, S, ds, ds, 0)
    BY <2>1 DEF SyncedTo
  <2> QED BY <1>1, <1>3, <2>2
<1>5. ASSUME NEW i \in 1 .. len, i - 1 \in Good PROVE i \in Good
  <2>1. PICK es : es = after[i - 1]
    OBVIOUS
  <2>2. SyncedTo(r, d, S, ds, es, i - 1) /\ after[i] = Resync(es, r, d, plan, n, r.order[i])
    BY <1>3, <1>5, <2>1
  <2>3. SyncedTo(r, d, S, ds, after[i], i)
    BY <1>1, <2>2, ResyncsNext
  <2> QED BY <2>3
<1>6. len \in Good
  <2> HIDE DEF Good
  <2>1. \A i \in 0 .. len : i \in Good
    BY <1>4, <1>5, UpTo
  <2> QED BY <2>1
<1> QED BY <1>1, <1>2, <1>6

Gone(r, plan, n, p) == p \in Doomed(r) /\ Landed(plan, n, "delete", p)

\* The documents once the files up to the i-th have been evicted, if deleted.
EvictedTo(r, plan, n, fs, es, i) ==
  /\ es \in [File -> Documents]
  /\ \A p \in File : IF p \in Upto(r, i) /\ Gone(r, plan, n, p) THEN Neat(es[p]) /\ ~ es[p].open
                     ELSE es[p] = fs[p]

LEMMA EvictsNext ==
  ASSUME NEW d, NEW r, ReplayInv(r, d), NEW plan, NEW n, NEW i \in 1 .. Len(r.order),
         NEW fs, \A p \in File : Neat(fs[p]), NEW es, EvictedTo(r, plan, n, fs, es, i - 1)
  PROVE  EvictedTo(r, plan, n, fs, ResyncRemoved(es, r, plan, n, r.order[i]), i)
<1>1. r \in ReplayStates /\ r.order \in Seq(File) /\ Ordered(r)
  BY DEF ReplayInv, ReplayStates
<1>2. PICK o \in File : o = r.order[i]
  BY <1>1
<1>3. PICK gs : gs = ResyncRemoved(es, r, plan, n, o)
  OBVIOUS
<1>4. Upto(r, i) = Upto(r, i - 1) \cup {o} /\ o \notin Upto(r, i - 1)
  <2>1. \A j \in 1 .. i - 1 : r.order[j] # r.order[i] /\ r.order[j] \in File
    BY <1>1 DEF Ordered
  <2> QED BY <1>2, <2>1 DEF Upto
<1>5. CASE ~ Gone(r, plan, n, o)
  <2>1. gs = es
    BY <1>3, <1>5 DEF ResyncRemoved, Gone
  <2> QED BY <1>2, <1>3, <1>4, <1>5, <2>1 DEF EvictedTo
<1>6. CASE Gone(r, plan, n, o)
  <2>1. gs = DidFileDelete(es, o)
    BY <1>3, <1>6 DEF ResyncRemoved, Gone
  <2>2. es \in [File -> Documents] /\ Neat(es[o])
    BY <1>4 DEF EvictedTo
  <2>3. gs \in [File -> Documents] /\ Others(es, gs, {o}) /\ Neat(gs[o]) /\ ~ gs[o].open
    BY <2>1, <2>2, DeletesFile
  <2>4. ASSUME NEW p \in File
        PROVE  IF p \in Upto(r, i) /\ Gone(r, plan, n, p) THEN Neat(gs[p]) /\ ~ gs[p].open ELSE gs[p] = fs[p]
    <3>1. CASE p = o
      BY <1>4, <1>6, <2>3, <3>1
    <3>2. CASE p # o
      BY <1>4, <2>3, <3>2 DEF EvictedTo, Others
    <3> QED BY <3>1, <3>2
  <2> QED BY <1>2, <1>3, <2>3, <2>4 DEF EvictedTo
<1> QED BY <1>5, <1>6

LEMMA EvictedAll ==
  ASSUME NEW d, NEW r, ReplayInv(r, d), NEW plan, NEW n, NEW fs \in [File -> Documents],
         \A p \in File : Neat(fs[p])
  PROVE  EvictedTo(r, plan, n, fs, ResyncedRemoved(fs, r, plan, n)[Len(r.order)], Len(r.order))
<1>1. PICK len \in Nat : len = Len(r.order)
  BY DEF ReplayInv, ReplayStates
<1>2. PICK after : after = ResyncedRemoved(fs, r, plan, n)
  OBVIOUS
<1>3. after[0] = fs /\ \A i \in 1 .. len : after[i] = ResyncRemoved(after[i - 1], r, plan, n, r.order[i])
  BY <1>1, <1>2, ResyncedRemovedEquation
<1> DEFINE Good == {i \in 0 .. len : EvictedTo(r, plan, n, fs, after[i], i)}
<1>4. 0 \in Good
  <2>1. Upto(r, 0) = {}
    BY DEF Upto
  <2>2. EvictedTo(r, plan, n, fs, fs, 0)
    BY <2>1 DEF EvictedTo
  <2> QED BY <1>1, <1>3, <2>2
<1>5. ASSUME NEW i \in 1 .. len, i - 1 \in Good PROVE i \in Good
  <2>1. PICK es : es = after[i - 1]
    OBVIOUS
  <2>2. EvictedTo(r, plan, n, fs, es, i - 1) /\ after[i] = ResyncRemoved(es, r, plan, n, r.order[i])
    BY <1>3, <1>5, <2>1
  <2>3. EvictedTo(r, plan, n, fs, after[i], i)
    BY <1>1, <2>2, EvictsNext
  <2> QED BY <2>3
<1>6. len \in Good
  <2> HIDE DEF Good
  <2>1. \A i \in 0 .. len : i \in Good
    BY <1>4, <1>5, UpTo
  <2> QED BY <2>1
<1> QED BY <1>1, <1>2, <1>6

\* However far the commit got, every document follows the disk.
LEMMA ResyncFollows ==
  ASSUME NEW r, NEW d, NEW plan, NEW n, NEW S, NEW ds, Syncing(r, d, plan, n, S, ds), NEW p \in File
  PROVE  Follows(Resynced(ds, r, d, plan, n)[p], S, d, p)
<1>1. PICK len : len = Len(r.order)
  OBVIOUS
<1>2. PICK fs : fs = ResyncedLive(ds, r, d, plan, n)[len]
  OBVIOUS
<1>3. PICK es : es = ResyncedRemoved(fs, r, plan, n)[len]
  OBVIOUS
<1>4. Resynced(ds, r, d, plan, n) = es
  BY <1>1, <1>2, <1>3 DEF Resynced
<1>5. /\ ReplayInv(r, d) /\ Planned(r, d, plan) /\ Parted(r) /\ n \in 0 .. Len(plan)
      /\ r \in ReplayStates /\ r.order \in Seq(File) /\ Ordered(r)
  BY DEF Syncing, ReplayInv, ReplayStates
<1>6. SyncedTo(r, d, S, ds, fs, len)
  BY <1>1, <1>2, ResyncedAll
<1>7. \A q \in File : Neat(fs[q])
  BY <1>6, KeptNeat DEF SyncedTo, Follows, Syncing
<1>8. fs \in [File -> Documents]
  BY <1>6 DEF SyncedTo
<1>9. EvictedTo(r, plan, n, fs, es, len)
  BY <1>1, <1>3, <1>5, <1>7, <1>8, EvictedAll
<1>10. \A o \in File : r.fate[o] # NoFate => o \in Upto(r, len)
  <2>1. DOMAIN r.order = 1 .. len
    BY <1>1, <1>5
  <2> QED BY <1>5, <2>1 DEF Ordered, Upto
<1>11. CASE Gone(r, plan, n, p)
  <2>1. r.fate[p] # NoFate
    BY <1>11, Constants DEF Gone, Doomed
  <2>2. Neat(es[p]) /\ ~ es[p].open
    BY <1>9, <1>10, <1>11, <2>1 DEF EvictedTo
  <2> QED BY <1>4, <2>2 DEF Follows
<1>12. CASE ~ Gone(r, plan, n, p)
  <2>1. es[p] = fs[p]
    BY <1>9, <1>12 DEF EvictedTo
  <2>2. CASE \E o \in Upto(r, len) : Belongs(r, p, o)
    BY <1>4, <1>6, <2>1, <2>2 DEF SyncedTo
  <2>3. CASE \A o \in Upto(r, len) : ~ Belongs(r, p, o)
    <3>1. fs[p] = ds[p]
      BY <1>6, <2>3 DEF SyncedTo
    <3>2. ~ r.fate[p].live
      BY <1>10, <2>3, Constants DEF Belongs
    <3>3. ~ Arrives(r, p)
      <4>1. r.alias[p] \in File
        BY <1>5 DEF ReplayStates
      <4> QED BY <1>10, <2>3, <4>1, Constants DEF Belongs, Arrives
    <3>4. /\ ~ Landed(plan, n, "write", p) /\ ~ Landed(plan, n, "rename", p)
          /\ ~ Landed(plan, n, "delete", p) /\ ~ Left(plan, n, p)
      BY <1>5, <1>12, <3>2, <3>3, Marks DEF Gone, Displaced
    <3> QED BY <1>4, <2>1, <3>1, <3>4, Untold
  <2> QED BY <2>2, <2>3
<1> QED BY <1>11, <1>12

\* After every straight batch, however far its commit got, the server's buffers
\* hold what the disk holds.
THEOREM BuffersFollow == Spec => []BuffersFollowTheDisk
<1>1. RenameInv => BuffersFollowTheDisk
  <2> SUFFICES ASSUME RenameInv, result.applied, Straight(edit), NEW u \in File
               PROVE  /\ ~ docs[u].confused
                      /\ docs[u].open <=> docs[u].buffer.open
                      /\ docs[u].open /\ disk[u] # base[u] => docs[u].buffer.text = Read(disk, u)
                      /\ ~ docs[u].open => docs[u].cached = None
    BY DEF BuffersFollowTheDisk
  <2>1. PICK n \in Nat : \E ds : DocsKept(ds, base) /\ AppliedTo(ds, base, n)
    BY DEF RenameInv, Unapplied
  <2>2. PICK ds : DocsKept(ds, base) /\ AppliedTo(ds, base, n)
    BY <2>1
  <2>3. PICK r, plan : Performed(r, plan, n) /\ docs = Resynced(ds, r, base, plan, n)
    BY <2>2, AppliedPerformed
  <2>4. IsBatch(edit)
    BY <2>2, AppliedPerformed
  <2>5. IsDisk(base) /\ DOMAIN edit = 1 .. Len(edit) /\ Read(base, Queried) # Missing
    BY DEF RenameInv
  <2>6. /\ r = Replay(base, edit) /\ ReplayInv(r, base) /\ Accepted(Replay(base, edit))
        /\ Planned(r, base, plan) /\ Parted(r)
        /\ n \in 0 .. Len(plan) /\ Stands(r, base, plan, n, disk)
    BY <2>3 DEF Performed
  <2>7. Tracks(r, base)
    BY <2>4, <2>5, <2>6, StraightBatch
  <2>8. Syncing(r, base, plan, n, disk, ds)
    BY <2>2, <2>5, <2>6, <2>7 DEF Syncing
  <2>9. Follows(docs[u], disk, base, u)
    BY <2>3, <2>8, ResyncFollows
  <2> QED BY <2>9 DEF Follows, Neat
<1> QED BY <1>1, ReportsWhatItDid, PTL
=============================================================================
