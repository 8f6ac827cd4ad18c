--------------------------- MODULE ImportsProofs ----------------------------
(***************************************************************************)
(* Proofs about Imports, for any uploads, targets, archives and faults:    *)
(* versions are numbered without a gap, every key of the database has its  *)
(* object unless a commit was taken for failed, and no object is left      *)
(* behind without a fault.                                                 *)
(*                                                                         *)
(* A step changes the rows, the objects and the versions of one import, so *)
(* the invariant has one part for each import and one about the versions   *)
(* of all.                                                                 *)
(***************************************************************************)
EXTENDS Imports, FiniteSetTheorems, TLAPS

-----------------------------------------------------------------------------
(* The inductive invariant.                                                *)

UploadPhase == {"idle", "stored", "creating", "found", "failing", "done"}
ImportState == {"none", "review_pending", "approved", "rejected", "applying",
                "completed", "failed"}
ApplyPhase == {"idle", "begun", "writing", "committing", "committed", "cleaning",
               "finishing", "done"}

RequestRow == [phase : UploadPhase, archive : Archive \cup {NoItems},
               receipt : Receipt \cup {None}]
ImportRow == [state : ImportState, items : UNION {[T -> Upload \cup {None}] : T \in SUBSET Target}]
Digest == UNION {{a[t] : t \in DOMAIN a} : a \in Archive}
VersionRow == [target : Target, digest : Digest, import : Upload, version_no : Nat]
ApplyRow == [phase : ApplyPhase, put : SUBSET Target, snapshot : SUBSET VersionRow]

ImportTypes ==
    /\ objects \subseteq {OriginalKey(u) : u \in Upload} \cup
                         {NormalizedKey(i, t) : i \in Upload, t \in Target}
    /\ requests \in [Upload -> RequestRow]
    /\ imports \in [Upload -> ImportRow]
    /\ submission_versions \subseteq VersionRow
    /\ applies \in [Upload -> ApplyRow]

(* The versions of a target in a set of versions. *)
Of(V, t) == {v \in V : v.target = t}

(* They are numbered without a gap, and have different contents. *)
Numbered(V, t) ==
    /\ IsFiniteSet(Of(V, t))
    /\ {v.version_no : v \in Of(V, t)} = 1 .. Cardinality(Of(V, t))
Different(V) == \A v, w \in V : v.target = w.target /\ v.digest = w.digest => v = w

(* What an apply compares with was there when its transaction opened. *)
SnapshotOK(i) ==
    /\ applies[i].snapshot \subseteq submission_versions
    /\ \A t \in Target : Numbered(applies[i].snapshot, t)

(* What the store and the database have of an import. *)
Original(u) == OriginalKey(u) \in objects
Parts(i) == {t \in Target : NormalizedKey(i, t) \in objects}
Made(i) == {v.target : v \in {w \in submission_versions : w.import = i}}
Created(u) == imports[u].state # "none"

UploadOK(u) ==
    LET phase == requests[u].phase IN
    /\ phase \in {"idle", "stored", "creating", "found"} => ~ Created(u)
    /\ phase = "idle" => ~ Original(u)
    /\ phase \in {"stored", "creating", "found", "failing"} => Original(u)
    /\ phase = "failing" /\ Created(u) => Hurt({"unheard"}, u)
    /\ phase = "done" /\ Created(u) => Original(u) \/ Hurt({"unheard"}, u)
    /\ phase = "done" /\ Original(u) => Created(u) \/ Hurt({"error", "crash"}, u)

(* An apply only begins once, writes what its archive has, and whatever it *)
(* wrote is of a version, or still known to it, or was hit by a fault.     *)
ApplyOK(i) ==
    LET phase == applies[i].phase
        put == applies[i].put
    IN
    /\ imports[i].state \in {"none", "review_pending", "approved"} => phase = "idle"
    /\ put \subseteq Items(i)
    /\ phase \in {"idle", "begun"} => put = {}
    /\ phase \in {"committing", "committed"} => put = Items(i)
    /\ phase \in {"writing", "committing"} => put \subseteq Parts(i)
    /\ Made(i) # {} => imports[i].state = "completed"
    /\ phase \in {"idle", "begun", "writing", "committing"} => Made(i) = {}
    /\ phase = "committed" => Made(i) = {t \in Items(i) : ~ Duplicate(i, t)}
    /\ phase = "cleaning" /\ Made(i) # {} => Hurt({"unheard"}, i)
    /\ Made(i) \subseteq Parts(i) \/ Hurt({"unheard"}, i)
    /\ \/ Hurt({"error", "crash"}, i)
       \/ phase = "done" /\ Parts(i) \subseteq Made(i)
       \/ phase \in {"writing", "committing", "committed", "cleaning"} /\ Parts(i) \subseteq put
       \/ Parts(i) = {}

ImportsInv ==
    /\ ImportTypes
    /\ \A t \in Target : Numbered(submission_versions, t)
    /\ Different(submission_versions)
    /\ \A u \in Upload : SnapshotOK(u) /\ UploadOK(u) /\ ApplyOK(u)

-----------------------------------------------------------------------------
(* Numbers of versions.                                                    *)

(* The highest number of a gapless set is its size. *)
LEMMA HighestNumber ==
    ASSUME NEW V, NEW t, Numbered(V, t)
    PROVE  /\ Cardinality(Of(V, t)) \in Nat
           /\ Max({0} \cup {v.version_no : v \in Of(V, t)}) = Cardinality(Of(V, t))
<1> DEFINE c == Cardinality(Of(V, t))
           N == {0} \cup {v.version_no : v \in Of(V, t)}
<1>1. c \in Nat BY FS_CardinalityType DEF Numbered
<1>2. N = 0 .. c BY <1>1 DEF Numbered
<1> HIDE DEF N, c
<1>3. c \in N /\ \A y \in N : c >= y BY <1>1, <1>2
<1>4. \A x \in N : (\A y \in N : x >= y) => x = c BY <1>1, <1>2, <1>3
<1>5. Max(N) = c BY <1>3, <1>4 DEF Max
<1> QED BY <1>1, <1>5 DEF N, c

(* A version with the number that follows an older set's is next, and the  *)
(* older set was up to date, if that number is free.                       *)
LEMMA NextNumber ==
    ASSUME NEW V, NEW S \in SUBSET V, NEW t, Numbered(V, t), Numbered(S, t),
           NEW x, x.target = t, x.version_no = 1 + Cardinality(Of(S, t)),
           \A w \in Of(V, t) : w.version_no # x.version_no,
           NEW W, Of(W, t) = Of(V, t) \cup {x}
    PROVE  Of(S, t) = Of(V, t) /\ Numbered(W, t)
<1> DEFINE c == Cardinality(Of(S, t))
           d == Cardinality(Of(V, t))
<1>1. c \in Nat /\ d \in Nat BY FS_CardinalityType DEF Numbered
<1>2. Of(S, t) \subseteq Of(V, t) BY DEF Of
<1>3. c <= d /\ (c = d => Of(S, t) = Of(V, t))
  BY <1>2, FS_Subset DEF Numbered
<1>4. c = d
  <2> SUFFICES ASSUME c < d PROVE FALSE BY <1>1, <1>3
  <2>1. 1 + c \in 1 .. d BY <1>1
  <2>2. PICK w \in Of(V, t) : w.version_no = 1 + c BY <2>1 DEF Numbered
  <2> QED BY <2>2
<1>5. x \notin Of(V, t) OBVIOUS
<1>6. IsFiniteSet(Of(W, t)) /\ Cardinality(Of(W, t)) = d + 1
  BY <1>5, FS_AddElement DEF Numbered
<1>7. {v.version_no : v \in Of(W, t)} = {v.version_no : v \in Of(V, t)} \cup {1 + c}
  OBVIOUS
<1>8. {v.version_no : v \in Of(W, t)} = 1 .. (d + 1)
  <2>1. 1 .. (d + 1) = (1 .. d) \cup {1 + d} BY <1>1
  <2> QED BY <1>4, <1>7, <2>1 DEF Numbered
<1> QED BY <1>3, <1>4, <1>6, <1>8, Zenon DEF Numbered

(* An empty set is numbered. *)
LEMMA NoVersions == \A t : Numbered({}, t)
<1> TAKE t
<1>1. Of({}, t) = {} BY DEF Of
<1>2. IsFiniteSet({}) /\ Cardinality({}) = 0 BY FS_EmptySet
<1>3. {v.version_no : v \in {}} = 1 .. 0 OBVIOUS
<1> QED BY <1>1, <1>2, <1>3 DEF Numbered

-----------------------------------------------------------------------------
(* Rows and objects.                                                       *)

(* Keys tell the kind of an object, its import and its target. *)
LEMMA KeysDiffer ==
    /\ \A i, j, t : OriginalKey(i) # NormalizedKey(j, t)
    /\ \A i, j : OriginalKey(i) = OriginalKey(j) => i = j
    /\ \A i, j, s, t : NormalizedKey(i, s) = NormalizedKey(j, t) => i = j /\ s = t
BY DEF OriginalKey, NormalizedKey

(* An archive has work for targets. *)
LEMMA ItemsAreTargets ==
    ASSUME ImportTypes, NEW i \in Upload
    PROVE  /\ Items(i) \subseteq Target
           /\ \A t \in Items(i) : requests[i].archive[t] \in Digest
<1>1. requests[i].archive \in Archive \cup {NoItems} BY DEF ImportTypes, RequestRow
<1>2. CASE requests[i].archive \in Archive
  BY <1>2, ArchiveAssumption DEF Items, Digest
<1>3. CASE requests[i].archive = NoItems BY <1>3 DEF Items, NoItems
<1> QED BY <1>1, <1>2, <1>3

(* The handler of an upload moves on. *)
LEMMA RequestMoves ==
    ASSUME ImportTypes, NEW u \in Upload, NEW p \in UploadPhase, Request(u, p)
    PROVE  /\ requests' \in [Upload -> RequestRow]
           /\ requests'[u].phase = p /\ requests'[u].archive = requests[u].archive
           /\ \A o \in Upload \ {u} : requests'[o] = requests[o]
BY DEF ImportTypes, Request, RequestRow

(* The handler of an apply moves on. *)
LEMMA ApplyMoves ==
    ASSUME ImportTypes, NEW i \in Upload, NEW p \in ApplyPhase, Apply(i, p)
    PROVE  /\ applies' \in [Upload -> ApplyRow]
           /\ applies'[i].phase = p /\ applies'[i].put = applies[i].put
           /\ applies'[i].snapshot = applies[i].snapshot
           /\ \A o \in Upload \ {i} : applies'[o] = applies[o]
BY DEF ImportTypes, Apply, ApplyRow

(* It ends. *)
LEMMA ApplyOver ==
    ASSUME ImportTypes, NEW i \in Upload, applies' = [applies EXCEPT ![i] = Over]
    PROVE  /\ applies' \in [Upload -> ApplyRow]
           /\ applies'[i].phase = "done" /\ applies'[i].put = {}
           /\ applies'[i].snapshot = {}
           /\ \A o \in Upload \ {i} : applies'[o] = applies[o]
BY DEF ImportTypes, Over, ApplyRow, ApplyPhase

(* An import changes its state. *)
LEMMA StateSet ==
    ASSUME ImportTypes, NEW i \in Upload, NEW s \in ImportState, SetState(i, s)
    PROVE  /\ imports' \in [Upload -> ImportRow] /\ imports'[i].state = s
           /\ \A o \in Upload \ {i} : imports'[o] = imports[o]
BY DEF ImportTypes, SetState, ImportRow

(* A transaction opens, and takes a snapshot. *)
LEMMA ApplyOpens ==
    ASSUME ImportTypes, NEW i \in Upload,
           applies' = [applies EXCEPT ![i] = [@ EXCEPT !.phase = "committing",
                                                   !.snapshot = submission_versions]]
    PROVE  /\ applies' \in [Upload -> ApplyRow]
           /\ applies'[i].phase = "committing" /\ applies'[i].put = applies[i].put
           /\ applies'[i].snapshot = submission_versions
           /\ \A o \in Upload \ {i} : applies'[o] = applies[o]
<1> DEFINE n == [applies[i] EXCEPT !.phase = "committing", !.snapshot = submission_versions]
<1>1. applies[i] \in ApplyRow /\ submission_versions \in SUBSET VersionRow
  BY DEF ImportTypes
<1>2. n \in ApplyRow BY <1>1, Zenon DEF ApplyRow, ApplyPhase
<1>3. n.phase = "committing" /\ n.put = applies[i].put /\ n.snapshot = submission_versions
  BY <1>1, Zenon DEF ApplyRow
<1>4. applies' = [applies EXCEPT ![i] = n] BY Zenon
<1> HIDE DEF n
<1> QED BY <1>2, <1>3, <1>4 DEF ImportTypes

(* A row of applies is replaced. *)
LEMMA ApplyReplaced ==
    ASSUME ImportTypes, NEW i \in Upload, NEW n \in ApplyRow,
           applies' = [applies EXCEPT ![i] = n]
    PROVE  /\ applies' \in [Upload -> ApplyRow] /\ applies'[i] = n
           /\ \A o \in Upload \ {i} : applies'[o] = applies[o]
BY DEF ImportTypes

(* An object is written. *)
LEMMA ApplyWrites ==
    ASSUME ImportTypes, NEW i \in Upload, NEW t \in Target,
           applies' = [applies EXCEPT ![i] = [@ EXCEPT !.put = applies[i].put \cup {t}]]
    PROVE  /\ applies' \in [Upload -> ApplyRow]
           /\ applies'[i].phase = applies[i].phase
           /\ applies'[i].put = applies[i].put \cup {t}
           /\ applies'[i].snapshot = applies[i].snapshot
           /\ \A o \in Upload \ {i} : applies'[o] = applies[o]
<1> DEFINE q == applies[i].put \cup {t}
           n == [applies[i] EXCEPT !.put = q]
<1>1. applies[i] \in ApplyRow BY DEF ImportTypes
<1>2. q \in SUBSET Target BY <1>1 DEF ApplyRow
<1>3. applies' = [applies EXCEPT ![i] = n] BY Zenon
<1> HIDE DEF q
<1>4. n \in ApplyRow BY <1>1, <1>2, Zenon DEF ApplyRow
<1>5. n.phase = applies[i].phase /\ n.put = q /\ n.snapshot = applies[i].snapshot
  BY <1>1, Zenon DEF ApplyRow
<1> HIDE DEF n
<1>6. /\ applies' \in [Upload -> ApplyRow] /\ applies'[i] = n
      /\ \A o \in Upload \ {i} : applies'[o] = applies[o]
  BY <1>3, <1>4, ApplyReplaced, Zenon
<1> QED BY <1>5, <1>6, Zenon DEF q

ObjectTypes ==
    objects \subseteq {OriginalKey(u) : u \in Upload} \cup
                      {NormalizedKey(i, t) : i \in Upload, t \in Target}

(* An archive is put into the store, ... *)
LEMMA OriginalPut ==
    ASSUME ImportTypes, NEW u \in Upload, objects' = objects \cup {OriginalKey(u)}
    PROVE  /\ ObjectTypes' /\ Original(u)'
           /\ \A o \in Upload : Parts(o)' = Parts(o)
           /\ \A o \in Upload \ {u} : Original(o)' <=> Original(o)
BY KeysDiffer DEF ImportTypes, ObjectTypes, Original, Parts

(* ... or deleted. *)
LEMMA OriginalDropped ==
    ASSUME ImportTypes, NEW u \in Upload, objects' = objects \ {OriginalKey(u)}
    PROVE  /\ ObjectTypes' /\ ~ Original(u)'
           /\ \A o \in Upload : Parts(o)' = Parts(o)
           /\ \A o \in Upload \ {u} : Original(o)' <=> Original(o)
BY KeysDiffer DEF ImportTypes, ObjectTypes, Original, Parts

(* An item is put into the store, ... *)
LEMMA PartPut ==
    ASSUME ImportTypes, NEW i \in Upload, NEW t \in Target,
           objects' = objects \cup {NormalizedKey(i, t)}
    PROVE  /\ ObjectTypes' /\ Parts(i)' = Parts(i) \cup {t}
           /\ \A o \in Upload \ {i} : Parts(o)' = Parts(o)
           /\ \A o \in Upload : Original(o)' <=> Original(o)
BY KeysDiffer DEF ImportTypes, ObjectTypes, Original, Parts

(* ... or some are deleted. *)
LEMMA PartsDropped ==
    ASSUME ImportTypes, NEW i \in Upload, NEW T \in SUBSET Target,
           objects' = objects \ {NormalizedKey(i, t) : t \in T}
    PROVE  /\ ObjectTypes' /\ Parts(i)' = Parts(i) \ T
           /\ \A o \in Upload \ {i} : Parts(o)' = Parts(o)
           /\ \A o \in Upload : Original(o)' <=> Original(o)
BY KeysDiffer DEF ImportTypes, ObjectTypes, Original, Parts

(* All that is written stays. *)
LEMMA ObjectsKept ==
    ASSUME ImportTypes, UNCHANGED objects
    PROVE  /\ ObjectTypes'
           /\ \A o \in Upload : Parts(o)' = Parts(o) /\ (Original(o)' <=> Original(o))
BY DEF ImportTypes, ObjectTypes, Original, Parts

(* So do the imports. *)
LEMMA ImportsKept ==
    ASSUME ImportTypes, UNCHANGED imports
    PROVE  /\ imports' \in [Upload -> ImportRow]
           /\ \A o \in Upload : imports'[o] = imports[o] /\ (Created(o)' <=> Created(o))
BY DEF ImportTypes, Created

(* A fault is recorded and never forgotten. *)
LEMMA FaultHurts ==
    ASSUME NEW kind, NEW u, Fault(kind, u)
    PROVE  faults \subseteq faults' /\ \A kinds : kind \in kinds => Hurt(kinds, u)'
BY DEF Fault, Hurt

-----------------------------------------------------------------------------
(* What a step of one import may do.                                       *)

(* It leaves alone all there is of another. *)
Keeps(o) ==
    /\ requests'[o] = requests[o] /\ imports'[o] = imports[o] /\ applies'[o] = applies[o]
    /\ Parts(o)' = Parts(o) /\ (Original(o)' <=> Original(o)) /\ Made(o)' = Made(o)

StepOf(u) == faults \subseteq faults' /\ \A o \in Upload \ {u} : Keeps(o)

VersionsOK ==
    /\ \A t \in Target : Numbered(submission_versions, t)
    /\ Different(submission_versions)
    /\ \A u \in Upload : SnapshotOK(u)

(* The other is then as well as it was. *)
LEMMA Spared ==
    ASSUME NEW o \in Upload, Keeps(o), faults \subseteq faults', UploadOK(o), ApplyOK(o)
    PROVE  UploadOK(o)' /\ ApplyOK(o)'
<1>1. \A kinds : Hurt(kinds, o) => Hurt(kinds, o)' BY DEF Hurt
<1>2. Items(o)' = Items(o) /\ (Created(o)' <=> Created(o)) BY DEF Keeps, Items, Created
<1>3. \A t : Duplicate(o, t)' <=> Duplicate(o, t) BY Zenon DEF Keeps, Duplicate, Same
<1>4. UploadOK(o)' BY <1>1, <1>2, Zenon DEF UploadOK, Keeps
<1>5. ApplyOK(o)'
  <2>1. {t \in Items(o) : ~ Duplicate(o, t)}' = {t \in Items(o) : ~ Duplicate(o, t)}
    BY <1>2, <1>3
  <2> QED BY <1>1, <1>2, <2>1 DEF ApplyOK, Keeps
<1> QED BY <1>4, <1>5

(* So it is enough to look at the one. *)
LEMMA ImportStep ==
    ASSUME ImportsInv, NEW u \in Upload, StepOf(u), ImportTypes', VersionsOK',
           UploadOK(u)', ApplyOK(u)'
    PROVE  ImportsInv'
<1>1. ASSUME NEW o \in Upload \ {u} PROVE UploadOK(o)' /\ ApplyOK(o)'
  BY Spared DEF ImportsInv, StepOf
<1>2. \A o \in Upload : UploadOK(o)' /\ ApplyOK(o)' BY <1>1
<1> QED BY <1>2 DEF ImportsInv, VersionsOK

(* Without new versions, snapshots are what they were, new or gone. *)
LEMMA VersionsKept ==
    ASSUME ImportsInv, UNCHANGED submission_versions,
           \A o \in Upload :
              applies'[o].snapshot \in {applies[o].snapshot, submission_versions, {}}
    PROVE  VersionsOK' /\ \A o \in Upload : Made(o)' = Made(o)
<1>1. \A o \in Upload : SnapshotOK(o)'
  BY NoVersions, Zenon DEF ImportsInv, SnapshotOK
<1>2. \A o \in Upload : Made(o)' = Made(o) BY DEF Made
<1> QED BY <1>1, <1>2 DEF ImportsInv, VersionsOK

(* What the invariant says about one import. *)
LEMMA Given ==
    ASSUME ImportsInv, NEW u \in Upload
    PROVE  /\ ImportTypes /\ SnapshotOK(u) /\ UploadOK(u) /\ ApplyOK(u)
           /\ requests[u] \in RequestRow /\ requests[u].phase \in UploadPhase
           /\ requests[u].archive \in Archive \cup {NoItems}
           /\ imports[u].state \in ImportState
           /\ applies[u].phase \in ApplyPhase /\ applies[u].put \in SUBSET Target
           /\ applies[u].snapshot \in SUBSET submission_versions
BY DEF ImportsInv, ImportTypes, RequestRow, ImportRow, ApplyRow, SnapshotOK

-----------------------------------------------------------------------------
(* Upload.                                                                 *)

(* A step of an upload may set its archive before there is an import, and  *)
(* create the import.                                                      *)
UploadOnly(u) ==
    /\ requests' \in [Upload -> RequestRow]
    /\ \A o \in Upload \ {u} : requests'[o] = requests[o]
    /\ imports' \in [Upload -> ImportRow]
    /\ \A o \in Upload \ {u} : imports'[o] = imports[o]
    /\ \/ imports'[u].state = imports[u].state
       \/ imports[u].state = "none" /\ imports'[u].state = "review_pending"
    /\ requests'[u].archive = requests[u].archive \/ imports[u].state = "none"
    /\ ObjectTypes'
    /\ \A o \in Upload : Parts(o)' = Parts(o)
    /\ \A o \in Upload \ {u} : Original(o)' <=> Original(o)
    /\ UNCHANGED <<submission_versions, applies>> /\ faults \subseteq faults'

(* It does not disturb an apply. *)
LEMMA UploadAlone ==
    ASSUME ImportsInv, NEW u \in Upload, UploadOnly(u), UploadOK(u)'
    PROVE  ImportsInv'
<1>1. VersionsOK' /\ \A o \in Upload : Made(o)' = Made(o)
  BY VersionsKept DEF UploadOnly
<1>2. StepOf(u) BY <1>1 DEF UploadOnly, StepOf, Keeps
<1>3. ImportTypes' BY DEF ImportsInv, ImportTypes, ObjectTypes, UploadOnly
<1>4. ApplyOK(u)'
  <2> ApplyOK(u) /\ applies'[u] = applies[u] /\ Parts(u)' = Parts(u) /\ Made(u)' = Made(u)
    BY <1>1, Given, Zenon DEF UploadOnly
  <2>1. \A kinds : Hurt(kinds, u) => Hurt(kinds, u)' BY Zenon DEF Hurt, UploadOnly
  <2>2. CASE imports[u].state = "none"
    <3>1. applies[u].phase = "idle" /\ applies[u].put = {} /\ Made(u) = {}
      BY <2>2, Zenon DEF ApplyOK
    <3> QED BY <2>1, <3>1, Zenon DEF ApplyOK
  <2>3. CASE imports[u].state # "none"
    <3>1. /\ Items(u)' = Items(u) /\ imports'[u].state = imports[u].state
          /\ requests'[u].archive = requests[u].archive
      BY <2>3 DEF UploadOnly, Items
    <3>2. \A t : Duplicate(u, t)' <=> Duplicate(u, t) BY <3>1 DEF Duplicate, Same
    <3>3. {t \in Items(u) : ~ Duplicate(u, t)}' = {t \in Items(u) : ~ Duplicate(u, t)}
      BY <3>1, <3>2
    <3> QED BY <2>1, <3>1, <3>3, Zenon DEF ApplyOK
  <2> QED BY <2>2, <2>3, Zenon
<1> QED BY <1>1, <1>2, <1>3, <1>4, ImportStep

LEMMA StoreOriginalArchiveKeeps ==
    ASSUME ImportsInv, NEW u \in Upload, NEW a \in Archive, NEW r \in Receipt \cup {None},
           StoreOriginalArchive(u, a, r)
    PROVE  ImportsInv'
<1> ImportTypes /\ UploadOK(u) /\ requests[u].phase = "idle"
  BY Given DEF StoreOriginalArchive
<1>1. PICK p \in {"stored", "done"} :
         /\ requests' = [requests EXCEPT ![u] = [phase |-> p, archive |-> a, receipt |-> r]]
         /\ IF p = "stored" THEN UNCHANGED faults ELSE Fault("error", u)
  BY Zenon DEF StoreOriginalArchive
<1>2. /\ requests' \in [Upload -> RequestRow] /\ requests'[u].phase = p
      /\ \A o \in Upload \ {u} : requests'[o] = requests[o]
  BY <1>1 DEF ImportTypes, RequestRow, UploadPhase
<1>3. /\ ObjectTypes' /\ Original(u)'
      /\ \A o \in Upload : Parts(o)' = Parts(o)
      /\ \A o \in Upload \ {u} : Original(o)' <=> Original(o)
  BY OriginalPut DEF StoreOriginalArchive
<1>4. faults \subseteq faults' /\ (p = "done" => Hurt({"error", "crash"}, u)')
  BY <1>1, FaultHurts
<1>5. ~ Created(u) /\ ~ Created(u)' BY DEF UploadOK, StoreOriginalArchive, Created
<1>6. UploadOnly(u)
  BY <1>2, <1>3, <1>4, <1>5 DEF UploadOnly, StoreOriginalArchive, ImportTypes, Created
<1>7. UploadOK(u)' BY <1>2, <1>3, <1>4, <1>5, Zenon DEF UploadOK
<1> QED BY <1>6, <1>7, UploadAlone, Zenon

(* A handler goes on with the same archive. *)
LEMMA RequestAlone ==
    ASSUME ImportsInv, NEW u \in Upload, NEW p \in UploadPhase, Request(u, p),
           UNCHANGED <<objects, imports, submission_versions, applies>>,
           faults \subseteq faults'
    PROVE  /\ UploadOnly(u) /\ requests'[u].phase = p
           /\ (Original(u)' <=> Original(u)) /\ (Created(u)' <=> Created(u))
<1>1. ImportTypes BY Given
<1> QED BY <1>1, RequestMoves, ObjectsKept DEF UploadOnly, ImportTypes, Created

LEMMA LookUpReceiptKeeps ==
    ASSUME ImportsInv, NEW u \in Upload, LookUpReceipt(u)
    PROVE  ImportsInv'
<1> DEFINE p == IF ReceiptTaken(requests[u].receipt) THEN "found" ELSE "creating"
<1>1. p \in {"found", "creating"} /\ Request(u, p) BY DEF LookUpReceipt
<1> HIDE DEF p
<1>2. /\ UploadOnly(u) /\ requests'[u].phase = p
      /\ (Original(u)' <=> Original(u)) /\ (Created(u)' <=> Created(u))
  BY <1>1, RequestAlone, Zenon DEF LookUpReceipt, UploadPhase
<1>3. UploadOK(u)' BY <1>1, <1>2, Given DEF UploadOK, LookUpReceipt
<1> QED BY <1>2, <1>3, UploadAlone

LEMMA CreateReviewFailsKeeps ==
    ASSUME ImportsInv, NEW u \in Upload, CreateReviewFails(u)
    PROVE  ImportsInv'
<1>1. /\ UploadOnly(u) /\ requests'[u].phase = "failing"
      /\ (Original(u)' <=> Original(u)) /\ (Created(u)' <=> Created(u))
  BY RequestAlone, Zenon DEF CreateReviewFails, UploadPhase
<1>2. UploadOK(u)' BY <1>1, Given DEF UploadOK, CreateReviewFails
<1> QED BY <1>1, <1>2, UploadAlone

LEMMA CreateReviewKeeps ==
    ASSUME ImportsInv, NEW u \in Upload, CreateReview(u)
    PROVE  ImportsInv'
<1> ImportTypes /\ UploadOK(u) BY Given
<1>1. requests[u].phase \in {"stored", "creating"} BY DEF CreateReview, Creating
<1>2. Original(u) /\ ~ Created(u) BY <1>1 DEF UploadOK
<1> DEFINE items == [t \in Items(u) |-> None]
           row == [state |-> "review_pending", items |-> items]
<1>3. items \in [Items(u) -> Upload \cup {None}] OBVIOUS
<1>4. items \in UNION {[T -> Upload \cup {None}] : T \in SUBSET Target}
  BY <1>3, ItemsAreTargets
<1>5. imports' = [imports EXCEPT ![u] = row] BY DEF CreateReview
<1> HIDE DEF items
<1>6. row \in ImportRow /\ row.state = "review_pending" BY <1>4 DEF ImportRow, ImportState
<1> HIDE DEF row
<1>7. /\ imports' \in [Upload -> ImportRow] /\ imports'[u].state = "review_pending"
      /\ \A o \in Upload \ {u} : imports'[o] = imports[o]
  BY <1>5, <1>6 DEF ImportTypes
<1>8. PICK p \in {"done", "failing"} :
         Request(u, p) /\ (IF p = "done" THEN UNCHANGED faults ELSE Fault("unheard", u))
  BY Zenon DEF CreateReview
<1>9. /\ requests' \in [Upload -> RequestRow]
      /\ requests'[u].phase = p /\ requests'[u].archive = requests[u].archive
      /\ \A o \in Upload \ {u} : requests'[o] = requests[o]
  BY <1>8, RequestMoves DEF UploadPhase
<1>10. faults \subseteq faults' /\ (p = "failing" => Hurt({"unheard"}, u)')
  BY <1>8, FaultHurts
<1>11. /\ ObjectTypes'
       /\ \A o \in Upload : Parts(o)' = Parts(o) /\ (Original(o)' <=> Original(o))
  BY ObjectsKept, Zenon DEF CreateReview
<1>12. UploadOnly(u)
  BY <1>2, <1>7, <1>9, <1>10, <1>11, Zenon DEF UploadOnly, CreateReview, Created
<1>13. UploadOK(u)' BY <1>2, <1>7, <1>9, <1>10, <1>11 DEF UploadOK, Created
<1> QED BY <1>12, <1>13, UploadAlone

LEMMA DiscardOriginalKeeps ==
    ASSUME ImportsInv, NEW u \in Upload, DiscardOriginal(u)
    PROVE  ImportsInv'
<1> ImportTypes /\ UploadOK(u) BY Given
<1>1. /\ requests' \in [Upload -> RequestRow]
      /\ requests'[u].phase = "done" /\ requests'[u].archive = requests[u].archive
      /\ \A o \in Upload \ {u} : requests'[o] = requests[o]
  BY RequestMoves, Zenon DEF UploadPhase, DiscardOriginal
<1>2. /\ faults \subseteq faults'
      /\ ObjectTypes'
      /\ \A o \in Upload : Parts(o)' = Parts(o)
      /\ \A o \in Upload \ {u} : Original(o)' <=> Original(o)
      /\ ~ Original(u)' \/ (Original(u) /\ Hurt({"error", "crash"}, u)')
  <2>1. CASE objects' = objects \ {OriginalKey(u)} /\ UNCHANGED faults
    BY <2>1, OriginalDropped, Zenon
  <2>2. CASE Fault("error", u) /\ UNCHANGED objects
    BY <2>2, FaultHurts, ObjectsKept, Zenon DEF DiscardOriginal, UploadOK
  <2> QED BY <2>1, <2>2 DEF DiscardOriginal
<1>3. UploadOnly(u) BY <1>1, <1>2, ImportsKept, Zenon DEF UploadOnly, DiscardOriginal
<1>4. (Created(u)' <=> Created(u)) /\ (Hurt({"unheard"}, u) => Hurt({"unheard"}, u)')
  BY <1>2, Zenon DEF Created, DiscardOriginal, Hurt
<1>5. UploadOK(u)' BY <1>1, <1>2, <1>4 DEF UploadOK, DiscardOriginal
<1> QED BY <1>3, <1>5, UploadAlone

-----------------------------------------------------------------------------
(* Review and apply.                                                       *)

(* A step of an apply changes its row, its items and its import. *)
ApplyOnly(i) ==
    /\ applies' \in [Upload -> ApplyRow]
    /\ \A o \in Upload \ {i} : applies'[o] = applies[o]
    /\ imports' \in [Upload -> ImportRow]
    /\ \A o \in Upload \ {i} : imports'[o] = imports[o]
    /\ Created(i)' <=> Created(i)
    /\ UNCHANGED requests
    /\ ObjectTypes'
    /\ \A o \in Upload \ {i} : Parts(o)' = Parts(o)
    /\ \A o \in Upload : Original(o)' <=> Original(o)
    /\ faults \subseteq faults'

(* It does not disturb an upload. *)
LEMMA ApplyAlone ==
    ASSUME ImportsInv, NEW i \in Upload, ApplyOnly(i), VersionsOK',
           submission_versions' \subseteq VersionRow,
           \A o \in Upload \ {i} : Made(o)' = Made(o),
           ApplyOK(i)'
    PROVE  ImportsInv'
<1>1. StepOf(i) BY Zenon DEF ApplyOnly, StepOf, Keeps
<1>2. ImportTypes' BY DEF ImportsInv, ImportTypes, ObjectTypes, ApplyOnly
<1>3. UploadOK(i)'
  <2>1. \A kinds : Hurt(kinds, i) => Hurt(kinds, i)' BY Zenon DEF Hurt, ApplyOnly
  <2> QED BY <2>1, Given, Zenon DEF UploadOK, ApplyOnly
<1> QED BY <1>1, <1>2, <1>3, ImportStep, Zenon

(* Most steps make no versions. *)
LEMMA ApplyWithoutVersions ==
    ASSUME ImportsInv, NEW i \in Upload, ApplyOnly(i), UNCHANGED submission_versions,
           applies'[i].snapshot \in {applies[i].snapshot, submission_versions, {}}
    PROVE  Made(i)' = Made(i) /\ (ApplyOK(i)' => ImportsInv')
<1>1. VersionsOK' /\ \A o \in Upload : Made(o)' = Made(o)
  BY VersionsKept, Zenon DEF ApplyOnly
<1>2. submission_versions' \subseteq VersionRow BY DEF ImportsInv, ImportTypes
<1> QED BY <1>1, <1>2, ApplyAlone, Zenon

(* Of an import, a step keeps the archive and what hurt it. *)
LEMMA ApplyKeeps ==
    ASSUME NEW i \in Upload, ApplyOnly(i)
    PROVE  /\ Items(i)' = Items(i)
           /\ Hurt({"unheard"}, i) => Hurt({"unheard"}, i)'
           /\ Hurt({"error", "crash"}, i) => Hurt({"error", "crash"}, i)'
BY DEF ApplyOnly, Items, Hurt

LEMMA ReviewKeeps ==
    ASSUME ImportsInv, NEW i \in Upload, Review(i)
    PROVE  ImportsInv'
<1> ImportTypes /\ ApplyOK(i) BY Given
<1>1. PICK s \in {"approved", "rejected"} : SetState(i, s) BY DEF Review
<1>2. /\ imports' \in [Upload -> ImportRow] /\ imports'[i].state = s
      /\ \A o \in Upload \ {i} : imports'[o] = imports[o]
  BY <1>1, StateSet DEF ImportState
<1>3. Created(i)' /\ Created(i) BY <1>2, Zenon DEF Created, Review
<1>4. ApplyOnly(i)
  <2>1. applies' \in [Upload -> ApplyRow] /\ UNCHANGED <<objects, requests, applies, faults>>
    BY DEF Review, ImportTypes
  <2> QED BY <1>2, <1>3, <2>1, ObjectsKept, Zenon DEF ApplyOnly
<1>5. Made(i)' = Made(i) /\ (ApplyOK(i)' => ImportsInv')
  BY <1>4, ApplyWithoutVersions, Zenon DEF Review
<1>6. Parts(i)' = Parts(i) /\ applies' = applies BY ObjectsKept, Zenon DEF Review
<1>7. applies[i].phase = "idle" BY DEF ApplyOK, Review
<1>8. ApplyOK(i)' BY <1>2, <1>4, <1>5, <1>6, <1>7, ApplyKeeps, Zenon DEF ApplyOK, Review
<1> QED BY <1>5, <1>8, Zenon

LEMMA BeginApplyKeeps ==
    ASSUME ImportsInv, NEW i \in Upload, BeginApply(i)
    PROVE  ImportsInv'
<1> ImportTypes /\ ApplyOK(i) BY Given
<1>1. /\ imports' \in [Upload -> ImportRow] /\ imports'[i].state = "applying"
      /\ \A o \in Upload \ {i} : imports'[o] = imports[o]
  BY StateSet DEF ImportState, BeginApply
<1>2. Created(i)' /\ Created(i) BY <1>1, Zenon DEF Created, BeginApply
<1>3. applies[i].phase = "idle" BY Zenon DEF ApplyOK, BeginApply
<1>4. /\ applies' \in [Upload -> ApplyRow]
      /\ applies'[i].phase \in {"begun", "idle"} /\ applies'[i].put = applies[i].put
      /\ applies'[i].snapshot = applies[i].snapshot
      /\ \A o \in Upload \ {i} : applies'[o] = applies[o]
  <2>1. CASE Apply(i, "begun") BY <2>1, ApplyMoves DEF ApplyPhase
  <2>2. CASE UNCHANGED applies BY <1>3, <2>2 DEF ImportTypes
  <2> QED BY <2>1, <2>2, Zenon DEF BeginApply
<1>5. faults \subseteq faults' BY FaultHurts, Zenon DEF BeginApply
<1>6. ApplyOnly(i)
  BY <1>1, <1>2, <1>4, <1>5, ObjectsKept, Zenon DEF ApplyOnly, BeginApply
<1>7. Made(i)' = Made(i) /\ (ApplyOK(i)' => ImportsInv')
  BY <1>4, <1>6, ApplyWithoutVersions DEF BeginApply
<1>8. Parts(i)' = Parts(i) BY ObjectsKept DEF BeginApply
<1>9. ApplyOK(i)' BY <1>1, <1>3, <1>4, <1>6, <1>7, <1>8, ApplyKeeps, Zenon DEF ApplyOK, BeginApply
<1> QED BY <1>7, <1>9, Zenon

(* The handler moves on, whatever happens to its objects. *)
LEMMA HandlerMoves ==
    ASSUME ImportsInv, NEW i \in Upload, NEW p \in ApplyPhase, Apply(i, p),
           UNCHANGED <<requests, imports, submission_versions>>,
           ObjectTypes', faults \subseteq faults',
           \A o \in Upload \ {i} : Parts(o)' = Parts(o),
           \A o \in Upload : Original(o)' <=> Original(o)
    PROVE  /\ ApplyOnly(i) /\ applies'[i].phase = p /\ applies'[i].put = applies[i].put
           /\ imports'[i].state = imports[i].state
           /\ Made(i)' = Made(i) /\ (ApplyOK(i)' => ImportsInv')
<1> ImportTypes BY Given, Zenon
<1>1. /\ applies' \in [Upload -> ApplyRow]
      /\ applies'[i].phase = p /\ applies'[i].put = applies[i].put
      /\ applies'[i].snapshot = applies[i].snapshot
      /\ \A o \in Upload \ {i} : applies'[o] = applies[o]
  BY ApplyMoves, Zenon
<1>2. ApplyOnly(i) BY <1>1, ImportsKept, Zenon DEF ApplyOnly
<1> QED BY <1>1, <1>2, ApplyWithoutVersions, Zenon

LEMMA OpenOriginalKeeps ==
    ASSUME ImportsInv, NEW i \in Upload, OpenOriginal(i)
    PROVE  ImportsInv'
<1> ImportTypes /\ ApplyOK(i) BY Given
<1>1. PICK p \in {"writing", "finishing"} : Apply(i, p) BY Zenon DEF OpenOriginal
<1>2. /\ ApplyOnly(i) /\ applies'[i].phase = p /\ applies'[i].put = applies[i].put
      /\ imports'[i].state = imports[i].state
      /\ Made(i)' = Made(i) /\ (ApplyOK(i)' => ImportsInv')
  BY <1>1, HandlerMoves, ObjectsKept, Zenon DEF OpenOriginal, ApplyPhase
<1>3. Parts(i)' = Parts(i) BY ObjectsKept DEF OpenOriginal
<1>4. ApplyOK(i)' BY <1>2, <1>3, ApplyKeeps, Zenon DEF ApplyOK, OpenOriginal
<1> QED BY <1>2, <1>4

LEMMA PutItemKeeps ==
    ASSUME ImportsInv, NEW i \in Upload, NEW t \in Target, PutItem(i, t)
    PROVE  ImportsInv'
<1> ImportTypes /\ ApplyOK(i) BY Given
<1>1. /\ applies' \in [Upload -> ApplyRow]
      /\ applies'[i].phase = applies[i].phase
      /\ applies'[i].put = applies[i].put \cup {t}
      /\ applies'[i].snapshot = applies[i].snapshot
      /\ \A o \in Upload \ {i} : applies'[o] = applies[o]
  BY ApplyWrites, Zenon DEF PutItem
<1>2. applies[i].phase = "writing" /\ t \in Items(i) BY DEF PutItem
<1>3. /\ ObjectTypes' /\ Parts(i)' = Parts(i) \cup {t}
      /\ \A o \in Upload \ {i} : Parts(o)' = Parts(o)
      /\ \A o \in Upload : Original(o)' <=> Original(o)
  BY PartPut, Zenon DEF PutItem
<1>4. UNCHANGED <<requests, imports, submission_versions, faults>> BY Zenon DEF PutItem
<1>5. ApplyOnly(i) BY <1>1, <1>3, <1>4, ImportsKept, Zenon DEF ApplyOnly
<1>6. Made(i)' = Made(i) /\ (ApplyOK(i)' => ImportsInv')
  BY <1>1, <1>4, <1>5, ApplyWithoutVersions, Zenon
<1>7. ApplyOK(i)' BY <1>1, <1>2, <1>3, <1>4, <1>5, <1>6, ApplyKeeps, Zenon DEF ApplyOK
<1> QED BY <1>6, <1>7, Zenon

LEMMA BeginCommitKeeps ==
    ASSUME ImportsInv, NEW i \in Upload, BeginCommit(i)
    PROVE  ImportsInv'
<1> ImportTypes /\ ApplyOK(i) BY Given
<1>1. /\ applies' \in [Upload -> ApplyRow]
      /\ applies'[i].phase = "committing" /\ applies'[i].put = applies[i].put
      /\ applies'[i].snapshot = submission_versions
      /\ \A o \in Upload \ {i} : applies'[o] = applies[o]
  BY ApplyOpens, Zenon DEF BeginCommit
<1>2. applies[i].phase = "writing" /\ applies[i].put = Items(i) BY DEF BeginCommit
<1>3. UNCHANGED <<objects, requests, imports, submission_versions, faults>>
  BY Zenon DEF BeginCommit
<1>4. /\ ObjectTypes'
      /\ \A o \in Upload : Parts(o)' = Parts(o) /\ (Original(o)' <=> Original(o))
  BY <1>3, ObjectsKept, Zenon
<1>5. ApplyOnly(i) BY <1>1, <1>3, <1>4, ImportsKept, Zenon DEF ApplyOnly
<1>6. Made(i)' = Made(i) /\ (ApplyOK(i)' => ImportsInv')
  BY <1>1, <1>3, <1>5, ApplyWithoutVersions
<1>7. ApplyOK(i)' BY <1>1, <1>2, <1>3, <1>4, <1>5, <1>6, ApplyKeeps, Zenon DEF ApplyOK
<1> QED BY <1>6, <1>7

LEMMA ApplyFailsKeeps ==
    ASSUME ImportsInv, NEW i \in Upload, ApplyFails(i)
    PROVE  ImportsInv'
<1> ImportTypes /\ ApplyOK(i) BY Given
<1>1. /\ ObjectTypes'
      /\ \A o \in Upload \ {i} : Parts(o)' = Parts(o)
      /\ \A o \in Upload : Original(o)' <=> Original(o)
  <2>1. CASE UNCHANGED objects BY <2>1, ObjectsKept
  <2>2. CASE \E t \in Items(i) : objects' = objects \cup {NormalizedKey(i, t)}
    BY <2>2, PartPut, ItemsAreTargets, Zenon
  <2> QED BY <2>1, <2>2, Zenon DEF ApplyFails
<1>2. faults \subseteq faults' /\ Hurt({"error", "crash"}, i)'
  BY FaultHurts, Zenon DEF ApplyFails
<1>3. /\ ApplyOnly(i) /\ applies'[i].phase = "cleaning"
      /\ applies'[i].put = applies[i].put /\ imports'[i].state = imports[i].state
      /\ Made(i)' = Made(i) /\ (ApplyOK(i)' => ImportsInv')
  BY <1>1, <1>2, HandlerMoves, Zenon DEF ApplyFails, ApplyPhase
<1>4. applies[i].phase \in {"begun", "writing", "committing"} /\ Made(i) = {}
  BY DEF ApplyFails, ApplyOK
<1>5. ApplyOK(i)' BY <1>2, <1>3, <1>4, ApplyKeeps, Zenon DEF ApplyOK
<1> QED BY <1>3, <1>5

LEMMA CommitApplyConflictKeeps ==
    ASSUME ImportsInv, NEW i \in Upload, CommitApplyConflict(i)
    PROVE  ImportsInv'
<1> ImportTypes /\ ApplyOK(i) BY Given
<1>1. /\ ApplyOnly(i) /\ applies'[i].phase = "cleaning"
      /\ applies'[i].put = applies[i].put /\ imports'[i].state = imports[i].state
      /\ Made(i)' = Made(i) /\ (ApplyOK(i)' => ImportsInv')
  BY HandlerMoves, ObjectsKept, Zenon DEF CommitApplyConflict, ApplyPhase
<1>2. Parts(i)' = Parts(i) BY ObjectsKept DEF CommitApplyConflict
<1>3. ApplyOK(i)' BY <1>1, <1>2, ApplyKeeps, Zenon DEF ApplyOK, CommitApplyConflict
<1> QED BY <1>1, <1>3

LEMMA CleanUpKeeps ==
    ASSUME ImportsInv, NEW i \in Upload, CleanUp(i)
    PROVE  ImportsInv'
<1> ImportTypes /\ ApplyOK(i) /\ applies[i].put \in SUBSET Target BY Given, Zenon
<1>1. /\ ObjectTypes'
      /\ \A o \in Upload \ {i} : Parts(o)' = Parts(o)
      /\ \A o \in Upload : Original(o)' <=> Original(o)
      /\ faults \subseteq faults'
      /\ Parts(i)' = Parts(i) \ applies[i].put \/ Hurt({"error", "crash"}, i)'
  <2> DEFINE mine == {NormalizedKey(i, t) : t \in applies[i].put}
  <2>1. CASE objects' = objects \ mine /\ UNCHANGED faults BY <2>1, PartsDropped, Zenon
  <2>2. CASE Fault("error", i) /\ \E k \in mine : objects' = objects \ (mine \ {k})
    <3>1. PICK t \in applies[i].put : objects' = objects \ (mine \ {NormalizedKey(i, t)})
      BY <2>2
    <3>2. mine \ {NormalizedKey(i, t)} = {NormalizedKey(i, s) : s \in applies[i].put \ {t}}
      BY KeysDiffer
    <3> DEFINE T == applies[i].put \ {t}
    <3>3. objects' = objects \ {NormalizedKey(i, s) : s \in T} /\ T \in SUBSET Target
      BY <3>1, <3>2
    <3> HIDE DEF T
    <3>4. /\ ObjectTypes' /\ \A o \in Upload \ {i} : Parts(o)' = Parts(o)
          /\ \A o \in Upload : Original(o)' <=> Original(o)
      BY <3>3, PartsDropped, Zenon
    <3>5. faults \subseteq faults' /\ Hurt({"error", "crash"}, i)' BY <2>2, FaultHurts, Zenon
    <3> QED BY <3>4, <3>5, Zenon
  <2> QED BY <2>1, <2>2, Zenon DEF CleanUp
<1>2. /\ ApplyOnly(i) /\ applies'[i].phase = "finishing"
      /\ applies'[i].put = applies[i].put /\ imports'[i].state = imports[i].state
      /\ Made(i)' = Made(i) /\ (ApplyOK(i)' => ImportsInv')
  BY <1>1, HandlerMoves DEF CleanUp, ApplyPhase
<1>3. applies[i].phase = "cleaning" BY Zenon DEF CleanUp
<1>4. Made(i) = {} \/ Hurt({"unheard"}, i) BY <1>3, Zenon DEF ApplyOK
<1>5. Hurt({"error", "crash"}, i) \/ Parts(i) \subseteq applies[i].put
  BY <1>3 DEF ApplyOK
<1>6. ApplyOK(i)' BY <1>1, <1>2, <1>3, <1>4, <1>5, ApplyKeeps, Zenon DEF ApplyOK
<1> QED BY <1>2, <1>6

LEMMA DropDuplicatesKeeps ==
    ASSUME ImportsInv, NEW i \in Upload, DropDuplicates(i)
    PROVE  ImportsInv'
<1> ImportTypes /\ ApplyOK(i) /\ Items(i) \subseteq Target BY Given, ItemsAreTargets
<1> DEFINE again == {t \in Items(i) : Duplicate(i, t)}
<1>1. /\ ObjectTypes' /\ Parts(i)' = Parts(i) \ again
      /\ \A o \in Upload \ {i} : Parts(o)' = Parts(o)
      /\ \A o \in Upload : Original(o)' <=> Original(o)
  <2>1. objects' = objects \ {NormalizedKey(i, t) : t \in again} BY DEF DropDuplicates
  <2>2. again \in SUBSET Target OBVIOUS
  <2> HIDE DEF again
  <2> QED BY <2>1, <2>2, PartsDropped
<1>2. /\ applies' \in [Upload -> ApplyRow]
      /\ applies'[i].phase = "done" /\ applies'[i].put = {}
      /\ applies'[i].snapshot = {}
      /\ \A o \in Upload \ {i} : applies'[o] = applies[o]
  BY ApplyOver, Zenon DEF DropDuplicates
<1>3. ApplyOnly(i)
  BY <1>1, <1>2 DEF ApplyOnly, ImportTypes, Created, DropDuplicates
<1>4. Made(i)' = Made(i) /\ (ApplyOK(i)' => ImportsInv')
  BY <1>2, <1>3, ApplyWithoutVersions DEF DropDuplicates
<1>5. /\ applies[i].phase = "committed" /\ imports'[i].state = imports[i].state
  BY Zenon DEF DropDuplicates
<1>6. Made(i) = Items(i) \ again /\ applies[i].put = Items(i) BY <1>5, Zenon DEF ApplyOK
<1>7. Made(i) \subseteq Parts(i)' \/ Hurt({"unheard"}, i)
  BY <1>1, <1>6, Zenon DEF ApplyOK
<1>8. Hurt({"error", "crash"}, i) \/ Parts(i)' \subseteq Made(i)
  BY <1>1, <1>5, <1>6, Zenon DEF ApplyOK
<1> HIDE DEF again
<1>9. Made(i) # {} => imports[i].state = "completed" BY Zenon DEF ApplyOK
<1>10. imports[i].state \notin {"none", "review_pending", "approved"} BY <1>5 DEF ApplyOK
<1>11. ApplyOK(i)'
  BY <1>2, <1>3, <1>4, <1>5, <1>7, <1>8, <1>9, <1>10, ApplyKeeps, Zenon DEF ApplyOK
<1> QED BY <1>4, <1>11, Zenon

LEMMA FinishKeeps ==
    ASSUME ImportsInv, NEW i \in Upload, Finish(i)
    PROVE  ImportsInv'
<1> ImportTypes /\ ApplyOK(i) /\ imports[i].state \in ImportState BY Given
<1>1. /\ applies' \in [Upload -> ApplyRow]
      /\ applies'[i].phase = "done" /\ applies'[i].put = {}
      /\ applies'[i].snapshot = {}
      /\ \A o \in Upload \ {i} : applies'[o] = applies[o]
  BY ApplyOver, Zenon DEF Finish
<1>2. /\ applies[i].phase = "finishing"
      /\ UNCHANGED <<objects, requests, submission_versions>>
  BY Zenon DEF Finish
<1> DEFINE s == IF imports[i].state = "applying" THEN "failed" ELSE imports[i].state
<1>3. /\ faults \subseteq faults'
      /\ imports' \in [Upload -> ImportRow]
      /\ \A o \in Upload \ {i} : imports'[o] = imports[o]
      /\ imports'[i].state \in {imports[i].state, s}
  <2>1. CASE imports' = [imports EXCEPT ![i].state = IF @ = "applying" THEN "failed" ELSE @]
             /\ UNCHANGED faults
    <3>1. SetState(i, s) BY <2>1, Zenon DEF SetState
    <3>2. s \in ImportState BY DEF ImportState
    <3> HIDE DEF s
    <3> QED BY <2>1, <3>1, <3>2, StateSet, Zenon
  <2>2. CASE Fault("error", i) /\ UNCHANGED imports
    BY <2>2, FaultHurts DEF ImportTypes
  <2> QED BY <2>1, <2>2, Zenon DEF Finish
<1>4. imports[i].state \notin {"none", "review_pending", "approved"} BY <1>2, Zenon DEF ApplyOK
<1>5. ApplyOnly(i)
  BY <1>1, <1>2, <1>3, <1>4, ObjectsKept, Zenon DEF ApplyOnly, Created
<1>6. Made(i)' = Made(i) /\ (ApplyOK(i)' => ImportsInv')
  BY <1>1, <1>2, <1>5, ApplyWithoutVersions, Zenon
<1>7. Parts(i)' = Parts(i) BY <1>2, ObjectsKept
<1>8. ApplyOK(i)'
  BY <1>1, <1>2, <1>3, <1>4, <1>5, <1>6, <1>7, ApplyKeeps, Zenon DEF ApplyOK
<1> QED BY <1>6, <1>8

-----------------------------------------------------------------------------
(* The commit of an apply.                                                 *)

(* Rows that find their numbers free follow the versions there are, since  *)
(* the snapshot they were numbered by is not behind for these targets.     *)
LEMMA CommitNumbers ==
    ASSUME ImportsInv, NEW i \in Upload, CommitApply(i)
    PROVE  /\ VersionsOK' /\ submission_versions' \subseteq VersionRow
           /\ \A o \in Upload \ {i} : Made(o)' = Made(o)
           /\ Made(i)' = Made(i) \cup {t \in Items(i) : ~ Duplicate(i, t)}
<1> DEFINE V == submission_versions
           S == applies[i].snapshot
           fresh == {t \in Items(i) : ~ Duplicate(i, t)}
           New(t) == [target |-> t, digest |-> requests[i].archive[t], import |-> i,
                      version_no |-> NextVersion(i, t)]
           W == V \cup {New(t) : t \in fresh}
<1>1. /\ ImportTypes /\ Items(i) \subseteq Target
      /\ \A t \in Items(i) : requests[i].archive[t] \in Digest
      /\ S \in SUBSET V /\ V \subseteq VersionRow
      /\ \A t \in Target : Numbered(V, t) /\ Numbered(S, t)
      /\ Different(V)
  <2>1. ImportTypes /\ SnapshotOK(i) /\ S \in SUBSET V BY Given
  <2>2. Items(i) \subseteq Target /\ \A t \in Items(i) : requests[i].archive[t] \in Digest
    BY <2>1, ItemsAreTargets
  <2>3. V \subseteq VersionRow BY <2>1 DEF ImportTypes
  <2>4. (\A t \in Target : Numbered(V, t)) /\ Different(V) BY Zenon DEF ImportsInv
  <2>5. \A t \in Target : Numbered(S, t) BY <2>1 DEF SnapshotOK
  <2> QED BY <2>1, <2>2, <2>3, <2>4, <2>5, Zenon
<1>2. submission_versions' = W BY Zenon DEF CommitApply, NewVersions
<1>3. ASSUME NEW t \in Target
      PROVE  /\ Cardinality(Of(S, t)) \in Nat
             /\ NextVersion(i, t) = 1 + Cardinality(Of(S, t))
  BY <1>1, HighestNumber, Zenon DEF NextVersion, Of
<1>4. ASSUME NEW t \in fresh
      PROVE  /\ New(t) \in VersionRow /\ New(t).target = t /\ New(t).import = i
             /\ New(t).digest = requests[i].archive[t]
             /\ New(t).version_no = 1 + Cardinality(Of(S, t))
             /\ \A w \in Of(V, t) : w.version_no # New(t).version_no
  <2>1. t \in Target /\ t \in Items(i) BY <1>1, SMTT(20)
  <2>2. New(t) \in VersionRow BY <1>1, <1>3, <2>1 DEF VersionRow
  <2>3. New(t) \in NewVersions(i) BY DEF NewVersions
  <2>4. \A w \in Versions(t) : w.version_no # New(t).version_no
    BY <2>3, Zenon DEF CommitApply, Fits, VersionNumberFree
  <2> QED BY <1>3, <2>1, <2>2, <2>4, SMTT(20) DEF Of, Versions
<1> HIDE DEF New, fresh
<1>5. ASSUME NEW t
      PROVE  /\ t \in fresh => Of(W, t) = Of(V, t) \cup {New(t)}
             /\ t \notin fresh => Of(W, t) = Of(V, t)
  <2>1. \A v : v \in Of(W, t) <=> v \in Of(V, t) \/ \E s \in fresh : v = New(s) /\ v.target = t
    BY Zenon DEF Of
  <2>2. \A s \in fresh : New(s).target = s BY <1>4
  <2> HIDE DEF W, V
  <2>3. \A v : v \in Of(W, t) <=> v \in Of(V, t) \/ (t \in fresh /\ v = New(t))
    BY <2>1, <2>2, Zenon
  <2> QED BY <2>3, Zenon
<1>6. ASSUME NEW t \in fresh PROVE Of(S, t) = Of(V, t) /\ Numbered(W, t)
  <2>1. t \in Target BY <1>1 DEF fresh
  <2> HIDE DEF W, V, S
  <2> QED BY <1>1, <1>4, <1>5, <2>1, NextNumber, SMTT(20)
<1>7. ASSUME NEW t \in Target PROVE Numbered(W, t)
  <2>1. CASE t \notin fresh
    <3>1. Of(W, t) = Of(V, t) BY <1>5, <2>1
    <3> QED BY <1>1, <3>1, Zenon DEF Numbered
  <2> QED BY <1>6, <2>1, Zenon
<1>8. ASSUME NEW v \in V, NEW t \in fresh, v.target = t
      PROVE  v.digest # New(t).digest
  <2>1. v \in Of(S, t) BY <1>6, <1>8, Zenon DEF Of
  <2>2. ~ Duplicate(i, t) BY DEF fresh
  <2> QED BY <1>4, <2>1, <2>2, Zenon DEF Of, Duplicate, Same
<1>9. Different(W)
  <2> SUFFICES ASSUME NEW v \in W, NEW w \in W, v.target = w.target, v.digest = w.digest
               PROVE  v = w
    BY DEF Different
  <2>1. CASE v \in V /\ w \in V BY <1>1, <2>1 DEF Different
  <2>2. CASE v \in V /\ \E t \in fresh : w = New(t) BY <1>4, <1>8, <2>2
  <2>3. CASE w \in V /\ \E t \in fresh : v = New(t) BY <1>4, <1>8, <2>3
  <2>4. CASE \E s, t \in fresh : v = New(s) /\ w = New(t) BY <1>4, <2>4
  <2> QED BY <2>1, <2>2, <2>3, <2>4
<1>10. ASSUME NEW o \in Upload PROVE SnapshotOK(o)'
  <2>1. applies'[o].snapshot = applies[o].snapshot
    BY <1>1, ApplyMoves, Zenon DEF CommitApply, ApplyPhase
  <2>2. applies[o].snapshot \subseteq W BY Zenon DEF ImportsInv, SnapshotOK
  <2> HIDE DEF W
  <2> QED BY <1>2, <2>1, <2>2, Zenon DEF ImportsInv, SnapshotOK
<1>11. W \subseteq VersionRow BY <1>1, <1>4
<1>12. ASSUME NEW o \in Upload \ {i} PROVE Made(o)' = Made(o)
  BY <1>2, <1>4 DEF Made
<1>13. Made(i)' = Made(i) \cup fresh
  BY <1>2, <1>4 DEF Made
<1> HIDE DEF W
<1> QED BY <1>2, <1>7, <1>9, <1>10, <1>11, <1>12, <1>13 DEF VersionsOK, fresh

(* The items of an import are for uploads. *)
LEMMA VersionForType ==
    ASSUME ImportsInv, NEW i \in Upload, NEW t \in Items(i)
    PROVE  VersionFor(i, t) \in Upload
<1>1. CASE Duplicate(i, t)
  <2>1. Same(i, t) \subseteq submission_versions /\ submission_versions \subseteq VersionRow
    BY Given DEF Same, ImportTypes
  <2>2. \A v, w \in Same(i, t) : v = w
    BY <2>1 DEF Same, ImportsInv, Different
  <2>3. PICK v \in Same(i, t) : TRUE BY <1>1 DEF Duplicate
  <2>4. \A w \in Same(i, t) : w.version_no <= v.version_no
    BY <2>1, <2>2, <2>3 DEF VersionRow
  <2> DEFINE c == CHOOSE x \in Same(i, t) : \A w \in Same(i, t) : w.version_no <= x.version_no
  <2>5. c \in Same(i, t) BY <2>3, <2>4
  <2>6. c.import \in Upload BY <2>1, <2>5 DEF VersionRow
  <2> QED BY <1>1, <2>6, Zenon DEF VersionFor
<1>2. CASE ~ Duplicate(i, t) BY <1>2 DEF VersionFor
<1> QED BY <1>1, <1>2

LEMMA CommitApplyKeeps ==
    ASSUME ImportsInv, NEW i \in Upload, CommitApply(i)
    PROVE  ImportsInv'
<1> ImportTypes /\ ApplyOK(i) BY Given
<1> DEFINE items == [t \in Items(i) |-> VersionFor(i, t)]
           row == [state |-> "completed", items |-> items]
           fresh == {t \in Items(i) : ~ Duplicate(i, t)}
<1>1. items \in [Items(i) -> Upload \cup {None}] BY VersionForType
<1>2. items \in UNION {[T -> Upload \cup {None}] : T \in SUBSET Target}
  BY <1>1, ItemsAreTargets, Zenon
<1>3. imports' = [imports EXCEPT ![i] = row] BY Zenon DEF CommitApply
<1> HIDE DEF items
<1>4. row \in ImportRow /\ row.state = "completed" BY <1>2 DEF ImportRow, ImportState
<1> HIDE DEF row
<1>5. /\ imports' \in [Upload -> ImportRow] /\ imports'[i].state = "completed"
      /\ \A o \in Upload \ {i} : imports'[o] = imports[o]
  BY <1>3, <1>4 DEF ImportTypes
<1>6. PICK p \in {"committed", "cleaning"} :
         Apply(i, p) /\ (IF p = "committed" THEN UNCHANGED faults ELSE Fault("unheard", i))
  BY Zenon DEF CommitApply
<1>7. /\ applies' \in [Upload -> ApplyRow]
      /\ applies'[i].phase = p /\ applies'[i].put = applies[i].put
      /\ applies'[i].snapshot = applies[i].snapshot
      /\ \A o \in Upload \ {i} : applies'[o] = applies[o]
  BY <1>6, ApplyMoves DEF ApplyPhase
<1>8. faults \subseteq faults' /\ (p = "cleaning" => Hurt({"unheard"}, i)')
  BY <1>6, FaultHurts, Zenon
<1>9. /\ applies[i].phase = "committing" /\ imports[i].state = "applying"
      /\ UNCHANGED <<objects, requests>>
  BY Zenon DEF CommitApply
<1>10. /\ ObjectTypes'
       /\ \A o \in Upload : Parts(o)' = Parts(o) /\ (Original(o)' <=> Original(o))
  BY <1>9, ObjectsKept, Zenon
<1>11. ApplyOnly(i)
  BY <1>5, <1>7, <1>8, <1>9, <1>10, Zenon DEF ApplyOnly, Created
<1>12. \A t : Duplicate(i, t)' <=> Duplicate(i, t) BY <1>7, <1>9 DEF Duplicate, Same
<1>13. fresh' = fresh BY <1>11, <1>12, ApplyKeeps
<1>14. /\ VersionsOK' /\ submission_versions' \subseteq VersionRow
       /\ \A o \in Upload \ {i} : Made(o)' = Made(o)
  BY CommitNumbers
<1>15. Made(i)' = fresh
  <2>1. Made(i) = {} BY <1>9, Zenon DEF ApplyOK
  <2> QED BY <2>1, CommitNumbers, Zenon
<1>16. /\ applies[i].put = Items(i) /\ applies[i].put \subseteq Parts(i)
       /\ fresh \subseteq Items(i)
       /\ Hurt({"error", "crash"}, i) \/ Parts(i) \subseteq applies[i].put
  BY <1>9 DEF ApplyOK
<1>17. ApplyOK(i)'
  <2> HIDE DEF fresh
  <2>1. (applies'[i].phase = "committed" => Made(i)' = fresh') BY <1>13, <1>15
  <2> QED BY <1>5, <1>7, <1>8, <1>9, <1>10, <1>11, <1>15, <1>16, <2>1, ApplyKeeps, Zenon
          DEF ApplyOK, fresh
<1> QED BY <1>11, <1>14, <1>17, ApplyAlone

-----------------------------------------------------------------------------
(* A crash ends every handler, and is remembered for each.                 *)
LEMMA CrashKeeps ==
    ASSUME ImportsInv, Crash
    PROVE  ImportsInv'
<1>1. /\ faults' = faults \cup {<<"crash", u>> : u \in Uploading \cup Applying}
      /\ UNCHANGED <<objects, imports, submission_versions>>
  BY DEF Crash
<1>2. ASSUME NEW u \in Upload
      PROVE  /\ requests'[u] \in RequestRow
             /\ requests'[u].archive = requests[u].archive
             /\ requests'[u].phase = IF u \in Uploading THEN "done" ELSE requests[u].phase
  <2> DEFINE n == [requests[u] EXCEPT !.phase = "done"]
  <2>1. requests[u] \in RequestRow BY Given
  <2>2. requests'[u] = IF u \in Uploading THEN n ELSE requests[u] BY DEF Crash
  <2>3. n \in RequestRow /\ n.phase = "done" /\ n.archive = requests[u].archive
    BY <2>1, Zenon DEF RequestRow, UploadPhase
  <2> HIDE DEF n
  <2> QED BY <2>1, <2>2, <2>3, Zenon
<1>3. ASSUME NEW i \in Upload
      PROVE  applies'[i] \in ApplyRow /\ applies'[i] = IF i \in Applying THEN Over ELSE applies[i]
  BY Given DEF Crash, Over, ApplyRow, ApplyPhase, ImportTypes
<1>4. ImportTypes'
  <2>1. requests' \in [Upload -> RequestRow]
    <3>1. requests' = [u \in Upload |-> requests'[u]] BY DEF Crash
    <3> QED BY <1>2, <3>1
  <2>2. applies' \in [Upload -> ApplyRow]
    <3>1. applies' = [i \in Upload |-> applies'[i]] BY Zenon DEF Crash
    <3> QED BY <1>3, <3>1
  <2> QED BY <1>1, <2>1, <2>2 DEF ImportsInv, ImportTypes
<1>5. VersionsOK' /\ \A o \in Upload : Made(o)' = Made(o)
  <2>1. \A o \in Upload : applies'[o].snapshot \in {applies[o].snapshot, {}}
    BY <1>3 DEF Over
  <2> QED BY <1>1, <2>1, VersionsKept
<1>6. ASSUME NEW u \in Upload PROVE UploadOK(u)' /\ ApplyOK(u)'
  <2>1. /\ UploadOK(u) /\ ApplyOK(u)
        /\ requests[u].phase \in UploadPhase /\ applies[u].phase \in ApplyPhase
    BY Given, Zenon
  <2>2. /\ Parts(u)' = Parts(u) /\ (Original(u)' <=> Original(u))
        /\ (Created(u)' <=> Created(u)) /\ imports'[u].state = imports[u].state
        /\ Items(u)' = Items(u) /\ Made(u)' = Made(u)
    BY <1>1, <1>2, <1>5 DEF Parts, Original, Created, Items
  <2>3. /\ \A kinds : Hurt(kinds, u) => Hurt(kinds, u)'
        /\ u \in Uploading \cup Applying => Hurt({"error", "crash"}, u)'
    BY <1>1 DEF Hurt
  <2>4. UploadOK(u)'
    BY <1>2, <2>1, <2>2, <2>3, Zenon DEF UploadOK, Uploading, UploadPhase
  <2>5. CASE u \notin Applying
    <3>1. applies'[u] = applies[u] BY <1>3, <2>5
    <3>2. applies[u].phase \in {"idle", "done"} BY <2>5 DEF Applying
    <3>3. ApplyOK(u)' BY <2>1, <2>2, <2>3, <3>1, <3>2, Zenon DEF ApplyOK
    <3> QED BY <2>4, <3>3
  <2>6. CASE u \in Applying
    <3>1. applies'[u].phase = "done" /\ applies'[u].put = {} BY <1>3, <2>6 DEF Over
    <3>2. applies[u].phase # "idle" BY <2>6 DEF Applying
    <3>3. ApplyOK(u)' BY <2>1, <2>2, <2>3, <2>6, <3>1, <3>2, Zenon DEF ApplyOK
    <3> QED BY <2>4, <3>3
  <2> QED BY <2>5, <2>6, Zenon
<1> QED BY <1>4, <1>5, <1>6 DEF ImportsInv, VersionsOK

-----------------------------------------------------------------------------
(* The theorems.                                                           *)

LEMMA InitImports ==
    ASSUME Init
    PROVE  ImportsInv
<1>1. ImportTypes
  <2>1. NoItems \in [{} -> Upload \cup {None}] BY DEF NoItems
  <2>2. NoItems \in UNION {[T -> Upload \cup {None}] : T \in SUBSET Target} BY <2>1, Zenon
  <2>3. requests \in [Upload -> RequestRow] BY Zenon DEF Init, RequestRow, UploadPhase
  <2>4. imports \in [Upload -> ImportRow] BY <2>2, Zenon DEF Init, ImportRow, ImportState
  <2>5. applies \in [Upload -> ApplyRow] BY Zenon DEF Init, ApplyRow, ApplyPhase
  <2> QED BY <2>3, <2>4, <2>5 DEF Init, ImportTypes
<1>2. (\A t \in Target : Numbered(submission_versions, t)) /\ Different(submission_versions)
  BY NoVersions DEF Init, Different
<1>3. ASSUME NEW u \in Upload PROVE SnapshotOK(u) /\ UploadOK(u) /\ ApplyOK(u)
  <2>1. SnapshotOK(u) BY NoVersions, Zenon DEF Init, SnapshotOK
  <2>2. Parts(u) = {} /\ ~ Original(u) /\ Made(u) = {} /\ ~ Created(u)
    BY DEF Init, Parts, Original, Made, Created
  <2>3. requests[u].phase = "idle" /\ applies[u].phase = "idle" /\ applies[u].put = {}
    BY DEF Init
  <2>4. UploadOK(u) BY <2>2, <2>3 DEF UploadOK
  <2>5. ApplyOK(u) BY <2>2, <2>3, Zenon DEF ApplyOK
  <2> QED BY <2>1, <2>4, <2>5, Zenon
<1> QED BY <1>1, <1>2, <1>3, Zenon DEF ImportsInv

LEMMA NextImports ==
    ASSUME ImportsInv, [Next]_vars
    PROVE  ImportsInv'
<1>1. CASE UNCHANGED vars
  <2>1. UNCHANGED <<objects, requests, imports, submission_versions, applies, faults>>
    BY <1>1 DEF vars
  <2>2. VersionsOK' /\ \A o \in Upload : Made(o)' = Made(o) BY <2>1, VersionsKept
  <2>3. ImportTypes' BY <2>1, SMTT(20) DEF ImportsInv, ImportTypes
  <2>4. \A o \in Upload : Keeps(o) BY <2>1, <2>2, SMTT(20) DEF Keeps, Parts, Original
  <2>5. \A o \in Upload : UploadOK(o)' /\ ApplyOK(o)'
    BY <2>1, <2>4, Given, Spared
  <2> QED BY <2>2, <2>3, <2>5 DEF ImportsInv, VersionsOK
<1>2. ASSUME NEW u \in Upload, NEW a \in Archive, NEW r \in Receipt \cup {None},
             StoreOriginalArchive(u, a, r)
      PROVE  ImportsInv'
  BY <1>2, StoreOriginalArchiveKeeps
<1>3. ASSUME NEW u \in Upload, UploadStep(u) PROVE ImportsInv'
  BY <1>3, LookUpReceiptKeeps, CreateReviewKeeps, CreateReviewFailsKeeps,
     DiscardOriginalKeeps, Zenon DEF UploadStep
<1>4. ASSUME NEW i \in Upload, ApplyStep(i) PROVE ImportsInv'
  BY <1>4, OpenOriginalKeeps, BeginCommitKeeps, CommitApplyKeeps, CommitApplyConflictKeeps,
     DropDuplicatesKeeps, CleanUpKeeps, FinishKeeps, PutItemKeeps, SMTT(20) DEF ApplyStep
<1>5. ASSUME NEW i \in Upload, Review(i) \/ BeginApply(i) \/ ApplyFails(i)
      PROVE  ImportsInv'
  BY <1>5, ReviewKeeps, BeginApplyKeeps, ApplyFailsKeeps
<1>6. CASE Crash BY <1>6, CrashKeeps
<1> QED BY <1>1, <1>2, <1>3, <1>4, <1>5, <1>6, Zenon DEF Next

(* The invariant holds in every state. *)
LEMMA ImportsInvariant == Spec => []ImportsInv
BY InitImports, NextImports, PTL DEF Spec

(* VersionsOrdered: whatever applies run at the same time, the versions of *)
(* a student's lab are numbered without a gap and differ in content.  The  *)
(* unique key over the number is what makes it so: CommitApply counts and  *)
(* compares by a snapshot that may be old.                                 *)
THEOREM VersionsOrderedCorrect == Spec => []VersionsOrdered
<1>1. ImportsInv => VersionsOrdered
  <2> SUFFICES ASSUME ImportsInv PROVE VersionsOrdered OBVIOUS
  <2>1. \A t : Versions(t) = Of(submission_versions, t) BY DEF Versions, Of
  <2>2. ASSUME NEW t \in Target, NEW v \in Versions(t), NEW w \in Versions(t),
               v.digest = w.digest
        PROVE  v = w
    BY <2>2 DEF ImportsInv, Different, Versions
  <2> QED BY <2>1, <2>2 DEF ImportsInv, Numbered, VersionsOrdered
<1> QED BY <1>1, ImportsInvariant, PTL

(* ReferencesResolve: every key in the database has its object, unless a   *)
(* handler took a commit for failed which was not.                         *)
THEOREM ReferencesResolveCorrect == Spec => []ReferencesResolve
<1>1. ImportsInv => ReferencesResolve
  <2> SUFFICES ASSUME ImportsInv, NEW k \in Referenced, k \notin objects
               PROVE  Hurt({"unheard"}, k[2])
    BY DEF ReferencesResolve
  <2>1. CASE \E i \in Upload : imports[i].state # "none" /\ k = OriginalKey(i)
    <3>1. PICK i \in Upload : imports[i].state # "none" /\ k = OriginalKey(i) BY <2>1
    <3>2. k[2] = i BY <3>1 DEF OriginalKey
    <3>3. Created(i) /\ ~ Original(i) BY <3>1, Zenon DEF Created, Original
    <3>4. Hurt({"unheard"}, i) BY <3>3, Given DEF UploadOK, UploadPhase
    <3> QED BY <3>2, <3>4
  <2>2. CASE \E v \in submission_versions : k = NormalizedKey(v.import, v.target)
    <3>1. PICK v \in submission_versions : k = NormalizedKey(v.import, v.target) BY <2>2, Zenon
    <3>2. v.import \in Upload /\ v.target \in Target
      BY DEF ImportsInv, ImportTypes, VersionRow
    <3>3. k[2] = v.import BY <3>1, Zenon DEF NormalizedKey
    <3>4. v.target \in Made(v.import) /\ v.target \notin Parts(v.import)
      BY <3>1, Zenon DEF Made, Parts
    <3>5. Hurt({"unheard"}, v.import) BY <3>2, <3>4, Given, Zenon DEF ApplyOK
    <3> QED BY <3>3, <3>5
  <2> QED BY <2>1, <2>2 DEF Referenced
<1> QED BY <1>1, ImportsInvariant, PTL

(* NoLeak: an object nothing refers to belongs to a handler that runs, or  *)
(* to one that crashed or could not delete it.                             *)
THEOREM NoLeakCorrect == Spec => []NoLeak
<1>1. ImportsInv => NoLeak
  <2> SUFFICES ASSUME ImportsInv, NEW k \in objects, k \notin Referenced
               PROVE  k[2] \in Uploading \cup Applying \/ Hurt({"error", "crash"}, k[2])
    BY Zenon DEF NoLeak
  <2>1. CASE \E u \in Upload : k = OriginalKey(u)
    <3>1. PICK u \in Upload : k = OriginalKey(u) BY <2>1
    <3>2. k[2] = u BY <3>1, Zenon DEF OriginalKey
    <3>3. Original(u) /\ ~ Created(u) BY <3>1, ZenonT(30) DEF Created, Original, Referenced
    <3>4. requests[u].phase \notin {"idle", "done"} \/ Hurt({"error", "crash"}, u)
      BY <3>3, Given DEF UploadOK
    <3> QED BY <3>2, <3>4 DEF Uploading
  <2>2. CASE \E i \in Upload, t \in Target : k = NormalizedKey(i, t)
    <3>1. PICK i \in Upload, t \in Target : k = NormalizedKey(i, t) BY <2>2
    <3>2. k[2] = i BY <3>1 DEF NormalizedKey
    <3>3. t \in Parts(i) /\ t \notin Made(i) BY <3>1, Zenon DEF Parts, Made, Referenced
    <3>4. applies[i].phase \notin {"idle", "done"} \/ Hurt({"error", "crash"}, i)
      BY <3>3, Given DEF ApplyOK
    <3> QED BY <3>2, <3>4 DEF Applying
  <2> QED BY <2>1, <2>2 DEF ImportsInv, ImportTypes
<1> QED BY <1>1, ImportsInvariant, PTL
=============================================================================
