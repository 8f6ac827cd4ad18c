------------------------------ MODULE Imports -------------------------------
(***************************************************************************)
(* Imports of student work: backend/internal/transport/httpapi/imports.go, *)
(* local_import.go, postgres/imports.go and the object store behind them.  *)
(*                                                                         *)
(* An upload puts the archive into the object store and then creates the   *)
(* import, a teacher reviews it, and an apply unpacks the archive into one *)
(* object per student and lab and then creates the submission versions.    *)
(* Database and object store have no common transaction.  A handler is a   *)
(* sequence of steps, one for each transaction and each object it writes   *)
(* or deletes.  A serializable transaction that reads and then writes what *)
(* another may write too is two steps: its snapshot and its commit.        *)
(*                                                                         *)
(* Faults: an operation that fails, a commit whose answer is lost (the     *)
(* request's context ends while it waits), a crash of the backend.         *)
(***************************************************************************)
EXTENDS FiniteSetsExt, Integers

CONSTANTS
    Upload,      \* upload requests; an import has the name of its request
    Target,      \* pairs of a student and a lab
    Archive,     \* contents of archives: functions from targets to digests
    Receipt,     \* items of signed import plans
    None,
    MaxFaults    \* no fault starts once this many are recorded

ASSUME ArchiveAssumption == \A a \in Archive : DOMAIN a \subseteq Target
ASSUME NoneImportAssumption == None \notin Upload \cup Receipt

VARIABLES
    objects,             \* keys in the object store
    requests,            \* the handler of each upload
    imports,             \* tables imports, import_items, local_import_receipts
    submission_versions,
    applies,             \* the handler that applies an import
    faults               \* history: what went wrong, and for which import

vars == <<objects, requests, imports, submission_versions, applies, faults>>

-----------------------------------------------------------------------------

OriginalKey(u) == <<"original-archives", u, None>>
NormalizedKey(i, t) == <<"normalized-submissions", i, t>>

Versions(t) == {v \in submission_versions : v.target = t}
Items(i) == DOMAIN requests[i].archive

NoItems == [t \in {} |-> None]

Init ==
    /\ objects = {}
    /\ requests = [u \in Upload |-> [phase |-> "idle", archive |-> NoItems,
                                     receipt |-> None]]
    /\ imports = [u \in Upload |-> [state |-> "none", items |-> NoItems]]
    /\ submission_versions = {}
    /\ applies = [i \in Upload |-> [phase |-> "idle", put |-> {}, snapshot |-> {}]]
    /\ faults = {}

Fault(kind, u) ==
    /\ Cardinality(faults) < MaxFaults
    /\ faults' = faults \cup {<<kind, u>>}

Request(u, phase) == requests' = [requests EXCEPT ![u].phase = phase]
Apply(i, phase) == applies' = [applies EXCEPT ![i].phase = phase]
Over == [phase |-> "done", put |-> {}, snapshot |-> {}]
SetState(i, state) == imports' = [imports EXCEPT ![i].state = state]

-----------------------------------------------------------------------------
(* Upload                                                                  *)

(* StoreOriginalArchive.  Put may report an error although the object is   *)
(* there; the handler then returns and leaves it.                          *)
StoreOriginalArchive(u, a, r) ==
    /\ requests[u].phase = "idle"
    /\ objects' = objects \cup {OriginalKey(u)}
    /\ \E phase \in {"stored", "done"} :
          /\ requests' = [requests EXCEPT ![u] = [phase |-> phase, archive |-> a,
                                                  receipt |-> r]]
          /\ IF phase = "stored" THEN UNCHANGED faults ELSE Fault("error", u)
    /\ UNCHANGED <<imports, submission_versions, applies>>

(* The import a receipt stands for; it is the primary key of its table. *)
ReceiptTaken(r) ==
    \E i \in Upload : imports[i].state # "none" /\ requests[i].receipt = r

(* The first read of a local import: an upload that is already there.  The *)
(* lock on the receipt does not help the snapshot of a transaction that    *)
(* waited for it, so another upload may commit before this one does.       *)
LookUpReceipt(u) ==
    /\ requests[u].phase = "stored" /\ requests[u].receipt # None
    /\ Request(u, IF ReceiptTaken(requests[u].receipt) THEN "found" ELSE "creating")
    /\ UNCHANGED <<objects, imports, submission_versions, applies, faults>>

Creating(u) ==
    \/ requests[u].phase = "creating"
    \/ requests[u].phase = "stored" /\ requests[u].receipt = None

(* The read that follows the commit, or the answer to the commit itself,   *)
(* may fail: the handler takes the import for not created.                 *)
CreateReview(u) ==
    /\ Creating(u)
    /\ requests[u].receipt # None => ~ ReceiptTaken(requests[u].receipt)
    /\ imports' = [imports EXCEPT ![u] =
                    [state |-> "review_pending", items |-> [t \in Items(u) |-> None]]]
    /\ \/ Request(u, "done") /\ UNCHANGED faults
       \/ Request(u, "failing") /\ Fault("unheard", u)
    /\ UNCHANGED <<objects, submission_versions, applies>>

(* Anything that keeps the import from being created: no right to it, an   *)
(* unknown lab, a receipt another upload took meanwhile, an error.         *)
CreateReviewFails(u) ==
    /\ requests[u].phase \in {"stored", "creating"}
    /\ Request(u, "failing")
    /\ UNCHANGED <<objects, imports, submission_versions, applies, faults>>

DiscardMutant(u) ==
    /\ requests[u].phase \in {"failing", "found"}
    /\ Request(u, "done")
    /\ objects' = objects \ {OriginalKey(x) : x \in {u} \cap
                        {y \in Upload : requests[y].phase = "failing"}}
    /\ UNCHANGED <<imports, submission_versions, applies, faults>>

(* The archive of an upload that failed, or that was there already, is     *)
(* deleted, with the context of the request, which may have ended.         *)
DiscardOriginal(u) ==
    /\ requests[u].phase \in {"failing", "found"}
    /\ Request(u, "done")
    /\ \/ objects' = objects \ {OriginalKey(u)} /\ UNCHANGED faults
       \/ Fault("error", u) /\ UNCHANGED objects
    /\ UNCHANGED <<imports, submission_versions, applies>>

Review(i) ==
    /\ imports[i].state = "review_pending"
    /\ \E state \in {"approved", "rejected"} : SetState(i, state)
    /\ UNCHANGED <<objects, requests, submission_versions, applies, faults>>

-----------------------------------------------------------------------------
(* Apply                                                                   *)

(* Only an approved import is applied, by one handler.  If the answer to   *)
(* the commit is lost the handler returns and nobody applies the import.   *)
BeginApply(i) ==
    /\ imports[i].state = "approved"
    /\ SetState(i, "applying")
    /\ \/ Apply(i, "begun") /\ UNCHANGED faults
       \/ Fault("unheard", i) /\ UNCHANGED applies
    /\ UNCHANGED <<objects, requests, submission_versions>>

OpenOriginal(i) ==
    /\ applies[i].phase = "begun"
    /\ IF OriginalKey(i) \in objects THEN Apply(i, "writing") ELSE Apply(i, "finishing")
    /\ UNCHANGED <<objects, requests, imports, submission_versions, faults>>

PutItem(i, t) ==
    /\ applies[i].phase = "writing" /\ t \in Items(i) \ applies[i].put
    /\ objects' = objects \cup {NormalizedKey(i, t)}
    /\ applies' = [applies EXCEPT ![i] = [@ EXCEPT !.put = applies[i].put \cup {t}]]
    /\ UNCHANGED <<requests, imports, submission_versions, faults>>

(* The transaction of CommitApply opens, and sees what is committed now. *)
BeginCommit(i) ==
    /\ applies[i].phase = "writing" /\ applies[i].put = Items(i)
    /\ applies' = [applies EXCEPT ![i] = [@ EXCEPT !.phase = "committing",
                                                   !.snapshot = submission_versions]]
    /\ UNCHANGED <<objects, requests, imports, submission_versions, faults>>

(* Reading the archive, writing an object or the transaction fails.  Put   *)
(* may fail although the object is there, and cleanup does not know it.    *)
ApplyFails(i) ==
    /\ applies[i].phase \in {"begun", "writing", "committing"}
    /\ Fault("error", i)
    /\ Apply(i, "cleaning")
    /\ \/ UNCHANGED objects
       \/ /\ applies[i].phase = "writing"
          /\ \E t \in Items(i) \ applies[i].put :
                objects' = objects \cup {NormalizedKey(i, t)}
    /\ UNCHANGED <<requests, imports, submission_versions>>

Same(i, t) == {v \in applies[i].snapshot :
                  v.target = t /\ v.digest = requests[i].archive[t]}
Duplicate(i, t) == Same(i, t) # {}

(* coalesce(max(version_no), 0) + 1 *)
NextVersion(i, t) ==
    1 + Max({0} \cup {v.version_no : v \in {w \in applies[i].snapshot : w.target = t}})

NewVersions(i) ==
    {[target |-> t, digest |-> requests[i].archive[t], import |-> i,
      version_no |-> NextVersion(i, t)] : t \in {s \in Items(i) : ~ Duplicate(i, s)}}

(* The import whose version an item gets: a new one, or the duplicate. *)
VersionFor(i, t) ==
    IF Duplicate(i, t)
    THEN (CHOOSE v \in Same(i, t) : \A w \in Same(i, t) : w.version_no <= v.version_no).import
    ELSE i

(* unique (student_record_id, lab_id, version_no) of submission_versions,  *)
(* and submission_version_id unique in import_items.                       *)
VersionNumberFree(i) ==
    \A v \in NewVersions(i) : \A w \in Versions(v.target) : w.version_no # v.version_no
VersionUnused(i) ==
    \A t \in Items(i), j \in Upload :
        t \in DOMAIN imports[j].items => imports[j].items[t] # VersionFor(i, t)

FitsMutant(i) == VersionUnused(i)

Fits(i) == VersionNumberFree(i) /\ VersionUnused(i)

CommitApply(i) ==
    /\ applies[i].phase = "committing" /\ imports[i].state = "applying"
    /\ Fits(i)
    /\ submission_versions' = submission_versions \cup NewVersions(i)
    /\ imports' = [imports EXCEPT ![i] =
            [state |-> "completed", items |-> [t \in Items(i) |-> VersionFor(i, t)]]]
    /\ \/ Apply(i, "committed") /\ UNCHANGED faults
       \/ Apply(i, "cleaning") /\ Fault("unheard", i)
    /\ UNCHANGED <<objects, requests>>

ConflictMutant(i) ==
    /\ applies[i].phase = "committing" /\ ~ Fits(i)
    /\ Apply(i, "done")
    /\ UNCHANGED <<objects, requests, imports, submission_versions, faults>>

(* A unique key refuses the rows, or the snapshot is out of date and the   *)
(* transaction is not serializable.                                        *)
CommitApplyConflict(i) ==
    /\ applies[i].phase = "committing"
    /\ ~ Fits(i) \/ applies[i].snapshot # submission_versions
    /\ Apply(i, "cleaning")
    /\ UNCHANGED <<objects, requests, imports, submission_versions, faults>>

DropDuplicatesMutant(i) ==
    /\ applies[i].phase = "committed"
    /\ objects' = objects \ {NormalizedKey(i, t) : t \in Items(i)}
    /\ applies' = [applies EXCEPT ![i] = Over]
    /\ UNCHANGED <<requests, imports, submission_versions, faults>>

(* What CommitApply found to be there already is deleted again.  Nothing   *)
(* ever is: the item of the earlier version has its submission_version_id, *)
(* so VersionUnused has refused the commit.                                *)
DropDuplicates(i) ==
    /\ applies[i].phase = "committed"
    /\ objects' = objects \ {NormalizedKey(i, t) : t \in {s \in Items(i) : Duplicate(i, s)}}
    /\ applies' = [applies EXCEPT ![i] = Over]
    /\ UNCHANGED <<requests, imports, submission_versions, faults>>

(* Every object the handler knows of is deleted, whatever failed. *)
CleanUp(i) ==
    /\ applies[i].phase = "cleaning"
    /\ Apply(i, "finishing")
    /\ LET mine == {NormalizedKey(i, t) : t \in applies[i].put} IN
       \/ objects' = objects \ mine /\ UNCHANGED faults
       \/ /\ Fault("error", i)
          /\ \E k \in mine : objects' = objects \ (mine \ {k})
    /\ UNCHANGED <<requests, imports, submission_versions>>

Finish(i) ==
    /\ applies[i].phase = "finishing"
    /\ applies' = [applies EXCEPT ![i] = Over]
    /\ \/ /\ imports' = [imports EXCEPT ![i].state = IF @ = "applying" THEN "failed" ELSE @]
          /\ UNCHANGED faults
       \/ Fault("error", i) /\ UNCHANGED imports
    /\ UNCHANGED <<objects, requests, submission_versions>>

-----------------------------------------------------------------------------

Uploading == {u \in Upload : requests[u].phase \notin {"idle", "done"}}
Applying == {i \in Upload : applies[i].phase \notin {"idle", "done"}}

(* The backend stops and starts again: the handlers are gone. *)
Crash ==
    /\ Uploading \cup Applying # {}
    /\ Cardinality(faults) < MaxFaults
    /\ faults' = faults \cup {<<"crash", u>> : u \in Uploading \cup Applying}
    /\ requests' = [u \in Upload |-> IF u \in Uploading
                                     THEN [requests[u] EXCEPT !.phase = "done"]
                                     ELSE requests[u]]
    /\ applies' = [i \in Upload |-> IF i \in Applying THEN Over ELSE applies[i]]
    /\ UNCHANGED <<objects, imports, submission_versions>>

ApplyStep(i) ==
    \/ OpenOriginal(i) \/ BeginCommit(i) \/ CommitApply(i)
    \/ CommitApplyConflict(i) \/ DropDuplicates(i) \/ CleanUp(i) \/ Finish(i)
    \/ \E t \in Target : PutItem(i, t)

UploadStep(u) ==
    \/ LookUpReceipt(u) \/ CreateReview(u) \/ CreateReviewFails(u)
    \/ DiscardOriginal(u)

Next ==
    \/ \E u \in Upload, a \in Archive, r \in Receipt \cup {None} :
          StoreOriginalArchive(u, a, r)
    \/ \E u \in Upload : UploadStep(u)
    \/ \E i \in Upload : Review(i) \/ BeginApply(i) \/ ApplyStep(i) \/ ApplyFails(i)
    \/ Crash

(* A handler that runs goes on.  Nobody has to upload, review or apply. *)
Fairness ==
    \A u \in Upload : WF_vars(UploadStep(u)) /\ WF_vars(ApplyStep(u))

Spec == Init /\ [][Next]_vars
FairSpec == Spec /\ Fairness

-----------------------------------------------------------------------------
(* Properties                                                              *)

Hurt(kinds, u) == \E k \in kinds : <<k, u>> \in faults

Referenced ==
    {OriginalKey(i) : i \in {u \in Upload : imports[u].state # "none"}} \cup
    {NormalizedKey(v.import, v.target) : v \in submission_versions}

(* Every key in the database has its object, unless the handler was told   *)
(* that a commit failed which did not: cleanup then deletes what committed *)
(* rows refer to.  No crash, error or race of two applies does that.       *)
ReferencesResolve ==
    \A k \in Referenced \ objects : Hurt({"unheard"}, k[2])

(* An object nothing refers to belongs to a handler that still runs, or to *)
(* one that crashed or could not delete it.  A refused or repeated upload, *)
(* and an apply that loses a race, leave nothing behind.                   *)
NoLeak ==
    \A k \in objects \ Referenced :
        k[2] \in Uploading \cup Applying \/ Hurt({"error", "crash"}, k[2])

(* The versions of a student's lab are numbered 1, 2, ... without a gap    *)
(* and no two of them have the same content, although an apply numbers and *)
(* compares by a snapshot that other applies may have overtaken.           *)
VersionsOrdered ==
    \A t \in Target :
        /\ {v.version_no : v \in Versions(t)} = 1 .. Cardinality(Versions(t))
        /\ \A v, w \in Versions(t) : v.digest = w.digest => v = w

(* An apply that began ends, completed or failed, unless a fault hit it. *)
ApplyEnds ==
    \A i \in Upload :
        imports[i].state = "applying"
            ~> imports[i].state # "applying" \/ Hurt({"unheard", "error", "crash"}, i)

-----------------------------------------------------------------------------
(* What the documentation says and the code does not do                    *)

(* "identical content for the same student and lab is deduplicated"        *)
(* (docs/ARCHITECTURE.md): an import with nothing new is not refused.  It  *)
(* is, because the item of the first import already has the version and    *)
(* submission_version_id is unique among the items.                        *)
IdenticalContentDeduplicated ==
    \A i \in Upload :
        /\ applies[i].phase = "cleaning" /\ applies[i].snapshot = submission_versions
        /\ Items(i) # {} /\ \A t \in Items(i) : Duplicate(i, t)
        => Hurt({"unheard", "error", "crash"}, i)
=============================================================================
