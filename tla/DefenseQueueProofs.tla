------------------------- MODULE DefenseQueueProofs --------------------------
(***************************************************************************)
(* DefenseQueue, for every number of submissions, defenses, attempts,      *)
(* jobs and runners, every lease time and every number of retries: the     *)
(* tables keep their types and the lease protocol is sound.                *)
(*                                                                         *)
(* The first part says what the row operators return: the type of the row  *)
(* and its columns.  The proofs about the tables use these lemmas and      *)
(* leave the operators folded.                                             *)
(***************************************************************************)
EXTENDS DefenseQueue, SequenceTheorems, TLAPS

(* The constants of the row types. *)
LEMMA Members ==
    /\ {"none", "preparing", "ready", "active", "passed", "expired",
        "cancelled", "error"} \subseteq Status
    /\ {"none", "queued", "leased", "completed", "dead", "cancelled"}
         \subseteq JobState
    /\ 0 \in Nat /\ 0 \in Int /\ LeaseTTL \in Int /\ FirstLimit \in Nat
    /\ TRUE \in BOOLEAN /\ FALSE \in BOOLEAN
    /\ \A l \in Limit : l \in Nat /\ l > 0
BY TTLAssumption, LimitAssumption
   DEF Status, OpenStatus, EndStatus, JobState, LiveState

(* The rows that do not exist have the types of their tables. *)
LEMMA NoRows ==
    NoDefense \in DefenseRow /\ NoAttempt \in AttemptRow /\ NoJob \in JobRow
BY Members DEF NoDefense, NoAttempt, NoJob, DefenseRow, AttemptRow, JobRow

-----------------------------------------------------------------------------
(* defenses                                                                *)

(* A created defense is preparing and has no challenge yet. *)
LEMMA NewDefenseRow ==
    ASSUME NEW s \in Submission, NEW k \in Key
    PROVE  LET new == NewDefense(s, k) IN
           /\ new \in DefenseRow
           /\ new.status = "preparing" /\ new.sub = s /\ new.key = k
           /\ new.mode = "restore" /\ new.catalog = FALSE
           /\ new.selected = FALSE /\ new.masked = FALSE
<1>1. NoDefense \in DefenseRow
  BY NoRows
<1> QED
  BY <1>1, Members, Zenon DEF NewDefense, NoDefense, DefenseRow

(* Reading a row changes at most its status, from active to expired. *)
LEMMA ExpiredRow ==
    ASSUME NEW row \in DefenseRow
    PROVE  LET new == Expired(row) IN
           /\ new \in DefenseRow
           /\ new = row \/ (row.status = "active" /\ new.status = "expired")
           /\ new.sub = row.sub /\ new.key = row.key /\ new.mode = row.mode
           /\ new.catalog = row.catalog /\ new.selected = row.selected
           /\ new.masked = row.masked
<1>1. CASE row.status = "active" /\ row.timer = 0
  BY <1>1, Members, Zenon DEF Expired, DefenseRow
<1>2. CASE ~ (row.status = "active" /\ row.timer = 0)
  BY <1>2, Zenon DEF Expired
<1> QED
  BY <1>1, <1>2

(* The restore configuration selects a candidate. *)
LEMMA RestoreRow ==
    ASSUME NEW row \in DefenseRow, NEW l \in Limit
    PROVE  LET new == Restore(row, l) IN
           /\ new \in DefenseRow
           /\ new.status = "preparing" /\ new.sub = row.sub
           /\ new.key = row.key /\ new.mode = "restore"
           /\ new.catalog = row.catalog /\ new.selected = TRUE
BY Members, Zenon DEF Restore, DefenseRow

(* The hide_seek configuration selects none. *)
LEMMA HideRow ==
    ASSUME NEW row \in DefenseRow, NEW l \in Limit
    PROVE  LET new == Hide(row, l) IN
           /\ new \in DefenseRow
           /\ new.status = "preparing" /\ new.sub = row.sub
           /\ new.key = row.key /\ new.mode = "hide_seek"
           /\ new.catalog = row.catalog /\ new.selected = FALSE
BY Members, Zenon DEF Hide, DefenseRow

(* Cancellation ends the row and keeps what it is about. *)
LEMMA CancelledRow ==
    ASSUME NEW row \in DefenseRow
    PROVE  LET new == Cancelled(row) IN
           /\ new \in DefenseRow
           /\ new.status = "cancelled" /\ new.sub = row.sub
           /\ new.key = row.key
BY Members, Zenon DEF Cancelled, DefenseRow

(* A failed preparation ends a row that is still preparing. *)
LEMMA PrepareFailedRow ==
    ASSUME NEW row \in DefenseRow
    PROVE  LET new == PrepareFailed(row) IN
           /\ new \in DefenseRow
           /\ row.status = "preparing" => new.status = "error"
           /\ row.status # "preparing" => new = row
           /\ new.sub = row.sub /\ new.key = row.key
<1>1. CASE row.status = "preparing"
  BY <1>1, Members, Zenon DEF PrepareFailed, DefenseRow
<1>2. CASE row.status # "preparing"
  BY <1>2, Zenon DEF PrepareFailed
<1> QED
  BY <1>1, <1>2

(* The clock starts with the configured limit. *)
LEMMA StartedRow ==
    ASSUME NEW row \in DefenseRow
    PROVE  LET new == Started(row) IN
           /\ new \in DefenseRow
           /\ new.status = "active" /\ new.sub = row.sub /\ new.key = row.key
           /\ new.mode = row.mode /\ new.catalog = row.catalog
           /\ new.selected = row.selected /\ new.masked = row.masked
<1>1. row.limit \in Nat
  BY DEF DefenseRow
<1> QED
  BY <1>1, Members, Zenon DEF Started, DefenseRow

(* A checked hide_seek task starts the clock or goes back to the teacher. *)
LEMMA HideCheckedRow ==
    ASSUME NEW row \in DefenseRow, NEW valid \in BOOLEAN
    PROVE  LET new == HideChecked(row, valid) IN
           /\ new \in DefenseRow
           /\ row.status = "preparing" =>
                new.status = IF valid THEN "active" ELSE "ready"
           /\ row.status # "preparing" => new = row
           /\ new.sub = row.sub /\ new.key = row.key /\ new.mode = row.mode
           /\ new.catalog = row.catalog /\ new.selected = row.selected
<1>1. CASE row.status # "preparing"
  BY <1>1, Zenon DEF HideChecked
<1>2. CASE row.status = "preparing" /\ valid
  BY <1>2, StartedRow DEF HideChecked
<1>3. CASE row.status = "preparing" /\ ~ valid
  <2>1. HideChecked(row, valid) = [row EXCEPT !.status = "ready"]
    BY <1>3 DEF HideChecked
  <2>2. LET new == [row EXCEPT !.status = "ready"] IN
        /\ new \in DefenseRow
        /\ new.status = "ready" /\ new.sub = row.sub /\ new.key = row.key
        /\ new.mode = row.mode /\ new.catalog = row.catalog
        /\ new.selected = row.selected
    BY Members, Zenon DEF DefenseRow
  <2> QED
    BY <1>3, <2>1, <2>2
<1> QED
  BY <1>1, <1>2, <1>3

(* Discovery stores the catalog and hands the row to the teacher. *)
LEMMA DiscoveredRow ==
    ASSUME NEW row \in DefenseRow
    PROVE  LET new == Discovered(row) IN
           /\ new \in DefenseRow
           /\ new.status = IF row.status = "preparing" THEN "ready"
                                                       ELSE row.status
           /\ new.sub = row.sub /\ new.key = row.key /\ new.mode = row.mode
           /\ new.catalog = TRUE /\ new.selected = row.selected
<1>1. (IF row.status = "preparing" THEN "ready" ELSE row.status) \in Status
  BY Members DEF DefenseRow
<1> QED
  BY <1>1, Members, Zenon DEF Discovered, DefenseRow

(* Masking stores the challenge and starts the clock. *)
LEMMA MaskedRow ==
    ASSUME NEW row \in DefenseRow
    PROVE  LET new == Masked(row) IN
           /\ new \in DefenseRow
           /\ new.status = IF row.status = "preparing" THEN "active"
                                                       ELSE row.status
           /\ new.sub = row.sub /\ new.key = row.key /\ new.mode = row.mode
           /\ new.catalog = row.catalog /\ new.selected = row.selected
           /\ new.masked = TRUE
<1> DEFINE old == IF row.status = "preparing" THEN Started(row) ELSE row
<1>1. /\ old \in DefenseRow
      /\ old.status = IF row.status = "preparing" THEN "active" ELSE row.status
      /\ old.sub = row.sub /\ old.key = row.key /\ old.mode = row.mode
      /\ old.catalog = row.catalog /\ old.selected = row.selected
  BY StartedRow
<1>2. Masked(row) = [old EXCEPT !.masked = TRUE]
  BY DEF Masked
<1> HIDE DEF old
<1>3. LET new == [old EXCEPT !.masked = TRUE] IN
      /\ new \in DefenseRow
      /\ new.status = old.status /\ new.sub = old.sub /\ new.key = old.key
      /\ new.mode = old.mode /\ new.catalog = old.catalog
      /\ new.selected = old.selected /\ new.masked = TRUE
  BY <1>1, Members, Zenon DEF DefenseRow
<1> QED
  BY <1>1, <1>2, <1>3

(* A verdict ends the row if it is success and the row is active. *)
LEMMA PassedRow ==
    ASSUME NEW row \in DefenseRow, NEW outcome \in Outcome
    PROVE  LET new == Passed(row, outcome) IN
           /\ new \in DefenseRow
           /\ new.status = IF outcome = "passed" /\ row.status = "active"
                           THEN "passed" ELSE row.status
           /\ ~ (outcome = "passed" /\ row.status = "active") => new = row
           /\ new.sub = row.sub /\ new.key = row.key /\ new.mode = row.mode
           /\ new.catalog = row.catalog /\ new.selected = row.selected
           /\ new.masked = row.masked
<1>1. CASE outcome = "passed" /\ row.status = "active"
  BY <1>1, Members, Zenon DEF Passed, DefenseRow
<1>2. CASE ~ (outcome = "passed" /\ row.status = "active")
  BY <1>2, Zenon DEF Passed
<1> QED
  BY <1>1, <1>2

(* Time moves only the timer. *)
LEMMA SoonerRow ==
    ASSUME NEW row \in DefenseRow, Counting(row)
    PROVE  LET new == Sooner(row) IN
           /\ new \in DefenseRow
           /\ new.status = row.status /\ new.sub = row.sub
           /\ new.key = row.key /\ new.mode = row.mode
           /\ new.catalog = row.catalog /\ new.selected = row.selected
           /\ new.masked = row.masked
<1>1. row.timer - 1 \in Nat
  BY DEF Counting, DefenseRow
<1> QED
  BY <1>1, Zenon DEF Sooner, DefenseRow
-----------------------------------------------------------------------------
(* check_attempts                                                          *)

(* An accepted attempt waits for its verdict. *)
LEMMA PendingAttemptRow ==
    ASSUME NEW d \in DefenseId, NEW k \in Key
    PROVE  LET new == PendingAttempt(d, k) IN
           /\ new \in AttemptRow
           /\ new.outcome = "pending" /\ new.defense = d /\ new.key = k
           /\ new.early = (defenses[d].timer > 0)
BY DEF PendingAttempt, AttemptRow

(* Aborting decides a pending attempt and leaves any other alone. *)
LEMMA AbortedRow ==
    ASSUME NEW row \in AttemptRow
    PROVE  LET new == Aborted(row) IN
           /\ new \in AttemptRow
           /\ new.outcome = IF row.outcome = "pending" THEN "error"
                                                       ELSE row.outcome
           /\ row.outcome # "pending" => new = row
           /\ new.defense = row.defense /\ new.key = row.key
           /\ new.early = row.early
<1>1. CASE row.outcome = "pending"
  BY <1>1, Zenon DEF Aborted, AttemptRow
<1>2. CASE row.outcome # "pending"
  BY <1>2, Zenon DEF Aborted
<1> QED
  BY <1>1, <1>2

(* A verdict decides a pending attempt and leaves any other alone. *)
LEMMA JudgedRow ==
    ASSUME NEW row \in AttemptRow, NEW outcome \in Outcome
    PROVE  LET new == Judged(row, outcome) IN
           /\ new \in AttemptRow
           /\ new.outcome = IF row.outcome = "pending" THEN outcome
                                                       ELSE row.outcome
           /\ row.outcome # "pending" => new = row
           /\ new.defense = row.defense /\ new.key = row.key
           /\ new.early = row.early
<1>1. outcome \in {"none", "pending", "passed", "failed", "error"}
  BY DEF Outcome
<1>2. CASE row.outcome = "pending"
  BY <1>1, <1>2, Zenon DEF Judged, AttemptRow
<1>3. CASE row.outcome # "pending"
  BY <1>3, Zenon DEF Judged
<1> QED
  BY <1>2, <1>3

-----------------------------------------------------------------------------
(* runner_jobs                                                             *)

(* An inserted job is queued, has no lease and no retry. *)
LEMMA QueuedJobRow ==
    ASSUME NEW kind \in {"prepare_defense", "check_attempt"},
           NEW d \in DefenseId, NEW a \in AttemptId \cup {None}
    PROVE  LET new == QueuedJob(kind, d, a) IN
           /\ new \in JobRow
           /\ new.state = "queued" /\ new.kind = kind /\ new.defense = d
           /\ new.attempt = a /\ new.retry = 0 /\ new.token = 0
<1>1. NoJob \in JobRow
  BY NoRows
<1> QED
  BY <1>1, Members, Zenon DEF QueuedJob, NoJob, JobRow

(* Revoking cancels a live job and leaves any other alone. *)
LEMMA RevokedRow ==
    ASSUME NEW row \in JobRow
    PROVE  LET new == Revoked(row) IN
           /\ new \in JobRow
           /\ row.state \in LiveState => new.state = "cancelled"
           /\ row.state \notin LiveState => new = row
           /\ new.kind = row.kind /\ new.defense = row.defense
           /\ new.attempt = row.attempt /\ new.retry = row.retry
<1>1. CASE row.state \in LiveState
  BY <1>1, Members, Zenon DEF Revoked, JobRow
<1>2. CASE row.state \notin LiveState
  BY <1>2, Zenon DEF Revoked
<1> QED
  BY <1>1, <1>2

(* Reaping counts a retry and requeues the job, or gives it up. *)
LEMMA ReapedRow ==
    ASSUME NEW row \in JobRow
    PROVE  LET new == Reaped(row) IN
           /\ new \in JobRow
           /\ new.state = IF row.retry + 1 > MaxRetries THEN "dead"
                                                        ELSE "queued"
           /\ new.kind = row.kind /\ new.defense = row.defense
           /\ new.attempt = row.attempt /\ new.retry = row.retry + 1
           /\ new.token = 0
<1>1. (IF row.retry + 1 > MaxRetries THEN "dead" ELSE "queued") \in JobState
  BY Members
<1>2. row.retry + 1 \in Nat
  BY DEF JobRow
<1> QED
  BY <1>1, <1>2, Members, Zenon DEF Reaped, JobRow

(* A lease binds the job to a runner, a token and an expiry. *)
LEMMA LeasedRow ==
    ASSUME NEW row \in JobRow, NEW r \in Runner, NEW no \in Nat,
           NEW ttl \in Int
    PROVE  LET new == Leased(row, r, no, ttl) IN
           /\ new \in JobRow
           /\ new.state = "leased" /\ new.token = no /\ new.ttl = ttl
           /\ new.kind = row.kind /\ new.defense = row.defense
           /\ new.attempt = row.attempt /\ new.retry = row.retry
BY Members, Zenon DEF Leased, JobRow

(* A heartbeat moves only the expiry. *)
LEMMA ExtendedRow ==
    ASSUME NEW row \in JobRow
    PROVE  LET new == Extended(row) IN
           /\ new \in JobRow
           /\ new.state = row.state /\ new.token = row.token
           /\ new.kind = row.kind /\ new.defense = row.defense
           /\ new.attempt = row.attempt /\ new.retry = row.retry
BY Members, Zenon DEF Extended, JobRow

(* Completion keeps the token. *)
LEMMA DoneRow ==
    ASSUME NEW row \in JobRow
    PROVE  LET new == Done(row) IN
           /\ new \in JobRow
           /\ new.state = "completed" /\ new.token = row.token
           /\ new.kind = row.kind /\ new.defense = row.defense
           /\ new.attempt = row.attempt /\ new.retry = row.retry
BY Members, Zenon DEF Done, JobRow

(* Time moves only the expiry, towards the past. *)
LEMMA OlderRow ==
    ASSUME NEW row \in JobRow
    PROVE  LET new == Older(row) IN
           /\ new \in JobRow
           /\ new.state = row.state /\ new.token = row.token
           /\ new.kind = row.kind /\ new.defense = row.defense
           /\ new.attempt = row.attempt /\ new.retry = row.retry
           /\ new.ttl = row.ttl - 1
<1>1. row.ttl - 1 \in Int
  BY DEF JobRow
<1> QED
  BY <1>1, Zenon DEF Older, JobRow

-----------------------------------------------------------------------------
(* job_leases                                                              *)

(* Releasing gives every open lease the reason and keeps the others.       *)
LEMMA ReleaseRows ==
    ASSUME NEW rows \in Seq(Reason), NEW reason \in Reason
    PROVE  LET new == Release(rows, reason) IN
           /\ new \in Seq(Reason)
           /\ Len(new) = Len(rows)
           /\ \A n \in 1 .. Len(rows) :
                new[n] = IF rows[n] = "open" THEN reason ELSE rows[n]
<1>1. Len(rows) \in Nat /\ \A n \in 1 .. Len(rows) : rows[n] \in Reason
  OBVIOUS
<1>2. Release(rows, reason) \in [1 .. Len(rows) -> Reason]
  BY <1>1 DEF Release
<1>3. Release(rows, reason) \in Seq(Reason)
  BY <1>1, <1>2, SeqDef
<1> QED
  BY <1>1, <1>2, <1>3 DEF Release


-----------------------------------------------------------------------------
(* Types                                                                   *)

(* A queued job has the type of its table. *)
LEMMA InsertJobType ==
    ASSUME TypeOK,
           NEW kind \in {"prepare_defense", "check_attempt"},
           NEW d \in DefenseId, NEW a \in AttemptId \cup {None},
           InsertJob(kind, d, a)
    PROVE  runner_jobs' \in [JobId -> JobRow]
BY QueuedJobRow DEF InsertJob, TypeOK

(* Reading a defense keeps the types. *)
LEMMA GetType ==
    ASSUME TypeOK, NEW d \in DefenseId, Get(d)
    PROVE  TypeOK'
BY ExpiredRow DEF Get, TypeOK

(* The end of a completion keeps the types of the job tables. *)
LEMMA FinishJobType ==
    ASSUME TypeOK, NEW j \in JobId, NEW t \in Nat, FinishJob(j, t)
    PROVE  /\ runner_jobs' \in [JobId -> JobRow]
           /\ job_leases' \in [JobId -> Seq(Reason)]
           /\ appliedBy' \in [JobId -> Nat]
<1>1. runner_jobs' \in [JobId -> JobRow]
  BY DoneRow DEF FinishJob, TypeOK
<1>2. job_leases' \in [JobId -> Seq(Reason)]
  <2>1. Release(job_leases[j], "completed") \in Seq(Reason)
    BY ReleaseRows DEF TypeOK, Reason
  <2> QED
    BY <2>1 DEF FinishJob, TypeOK
<1> QED
  BY <1>1, <1>2 DEF FinishJob, TypeOK

(* So does the end of a preparation, given the row it writes. *)
LEMMA FinishPrepareType ==
    ASSUME TypeOK, NEW j \in JobId, NEW t \in Nat, NEW mode, NEW row,
           runner_jobs[j].defense \in DefenseId => row \in DefenseRow,
           FinishPrepare(j, t, mode, row)
    PROVE  TypeOK'
<1>1. defenses' \in [DefenseId -> DefenseRow]
  BY Zenon DEF FinishPrepare, TypeOK
<1> QED
  BY <1>1, FinishJobType DEF FinishPrepare, TypeOK

(* Reaping keeps the types. *)
LEMMA ReapType ==
    ASSUME TypeOK
    PROVE  /\ JobsAfterReap \in [JobId -> JobRow]
           /\ LeasesAfterReap \in [JobId -> Seq(Reason)]
           /\ ReapOwners => /\ defenses' \in [DefenseId -> DefenseRow]
                            /\ check_attempts' \in [AttemptId -> AttemptRow]
<1>1. JobsAfterReap \in [JobId -> JobRow]
  BY ReapedRow DEF JobsAfterReap, TypeOK
<1>2. LeasesAfterReap \in [JobId -> Seq(Reason)]
  BY ReleaseRows DEF LeasesAfterReap, TypeOK, Reason
<1>3. ASSUME ReapOwners
      PROVE  /\ defenses' \in [DefenseId -> DefenseRow]
             /\ check_attempts' \in [AttemptId -> AttemptRow]
  BY <1>3, PrepareFailedRow, AbortedRow DEF ReapOwners, TypeOK
<1> QED
  BY <1>1, <1>2, <1>3

(* The empty tables have their types. *)
LEMMA TypeInit == Init => TypeOK
BY NoRows DEF Init, TypeOK

(* Every call of the repository keeps the types. *)
LEMMA TypeStep == TypeOK /\ [Next]_vars => TypeOK'
<1> SUFFICES ASSUME TypeOK, [Next]_vars PROVE TypeOK'
  OBVIOUS
<1>1. ASSUME NEW s \in Submission, NEW k \in Key, Create(s, k) PROVE TypeOK'
  <2>1. CASE CreateExisting(s, k)
    BY <2>1, GetType DEF CreateExisting
  <2>2. CASE CreateNew(s, k)
    <3>1. PICK d \in DefenseId :
              /\ defenses' = [defenses EXCEPT ![d] = NewDefense(s, k)]
              /\ InsertJob("prepare_defense", d, None)
      BY <2>2, Zenon DEF CreateNew
    <3>2. defenses' \in [DefenseId -> DefenseRow]
      BY <3>1, NewDefenseRow, Zenon DEF TypeOK
    <3>3. runner_jobs' \in [JobId -> JobRow]
      BY <3>1, InsertJobType
    <3> QED
      BY <2>2, <3>2, <3>3 DEF CreateNew, TypeOK
  <2> QED
    BY <1>1, <2>1, <2>2 DEF Create
<1>2. ASSUME NEW d \in DefenseId, Get(d) PROVE TypeOK'
  BY <1>2, GetType
<1>3. ASSUME NEW d \in DefenseId, NEW l \in Limit, Configure(d, l) PROVE TypeOK'
  BY <1>3, RestoreRow, InsertJobType, Zenon DEF Configure, TypeOK
<1>4. ASSUME NEW d \in DefenseId, NEW l \in Limit, ConfigureHide(d, l)
      PROVE  TypeOK'
  BY <1>4, HideRow, InsertJobType, Zenon DEF ConfigureHide, TypeOK
<1>5. ASSUME NEW d \in DefenseId, NEW k \in Key, Attempt(d, k) PROVE TypeOK'
  <2>1. PICK a \in AttemptId :
            /\ check_attempts' =
                   [check_attempts EXCEPT ![a] = PendingAttempt(d, k)]
            /\ InsertJob("check_attempt", d, a)
    BY <1>5, Zenon DEF Attempt
  <2>2. check_attempts' \in [AttemptId -> AttemptRow]
    BY <2>1, PendingAttemptRow DEF TypeOK
  <2>3. runner_jobs' \in [JobId -> JobRow]
    BY <2>1, InsertJobType
  <2> QED
    BY <1>5, <2>2, <2>3 DEF Attempt, TypeOK
<1>6. ASSUME NEW d \in DefenseId, Cancel(d) PROVE TypeOK'
  <2>1. /\ defenses' \in [DefenseId -> DefenseRow]
        /\ check_attempts' \in [AttemptId -> AttemptRow]
    BY <1>6, CancelledRow, AbortedRow DEF Cancel, TypeOK
  <2>2. runner_jobs' \in [JobId -> JobRow]
    BY <1>6, RevokedRow DEF Cancel, TypeOK
  <2>3. job_leases' \in [JobId -> Seq(Reason)]
    BY <1>6, ReleaseRows DEF Cancel, TypeOK, Reason
  <2> QED
    BY <1>6, <2>1, <2>2, <2>3 DEF Cancel, TypeOK
<1>7. ASSUME NEW r \in Runner, NEW j \in JobId, NEW skew \in Skew,
             LeaseJob(r, j, skew)
      PROVE  TypeOK'
  <2>1. Len(job_leases[j]) + 1 \in Nat /\ LeaseTTL + skew \in Int
    BY TTLAssumption, SkewAssumption DEF TypeOK
  <2>2. runner_jobs' \in [JobId -> JobRow]
    BY <1>7, <2>1, ReapType, LeasedRow, Zenon DEF LeaseJob
  <2>3. Append(LeasesAfterReap[j], "open") \in Seq(Reason)
    BY ReapType, AppendProperties DEF Reason
  <2>4. job_leases' \in [JobId -> Seq(Reason)]
    BY <1>7, <2>3, ReapType DEF LeaseJob
  <2> QED
    BY <1>7, <2>2, <2>4, ReapType DEF LeaseJob, TypeOK
<1>8. ASSUME LeaseNothing PROVE TypeOK'
  BY <1>8, ReapType DEF LeaseNothing, TypeOK
<1>9. ASSUME NEW j \in JobId, NEW t \in Tokens(j), Heartbeat(j, t) PROVE TypeOK'
  BY <1>9, ExtendedRow DEF Heartbeat, TypeOK
<1>10. ASSUME NEW j \in JobId, NEW t \in Tokens(j), Complete(j, t) PROVE TypeOK'
  <2> DEFINE d == runner_jobs[j].defense
  <2>1. t \in Nat
    BY DEF Tokens
  <2>2. d \in DefenseId => defenses[d] \in DefenseRow
    BY DEF TypeOK
  <2>3. ASSUME NEW valid \in BOOLEAN, CompleteHide(j, t, valid) PROVE TypeOK'
    BY <2>1, <2>2, <2>3, HideCheckedRow, FinishPrepareType DEF CompleteHide
  <2>4. CASE CompletePrepareError(j, t)
    BY <2>1, <2>2, <2>4, PrepareFailedRow, FinishPrepareType
       DEF CompletePrepareError
  <2>5. CASE CompleteDiscovery(j, t)
    BY <2>1, <2>2, <2>5, DiscoveredRow, FinishPrepareType, Zenon
       DEF CompleteDiscovery
  <2>6. CASE CompleteMask(j, t)
    BY <2>1, <2>2, <2>6, MaskedRow, FinishPrepareType, Zenon DEF CompleteMask
  <2>7. ASSUME NEW outcome \in Outcome, CompleteCheck(j, t, outcome)
        PROVE  TypeOK'
    <3>1. defenses' \in [DefenseId -> DefenseRow]
      BY <2>7, PassedRow, Zenon DEF CompleteCheck, TypeOK
    <3>2. check_attempts' \in [AttemptId -> AttemptRow]
      BY <2>7, JudgedRow, Zenon DEF CompleteCheck, TypeOK
    <3> QED
      BY <2>1, <2>7, <3>1, <3>2, FinishJobType DEF CompleteCheck, TypeOK
  <2> QED
    BY <1>10, <2>3, <2>4, <2>5, <2>6, <2>7 DEF Complete
<1>11. ASSUME Tick PROVE TypeOK'
  <2>1. defenses' \in [DefenseId -> DefenseRow]
    BY <1>11, SoonerRow DEF Tick, Pass, TypeOK
  <2>2. runner_jobs' \in [JobId -> JobRow]
    BY <1>11, OlderRow DEF Tick, Pass, TypeOK
  <2> QED
    BY <1>11, <2>1, <2>2 DEF Tick, Pass, TypeOK
<1>12. CASE UNCHANGED vars
  BY <1>12 DEF vars, TypeOK
<1> QED
  BY <1>1, <1>2, <1>3, <1>4, <1>5, <1>6, <1>7, <1>8, <1>9, <1>10, <1>11, <1>12
     DEF Next, Lease
(* The tables hold rows of their types, always. *)
THEOREM TypeCorrect == Spec => []TypeOK
BY TypeInit, TypeStep, PTL DEF Spec
-----------------------------------------------------------------------------
(* What a step does to one job                                             *)

(* Nothing that matters: at most the expiry moves, never back to life. *)
JobKept(j) ==
    /\ runner_jobs'[j].state = runner_jobs[j].state
    /\ runner_jobs'[j].kind = runner_jobs[j].kind
    /\ runner_jobs'[j].defense = runner_jobs[j].defense
    /\ runner_jobs'[j].attempt = runner_jobs[j].attempt
    /\ runner_jobs'[j].retry = runner_jobs[j].retry
    /\ runner_jobs'[j].token = runner_jobs[j].token
    /\ runner_jobs'[j].ttl > 0 => runner_jobs[j].ttl > 0
    /\ \/ job_leases'[j] = job_leases[j]
       \/ /\ runner_jobs[j].state \notin LiveState
          /\ job_leases'[j] = Release(job_leases[j], "cancelled")
    /\ appliedBy'[j] = appliedBy[j]

JobInserted(j) ==
    /\ runner_jobs[j].state = "none"
    /\ runner_jobs'[j].state = "queued"
    /\ runner_jobs'[j].retry = 0
    /\ job_leases'[j] = job_leases[j]
    /\ appliedBy'[j] = appliedBy[j]

(* The columns that say what a job is about. *)
SameWork(j) ==
    /\ runner_jobs'[j].kind = runner_jobs[j].kind
    /\ runner_jobs'[j].defense = runner_jobs[j].defense
    /\ runner_jobs'[j].attempt = runner_jobs[j].attempt

JobCancelled(j) ==
    /\ runner_jobs[j].state \in LiveState
    /\ runner_jobs'[j].state = "cancelled"
    /\ runner_jobs'[j].retry = runner_jobs[j].retry
    /\ SameWork(j)
    /\ job_leases'[j] = Release(job_leases[j], "cancelled")
    /\ appliedBy'[j] = appliedBy[j]

JobReaped(j) ==
    /\ runner_jobs[j].state = "leased"
    /\ runner_jobs'[j].state = IF runner_jobs[j].retry + 1 > MaxRetries
                               THEN "dead" ELSE "queued"
    /\ runner_jobs'[j].retry = runner_jobs[j].retry + 1
    /\ SameWork(j)
    /\ job_leases'[j] = Release(job_leases[j], "expired")
    /\ appliedBy'[j] = appliedBy[j]

JobLeased(j) ==
    /\ runner_jobs'[j].state = "leased"
    /\ runner_jobs'[j].token = Len(job_leases[j]) + 1
    /\ \/ /\ runner_jobs[j].state = "queued"
          /\ runner_jobs'[j].retry = runner_jobs[j].retry
          /\ job_leases'[j] = Append(job_leases[j], "open")
       \/ /\ runner_jobs[j].state = "leased"
          /\ runner_jobs[j].retry + 1 <= MaxRetries
          /\ runner_jobs'[j].retry = runner_jobs[j].retry + 1
          /\ job_leases'[j] = Append(Release(job_leases[j], "expired"), "open")
    /\ SameWork(j)
    /\ appliedBy'[j] = appliedBy[j]

JobCompleted(j) ==
    /\ Holds(j, runner_jobs[j].token)
    /\ runner_jobs'[j].state = "completed"
    /\ runner_jobs'[j].token = runner_jobs[j].token
    /\ runner_jobs'[j].retry = runner_jobs[j].retry
    /\ SameWork(j)
    /\ job_leases'[j] = Release(job_leases[j], "completed")
    /\ appliedBy'[j] = runner_jobs[j].token

JobStep(j) ==
    \/ JobKept(j) \/ JobInserted(j) \/ JobCancelled(j)
    \/ JobReaped(j) \/ JobLeased(j) \/ JobCompleted(j)

(* Inserting a job leaves the other jobs alone. *)
LEMMA InsertJobStep ==
    ASSUME TypeOK, NEW j \in JobId,
           NEW kind \in {"prepare_defense", "check_attempt"},
           NEW d \in DefenseId, NEW a \in AttemptId \cup {None},
           InsertJob(kind, d, a), UNCHANGED <<job_leases, appliedBy>>
    PROVE  JobStep(j)
<1>1. PICK i \in JobId :
          /\ runner_jobs[i].state = "none"
          /\ runner_jobs' = [runner_jobs EXCEPT ![i] = QueuedJob(kind, d, a)]
  BY Zenon DEF InsertJob, NextJob
<1>2. CASE i = j
  BY <1>1, <1>2, QueuedJobRow DEF JobStep, JobInserted, TypeOK
<1>3. CASE i # j
  BY <1>1, <1>3 DEF JobStep, JobKept, TypeOK
<1> QED
  BY <1>2, <1>3

(* Completing a job leaves the other jobs alone. *)
LEMMA FinishJobStep ==
    ASSUME TypeOK, NEW i \in JobId, NEW t, Holds(i, t), FinishJob(i, t),
           NEW j \in JobId
    PROVE  IF j = i THEN JobCompleted(j) ELSE JobKept(j)
<1>1. CASE j = i
  BY <1>1, DoneRow DEF FinishJob, Holds, JobCompleted, SameWork, TypeOK
<1>2. CASE j # i
  BY <1>2 DEF FinishJob, JobKept, TypeOK
<1> QED
  BY <1>1, <1>2

(* What reaping does to a job. *)
LEMMA ReapStep ==
    ASSUME TypeOK, NEW j \in JobId,
           runner_jobs'[j] = JobsAfterReap[j],
           job_leases'[j] = LeasesAfterReap[j],
           appliedBy'[j] = appliedBy[j]
    PROVE  JobKept(j) \/ JobReaped(j)
<1>1. CASE j \in Overdue
  BY <1>1, ReapedRow
     DEF Overdue, JobsAfterReap, LeasesAfterReap, JobReaped, SameWork, TypeOK
<1>2. CASE j \notin Overdue
  BY <1>2 DEF JobsAfterReap, LeasesAfterReap, JobKept
<1> QED
  BY <1>1, <1>2, SMTT(20)

(* Every step does one of these things to a job. *)
LEMMA JobEffect ==
    ASSUME TypeOK, [Next]_vars, NEW j \in JobId
    PROVE  JobStep(j)
<1>0. ASSUME UNCHANGED <<runner_jobs, job_leases, appliedBy>> PROVE JobStep(j)
  BY <1>0 DEF JobStep, JobKept
<1>1. ASSUME NEW s \in Submission, NEW k \in Key, Create(s, k) PROVE JobStep(j)
  <2>1. CASE CreateExisting(s, k)
    BY <1>0, <2>1 DEF CreateExisting, Get
  <2>2. CASE CreateNew(s, k)
    BY <2>2, InsertJobStep DEF CreateNew
  <2> QED
    BY <1>1, <2>1, <2>2 DEF Create
<1>2. ASSUME NEW d \in DefenseId, Get(d) PROVE JobStep(j)
  BY <1>0, <1>2 DEF Get
<1>3. ASSUME NEW d \in DefenseId, NEW l \in Limit, Configure(d, l)
      PROVE  JobStep(j)
  BY <1>3, InsertJobStep DEF Configure
<1>4. ASSUME NEW d \in DefenseId, NEW l \in Limit, ConfigureHide(d, l)
      PROVE  JobStep(j)
  BY <1>4, InsertJobStep DEF ConfigureHide
<1>5. ASSUME NEW d \in DefenseId, NEW k \in Key, Attempt(d, k) PROVE JobStep(j)
  BY <1>5, InsertJobStep DEF Attempt
<1>6. ASSUME NEW d \in DefenseId, Cancel(d) PROVE JobStep(j)
  <2>1. CASE runner_jobs[j].defense = d /\ runner_jobs[j].state \in LiveState
    BY <1>6, <2>1, RevokedRow DEF Cancel, JobStep, JobCancelled, SameWork, TypeOK
  <2>2. CASE runner_jobs[j].defense = d /\ runner_jobs[j].state \notin LiveState
    BY <1>6, <2>2, RevokedRow DEF Cancel, JobStep, JobKept, TypeOK
  <2>3. CASE runner_jobs[j].defense # d
    BY <1>6, <2>3 DEF Cancel, JobStep, JobKept
  <2> QED
    BY <2>1, <2>2, <2>3
<1>7. ASSUME NEW r \in Runner, NEW i \in JobId, NEW skew \in Skew,
             LeaseJob(r, i, skew)
      PROVE  JobStep(j)
  <2>1. appliedBy'[j] = appliedBy[j]
    BY <1>7 DEF LeaseJob
  <2>2. CASE i # j
    <3>1. /\ runner_jobs'[j] = JobsAfterReap[j]
          /\ job_leases'[j] = LeasesAfterReap[j]
      BY <1>7, <2>2, ReapType DEF LeaseJob
    <3> QED
      BY <2>1, <3>1, ReapStep DEF JobStep
  <2>3. CASE i = j
    <3> DEFINE row == JobsAfterReap[j]
    <3>1. row \in JobRow /\ row.state = "queued"
      BY <1>7, <2>3, ReapType DEF LeaseJob
    <3>2. Len(job_leases[j]) + 1 \in Nat /\ LeaseTTL + skew \in Int
      BY TTLAssumption, SkewAssumption DEF TypeOK
    <3>3. /\ runner_jobs'[j] = Leased(row, r, Len(job_leases[j]) + 1,
                                      LeaseTTL + skew)
          /\ job_leases'[j] = Append(LeasesAfterReap[j], "open")
      BY <1>7, <2>3, ReapType, SMTT(20) DEF LeaseJob
    <3>4. /\ runner_jobs'[j].state = "leased"
          /\ runner_jobs'[j].token = Len(job_leases[j]) + 1
          /\ runner_jobs'[j].kind = row.kind
          /\ runner_jobs'[j].defense = row.defense
          /\ runner_jobs'[j].attempt = row.attempt
          /\ runner_jobs'[j].retry = row.retry
      BY <3>1, <3>2, <3>3, LeasedRow, SMTT(20)
    <3>5. CASE j \in Overdue
      <4>1. /\ runner_jobs[j] \in JobRow /\ runner_jobs[j].state = "leased"
            /\ row = Reaped(runner_jobs[j])
            /\ LeasesAfterReap[j] = Release(job_leases[j], "expired")
        BY <3>5 DEF Overdue, JobsAfterReap, LeasesAfterReap, TypeOK
      <4> HIDE DEF row
      <4>2. runner_jobs[j].retry \in Nat
        BY <4>1 DEF JobRow
      <4>3. /\ row.kind = runner_jobs[j].kind
            /\ row.defense = runner_jobs[j].defense
            /\ row.attempt = runner_jobs[j].attempt
            /\ row.retry = runner_jobs[j].retry + 1
            /\ row.state = IF runner_jobs[j].retry + 1 > MaxRetries
                           THEN "dead" ELSE "queued"
        BY <4>1, ReapedRow
      <4>4. runner_jobs[j].retry + 1 <= MaxRetries
        BY <3>1, <4>2, <4>3, RetriesAssumption, SMTT(20)
      <4> QED
        BY <2>1, <3>3, <3>4, <4>1, <4>3, <4>4 DEF JobStep, JobLeased, SameWork
    <3>6. CASE j \notin Overdue
      BY <2>1, <3>1, <3>3, <3>4, <3>6
         DEF JobsAfterReap, LeasesAfterReap, JobStep, JobLeased, SameWork
    <3> QED
      BY <3>5, <3>6
  <2> QED
    BY <2>2, <2>3
<1>8. ASSUME LeaseNothing PROVE JobStep(j)
  BY <1>8, ReapStep DEF LeaseNothing, JobStep
<1>9. ASSUME NEW i \in JobId, NEW t \in Tokens(i), Heartbeat(i, t)
      PROVE  JobStep(j)
  <2>1. CASE i = j
    BY <1>9, <2>1, ExtendedRow DEF Heartbeat, Holds, JobStep, JobKept, TypeOK
  <2>2. CASE i # j
    BY <1>9, <2>2 DEF Heartbeat, JobStep, JobKept, TypeOK
  <2> QED
    BY <2>1, <2>2
<1>10. ASSUME NEW i \in JobId, NEW t \in Tokens(i), Complete(i, t)
       PROVE  JobStep(j)
  <2>1. Holds(i, t) /\ FinishJob(i, t)
    BY <1>10, Zenon DEF Complete, CompleteHide, CompletePrepareError,
                 CompleteDiscovery, CompleteMask, FinishPrepare, CompleteCheck
  <2>2. IF j = i THEN JobCompleted(j) ELSE JobKept(j)
    BY <2>1, FinishJobStep
  <2> QED
    BY <2>2, ZenonT(30) DEF JobStep
<1>11. ASSUME Tick PROVE JobStep(j)
  <2>1. CASE Running(runner_jobs[j])
    BY <1>11, <2>1, OlderRow, SMTT(20) DEF Tick, Pass, JobStep, JobKept, TypeOK, JobRow
  <2>2. CASE ~ Running(runner_jobs[j])
    BY <1>11, <2>2 DEF Tick, Pass, JobStep, JobKept
  <2> QED
    BY <2>1, <2>2, SMTT(20)
<1>12. CASE UNCHANGED vars
  BY <1>0, <1>12, SMTT(20) DEF vars
<1> QED
  BY <1>1, <1>2, <1>3, <1>4, <1>5, <1>6, <1>7, <1>8, <1>9, <1>10, <1>11, <1>12, SMTT(20)
     DEF Next, Lease
-----------------------------------------------------------------------------
(* The lease protocol                                                      *)

(* LeaseLedger, NewestLeaseWins and CompletionRetryAccepted for one job. *)
Ledger(state, retry, token, log) ==
    LET n == Len(log) IN
    /\ n <= MaxRetries + 1
    /\ \A i \in 1 .. n :
          /\ log[i] = "open" <=> state = "leased" /\ i = n
          /\ log[i] = "expired" <=> i <= retry
    /\ state = "none" => n = 0
    /\ state = "leased" => token = n
    /\ state \in {"queued", "dead"} => n = retry
    /\ state \in {"leased", "completed"} => n = retry + 1
    /\ state = "dead" <=> retry = MaxRetries + 1

LedgerOf(j) ==
    Ledger(runner_jobs[j].state, runner_jobs[j].retry, runner_jobs[j].token, job_leases[j])

ResultOf(j) ==
    appliedBy[j] # 0 => /\ appliedBy[j] = Len(job_leases[j])
                        /\ runner_jobs[j].state = "completed"
                        /\ runner_jobs[j].token = appliedBy[j]

LeaseInv == TypeOK /\ \A j \in JobId : LedgerOf(j) /\ ResultOf(j)

(* The per-job form says what the three properties say. *)
LEMMA LeaseInvMeaning ==
    LeaseInv <=> /\ TypeOK /\ LeaseLedger /\ NewestLeaseWins
                 /\ CompletionRetryAccepted
BY DEF LeaseInv, LedgerOf, Ledger, ResultOf, LeaseLedger, NewestLeaseWins,
       CompletionRetryAccepted, RetryAccepted

(* Without jobs there are no leases. *)
LEMMA LeaseInit == Init => LeaseInv
<1> SUFFICES ASSUME Init, NEW j \in JobId PROVE LedgerOf(j) /\ ResultOf(j)
  BY TypeInit DEF LeaseInv
<1>1. /\ runner_jobs[j].state = "none" /\ runner_jobs[j].retry = 0
      /\ job_leases[j] = <<>> /\ appliedBy[j] = 0
  BY DEF Init, NoJob
<1> QED
  BY <1>1, RetriesAssumption DEF LedgerOf, Ledger, ResultOf

(* What a release of the open lease makes of a ledger. *)
Closed(old, new, reason) ==
    /\ Len(new) = Len(old)
    /\ \A n \in 1 .. Len(old) : new[n] = IF old[n] = "open" THEN reason ELSE old[n]

(* The ledger of a job that is cancelled. *)
LEMMA CancelledLedger ==
    ASSUME NEW state \in LiveState, NEW retry \in Nat, NEW token, NEW other,
           NEW old, Len(old) \in Nat, NEW new,
           Ledger(state, retry, token, old), Closed(old, new, "cancelled")
    PROVE  Ledger("cancelled", retry, other, new)
BY RetriesAssumption DEF Ledger, Closed, LiveState

(* The ledger of a job whose lease has run out. *)
LEMMA ReapedLedger ==
    ASSUME NEW retry \in Nat, NEW token, NEW other, NEW old, Len(old) \in Nat, NEW new,
           Ledger("leased", retry, token, old), Closed(old, new, "expired")
    PROVE  /\ retry + 1 > MaxRetries => Ledger("dead", retry + 1, other, new)
           /\ retry + 1 <= MaxRetries => Ledger("queued", retry + 1, other, new)
BY RetriesAssumption DEF Ledger, Closed

(* The ledger of a job that is leased anew. *)
LEMMA LeasedLedger ==
    ASSUME NEW retry \in Nat, NEW token, NEW old, Len(old) \in Nat, NEW new,
           Ledger("queued", retry, token, old),
           Len(new) = Len(old) + 1, new[Len(old) + 1] = "open",
           \A n \in 1 .. Len(old) : new[n] = old[n]
    PROVE  Ledger("leased", retry, Len(old) + 1, new)
BY RetriesAssumption DEF Ledger

(* The ledger of a job that is completed. *)
LEMMA CompletedLedger ==
    ASSUME NEW retry \in Nat, NEW token, NEW old, Len(old) \in Nat, NEW new,
           Ledger("leased", retry, token, old), Closed(old, new, "completed")
    PROVE  Ledger("completed", retry, token, new) /\ token = Len(new)
BY RetriesAssumption, SMTT(20) DEF Ledger, Closed

(* Whatever happens to a job keeps its ledger. *)
LEMMA LedgerStep ==
    ASSUME TypeOK, TypeOK', NEW j \in JobId, LedgerOf(j), ResultOf(j), JobStep(j)
    PROVE  LedgerOf(j)' /\ ResultOf(j)'
<1> DEFINE old == job_leases[j]
           new == job_leases'[j]
           row == runner_jobs[j]
           next == runner_jobs'[j]
           by == appliedBy[j]
<1>1. /\ old \in Seq(Reason) /\ Len(old) \in Nat
      /\ row.retry \in Nat /\ row.token \in Nat /\ next.retry \in Nat /\ by \in Nat
  BY DEF TypeOK, JobRow
<1>2. ASSUME NEW reason \in {"expired", "completed", "cancelled"}
      PROVE  /\ Release(old, reason) \in Seq(Reason)
             /\ Closed(old, Release(old, reason), reason)
  BY <1>1, ReleaseRows DEF Reason, Closed
<1>3. Ledger(row.state, row.retry, row.token, old)
  BY DEF LedgerOf
<1>4. by # 0 => by = Len(old) /\ row.state = "completed" /\ row.token = by
  BY DEF ResultOf
<1>5. SUFFICES
        /\ Ledger(next.state, next.retry, next.token, new)
        /\ appliedBy'[j] # 0 => /\ appliedBy'[j] = Len(new) /\ next.state = "completed"
                                /\ next.token = appliedBy'[j]
  BY SMTT(20) DEF LedgerOf, ResultOf
<1>6. CASE JobKept(j)
  <2>1. /\ next.state = row.state /\ next.retry = row.retry /\ next.token = row.token
        /\ appliedBy'[j] = by
        /\ new = old \/ (row.state \notin LiveState /\ new = Release(old, "cancelled"))
    BY <1>6, SMTT(20) DEF JobKept
  <2> HIDE DEF old, new, row, next, by
  <2>2. CASE new = old
    BY <1>3, <1>4, <2>1, <2>2, SMTT(20)
  <2>3. CASE row.state \notin LiveState /\ Closed(old, new, "cancelled")
    <3>1. Ledger(row.state, row.retry, row.token, new) /\ Len(new) = Len(old)
      BY <1>1, <1>3, <2>3, SMTT(20) DEF Ledger, Closed, LiveState
    <3> QED
      BY <1>4, <2>1, <3>1, SMTT(20)
  <2> QED
    BY <1>2, <2>1, <2>2, <2>3, SMTT(20)
<1>7. CASE JobInserted(j)
  <2>1. /\ row.state = "none" /\ next.state = "queued" /\ next.retry = 0
        /\ new = old /\ appliedBy'[j] = by
    BY <1>7 DEF JobInserted
  <2> HIDE DEF old, new, row, next, by
  <2> QED
    BY <1>1, <1>3, <1>4, <2>1, RetriesAssumption, SMTT(20) DEF Ledger
<1>8. CASE JobCancelled(j)
  <2>1. /\ row.state \in LiveState /\ next.state = "cancelled" /\ next.retry = row.retry
        /\ new = Release(old, "cancelled") /\ appliedBy'[j] = by
    BY <1>8 DEF JobCancelled
  <2> HIDE DEF old, new, row, next, by
  <2>2. Closed(old, new, "cancelled")
    BY <1>2, <2>1
  <2>3. Ledger("cancelled", row.retry, next.token, new)
    BY <1>1, <1>3, <2>1, <2>2, CancelledLedger, SMTT(20)
  <2> QED
    BY <1>4, <2>1, <2>3, SMTT(20) DEF LiveState
<1>9. CASE JobReaped(j)
  <2>1. /\ row.state = "leased" /\ next.retry = row.retry + 1
        /\ next.state = IF row.retry + 1 > MaxRetries THEN "dead" ELSE "queued"
        /\ new = Release(old, "expired") /\ appliedBy'[j] = by
    BY <1>9 DEF JobReaped
  <2> HIDE DEF old, new, row, next, by
  <2>2. Closed(old, new, "expired")
    BY <1>2, <2>1
  <2>3. /\ row.retry + 1 > MaxRetries => Ledger("dead", row.retry + 1, next.token, new)
        /\ row.retry + 1 <= MaxRetries => Ledger("queued", row.retry + 1, next.token, new)
    BY <1>1, <1>3, <2>1, <2>2, ReapedLedger, Zenon
  <2> QED
    BY <1>1, <1>4, <2>1, <2>3, RetriesAssumption, SMTT(20)
<1>10. CASE JobLeased(j)
  <2>1. /\ next.state = "leased" /\ next.token = Len(old) + 1 /\ appliedBy'[j] = by
        /\ \/ /\ row.state = "queued" /\ next.retry = row.retry
              /\ new = Append(old, "open")
           \/ /\ row.state = "leased" /\ row.retry + 1 <= MaxRetries
              /\ next.retry = row.retry + 1
              /\ new = Append(Release(old, "expired"), "open")
    BY <1>10 DEF JobLeased
  <2> HIDE DEF old, new, row, next, by
  <2>2. PICK log \in Seq(Reason) :
           /\ new = Append(log, "open") /\ Len(log) = Len(old)
           /\ Ledger("queued", next.retry, row.token, log)
    <3>1. CASE row.state = "queued" /\ next.retry = row.retry /\ new = Append(old, "open")
      BY <1>1, <1>3, <3>1
    <3>2. CASE /\ row.state = "leased" /\ row.retry + 1 <= MaxRetries
               /\ next.retry = row.retry + 1
               /\ new = Append(Release(old, "expired"), "open")
      <4>1. Release(old, "expired") \in Seq(Reason) /\ Closed(old, Release(old, "expired"), "expired")
        BY <1>2
      <4>2. Ledger("queued", next.retry, row.token, Release(old, "expired"))
        BY <1>1, <1>3, <3>2, <4>1, ReapedLedger, Zenon
      <4>3. Len(Release(old, "expired")) = Len(old)
        BY <4>1 DEF Closed
      <4> QED
        BY <3>2, <4>1, <4>2, <4>3
    <3> QED
      BY <2>1, <3>1, <3>2
  <2>3. /\ Len(new) = Len(log) + 1 /\ new[Len(log) + 1] = "open"
        /\ \A n \in 1 .. Len(log) : new[n] = log[n]
    BY <2>2
  <2>4. Ledger("leased", next.retry, Len(log) + 1, new)
    BY <1>1, <2>2, <2>3, LeasedLedger, Zenon
  <2> QED
    BY <1>4, <2>1, <2>2, <2>4, SMTT(20)
<1>11. CASE JobCompleted(j)
  <2>1. /\ row.state = "leased" /\ next.state = "completed"
        /\ next.token = row.token /\ next.retry = row.retry
        /\ new = Release(old, "completed") /\ appliedBy'[j] = row.token
    BY <1>11 DEF JobCompleted, Holds
  <2> HIDE DEF old, new, row, next, by
  <2>2. Closed(old, new, "completed")
    BY <1>2, <2>1
  <2>3. Ledger("completed", row.retry, row.token, new) /\ row.token = Len(new)
    BY <1>1, <1>3, <2>1, <2>2, CompletedLedger
  <2> QED
    BY <2>1, <2>3, SMTT(20)
<1> QED
  BY <1>6, <1>7, <1>8, <1>9, <1>10, <1>11, SMTT(20) DEF JobStep

(* The lease invariant is inductive. *)
LEMMA LeaseStep == LeaseInv /\ [Next]_vars => LeaseInv'
<1> SUFFICES ASSUME LeaseInv, [Next]_vars PROVE LeaseInv'
  OBVIOUS
<1>1. TypeOK /\ TypeOK'
  BY TypeStep DEF LeaseInv
<1>2. ASSUME NEW j \in JobId PROVE LedgerOf(j)' /\ ResultOf(j)'
  BY <1>1, JobEffect, LedgerStep DEF LeaseInv
<1> QED
  BY <1>1, <1>2 DEF LeaseInv

(* The lease invariant holds always. *)
LEMMA LeaseInvariant == Spec => []LeaseInv
BY LeaseInit, LeaseStep, PTL DEF Spec

(* The ledger of leases agrees with the queue, for any number of jobs,     *)
(* runners and retries and any clock skew.                                 *)
THEOREM LeaseLedgerCorrect == Spec => []LeaseLedger
<1>1. LeaseInv => LeaseLedger
  BY LeaseInvMeaning
<1> QED
  BY <1>1, LeaseInvariant, PTL

(* Complete never lets a stale runner overwrite a newer result. *)
THEOREM NewestLeaseWinsCorrect == Spec => []NewestLeaseWins
<1>1. LeaseInv => NewestLeaseWins
  BY LeaseInvMeaning
<1> QED
  BY <1>1, LeaseInvariant, PTL

(* Complete accepts the retry of a completion whose response was lost. *)
THEOREM CompletionRetryCorrect == Spec => []CompletionRetryAccepted
<1>1. LeaseInv => CompletionRetryAccepted
  BY LeaseInvMeaning
<1> QED
  BY <1>1, LeaseInvariant, PTL

(* A token that lost its lease is refused for ever. *)
THEOREM LostLeaseCorrect == Spec => LostLeaseStaysLost
<1>1. ASSUME TypeOK, [Next]_vars, NEW j \in JobId, NEW t \in Tokens(j),
             Holds(j, t)'
      PROVE  Holds(j, t)
  <2>1. t \in Nat /\ t # Len(job_leases[j]) + 1 /\ JobStep(j)
    BY <1>1, JobEffect, SMTT(20) DEF Tokens, TypeOK
  <2>2. JobKept(j) \/ JobLeased(j)
    BY <1>1, <2>1 DEF JobStep, JobInserted, JobCancelled, JobReaped,
                      JobCompleted, Holds
  <2> QED
    BY <1>1, <2>1, <2>2 DEF Holds, JobKept, JobLeased
<1>2. TypeOK /\ [Next]_vars =>
        [\A j \in JobId : \A t \in Tokens(j) :
            ~ Holds(j, t) => ~ Holds(j, t)']_vars
  BY <1>1
<1> QED
  BY <1>2, TypeCorrect, PTL DEF Spec, LostLeaseStaysLost
=============================================================================
