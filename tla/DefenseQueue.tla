---------------------------- MODULE DefenseQueue ----------------------------
(***************************************************************************)
(* Defenses, check attempts and the leased job queue of the backend        *)
(* (backend/internal/infrastructure/postgres/defense.go, hide_seek.go and  *)
(* the constraints of migrations/).                                        *)
(*                                                                         *)
(* The state is the content of four tables.  An action is one call of the  *)
(* repository that commits.  Create, Configure, ConfigureHide, Cancel,     *)
(* Attempt and Complete run in SERIALIZABLE transactions, Get's update and *)
(* Heartbeat are single statements, and Lease takes row locks on           *)
(* everything it changes, so a committed call is one atomic step and an    *)
(* aborted or refused call changes nothing.  Authorisation only decides    *)
(* whether a call is refused; the actions are the calls that are allowed.  *)
(*                                                                         *)
(* Clients are as general as the API lets them be: any lease token that    *)
(* was ever handed out may be presented at any time, so lost responses,    *)
(* duplicated or late completions and runners that crash or hang are all   *)
(* interleavings of this module.                                           *)
(*                                                                         *)
(* Time is a countdown: timer and ttl are the ticks left until deadline_at *)
(* and lease_expires_at.  0 is the instant of equality, a negative ttl is  *)
(* an expiry in the past, so the code's <, <= and > are kept apart.  The   *)
(* countdown of a row is kept only while some statement can read it.       *)
(***************************************************************************)
EXTENDS Integers, Sequences, FiniteSets

CONSTANTS
    Submission,   \* submission_versions
    DefenseId,    \* ids of the defenses rows that may be created
    AttemptId,    \* ids of the check_attempts rows that may be created
    JobId,        \* ids of the runner_jobs rows that may be created
    Runner,       \* runner ids
    Key,          \* Idempotency-Key values
    None,         \* SQL NULL
    MaxRetries,   \* runner_jobs.max_retries
    LeaseTTL,     \* the two minutes of a lease, in ticks
    Limit,        \* the values time_limit_seconds may take, in ticks
    FirstLimit,   \* the limit Create writes, replaced by the configuration
    Skew          \* clock of the backend process minus clock of the database

ASSUME NoneAssumption == None \notin Submission \cup DefenseId \cup AttemptId
                                     \cup JobId \cup Runner \cup Key
ASSUME IdAssumption == DefenseId \cup AttemptId \cup JobId \subseteq Nat
ASSUME RetriesAssumption == MaxRetries \in Nat
ASSUME TTLAssumption == LeaseTTL \in Nat \ {0}
ASSUME LimitAssumption == Limit \subseteq Nat \ {0} /\ FirstLimit \in Limit
ASSUME SkewAssumption == Skew \subseteq Int

VARIABLES
    defenses,        \* the defenses table ("none": the row does not exist)
    check_attempts,  \* the check_attempts table
    runner_jobs,     \* the runner_jobs table
    job_leases,      \* job_leases, per job: release_reason by lease_no
    appliedBy        \* history: number of the lease whose result was applied

vars == <<defenses, check_attempts, runner_jobs, job_leases, appliedBy>>

-----------------------------------------------------------------------------
(* Rows                                                                    *)

OpenStatus == {"ready", "preparing", "active"}
EndStatus == {"passed", "expired", "cancelled", "error"}
Status == {"none"} \cup OpenStatus \cup EndStatus

LiveState == {"queued", "leased"}
JobState == {"none", "completed", "dead", "cancelled"} \cup LiveState

Reason == {"open", "expired", "completed", "cancelled"}

DefenseRow ==
    [status : Status,
     sub : Submission \cup {None},
     key : Key \cup {None},                \* start_idempotency_key
     mode : {"restore", "hide_seek"},      \* defense_mode
     catalog : BOOLEAN,                    \* has defense_candidates rows
     selected : BOOLEAN,                   \* selected_candidate_id is set
     masked : BOOLEAN,                     \* its masked_source is stored
     limit : Nat,                          \* time_limit_seconds
     timer : Nat]                          \* ticks to deadline_at, if active

AttemptRow ==
    [outcome : {"none", "pending", "passed", "failed", "error"},
     defense : DefenseId \cup {None},
     key : Key \cup {None},
     early : BOOLEAN]                      \* accepted_at < deadline_at

JobRow ==
    [state : JobState,
     kind : {"prepare_defense", "check_attempt"},
     defense : DefenseId \cup {None},
     attempt : AttemptId \cup {None},      \* check_attempt_id
     retry : Nat,                          \* retry_count
     token : Nat,                          \* lease_token_hash, 0 is NULL
     owner : Runner \cup {None},
     ttl : Int]                            \* ticks to lease_expires_at

NoDefense == [status |-> "none", sub |-> None, key |-> None,
              mode |-> "restore", catalog |-> FALSE, selected |-> FALSE,
              masked |-> FALSE, limit |-> 0, timer |-> 0]

NoAttempt == [outcome |-> "none", defense |-> None, key |-> None,
              early |-> FALSE]

NoJob == [state |-> "none", kind |-> "prepare_defense", defense |-> None,
          attempt |-> None, retry |-> 0, token |-> 0, owner |-> None,
          ttl |-> 0]

(* A token is 32 random bytes, so it is named by the lease that issued it. *)
Tokens(j) == 1 .. Len(job_leases[j])

Init ==
    /\ defenses = [d \in DefenseId |-> NoDefense]
    /\ check_attempts = [a \in AttemptId |-> NoAttempt]
    /\ runner_jobs = [j \in JobId |-> NoJob]
    /\ job_leases = [j \in JobId |-> <<>>]
    /\ appliedBy = [j \in JobId |-> 0]

(* UUIDv7 ids grow with time: rows are created in the order of their ids.  *)
NextDefense(d) ==
    /\ defenses[d].status = "none"
    /\ \A e \in DefenseId : e < d => defenses[e].status # "none"

NextAttempt(a) ==
    /\ check_attempts[a].outcome = "none"
    /\ \A b \in AttemptId : b < a => check_attempts[b].outcome # "none"

NextJob(j) ==
    /\ runner_jobs[j].state = "none"
    /\ \A i \in JobId : i < j => runner_jobs[i].state # "none"

-----------------------------------------------------------------------------
(* The student and the teacher                                             *)

OpenFor(s) == {d \in DefenseId : /\ defenses[d].sub = s
                                 /\ defenses[d].status \in OpenStatus}

StartedWith(s, k) == {d \in DefenseId : /\ defenses[d].sub = s
                                        /\ defenses[d].key = k}

QueuedJob(kind, d, a) ==
    [NoJob EXCEPT !.state = "queued", !.kind = kind, !.defense = d,
                  !.attempt = a]

InsertJob(kind, d, a) ==
    \E j \in JobId :
        /\ NextJob(j)
        /\ runner_jobs' = [runner_jobs EXCEPT ![j] = QueuedJob(kind, d, a)]

(* Reading a defense applies an overdue deadline first. *)
Expired(row) ==
    IF row.status = "active" /\ row.timer = 0
    THEN [row EXCEPT !.status = "expired"] ELSE row

Get(d) ==
    /\ defenses[d].status # "none"
    /\ defenses' = [defenses EXCEPT ![d] = Expired(@)]
    /\ UNCHANGED <<check_attempts, runner_jobs, job_leases, appliedBy>>

(* A repeated start, or a start while a defense is open, reads that row. *)
CreateExisting(s, k) ==
    \E d \in DefenseId :
        /\ \/ d \in StartedWith(s, k)
           \/ StartedWith(s, k) = {} /\ d \in OpenFor(s)
        /\ Get(d)

NewDefense(s, k) ==
    [NoDefense EXCEPT !.status = "preparing", !.sub = s, !.key = k,
                      !.limit = FirstLimit]

CreateNew(s, k) ==
    /\ StartedWith(s, k) = {}
    /\ OpenFor(s) = {}
    /\ \E d \in DefenseId :
        /\ NextDefense(d)
        /\ defenses' = [defenses EXCEPT ![d] = NewDefense(s, k)]
        /\ InsertJob("prepare_defense", d, None)
    /\ UNCHANGED <<check_attempts, job_leases, appliedBy>>

Create(s, k) == CreateExisting(s, k) \/ CreateNew(s, k)

RestoreSelectionMutant(row, l) ==
    [row EXCEPT !.status = "preparing", !.mode = "restore", !.limit = l]

Restore(row, l) ==
    [row EXCEPT !.status = "preparing", !.mode = "restore",
                !.selected = TRUE, !.limit = l]

(* The teacher picks a candidate of the catalog ... *)
Configure(d, l) ==
    /\ defenses[d].status = "ready"
    /\ defenses[d].catalog
    /\ defenses' = [defenses EXCEPT ![d] = Restore(@, l)]
    /\ InsertJob("prepare_defense", d, None)
    /\ UNCHANGED <<check_attempts, job_leases, appliedBy>>

Hide(row, l) ==
    [row EXCEPT !.status = "preparing", !.mode = "hide_seek",
                !.selected = FALSE, !.limit = l]

(* ... or hides errors in the project. *)
ConfigureHide(d, l) ==
    /\ defenses[d].status = "ready"
    /\ defenses' = [defenses EXCEPT ![d] = Hide(@, l)]
    /\ InsertJob("prepare_defense", d, None)
    /\ UNCHANGED <<check_attempts, job_leases, appliedBy>>

AttemptsOf(d) == {a \in AttemptId : check_attempts[a].defense = d}
WithKey(d, k) == {a \in AttemptsOf(d) : check_attempts[a].key = k}
PendingOf(d) == {a \in AttemptsOf(d) : check_attempts[a].outcome = "pending"}

AcceptingMutant(d) == defenses[d].status = "active"

Accepting(d) == defenses[d].status = "active" /\ defenses[d].timer > 0

PendingAttempt(d, k) ==
    [outcome |-> "pending", defense |-> d, key |-> k,
     early |-> defenses[d].timer > 0]

AttemptMutant(d, k) ==
    /\ Accepting(d)
    /\ WithKey(d, k) = {}
    /\ \E a \in AttemptId :
        /\ NextAttempt(a)
        /\ check_attempts' = [check_attempts EXCEPT ![a] = PendingAttempt(d, k)]
        /\ InsertJob("check_attempt", d, a)
    /\ UNCHANGED <<defenses, job_leases, appliedBy>>

(* check_attempts_one_pending_uq refuses a second pending row. *)
Attempt(d, k) ==
    /\ Accepting(d)
    /\ WithKey(d, k) = {}
    /\ PendingOf(d) = {}
    /\ \E a \in AttemptId :
        /\ NextAttempt(a)
        /\ check_attempts' = [check_attempts EXCEPT ![a] = PendingAttempt(d, k)]
        /\ InsertJob("check_attempt", d, a)
    /\ UNCHANGED <<defenses, job_leases, appliedBy>>

Release(rows, reason) ==
    [n \in 1 .. Len(rows) |-> IF rows[n] = "open" THEN reason ELSE rows[n]]

Cancelled(row) == [row EXCEPT !.status = "cancelled", !.timer = 0]

Aborted(row) ==
    IF row.outcome = "pending" THEN [row EXCEPT !.outcome = "error"] ELSE row

RevokedLeasedMutant(row) ==
    IF row.state = "queued" THEN [row EXCEPT !.state = "cancelled"] ELSE row

Revoked(row) ==
    IF row.state \in LiveState
    THEN [row EXCEPT !.state = "cancelled", !.token = 0, !.owner = None,
                     !.ttl = 0]
    ELSE row

Cancel(d) ==
    /\ defenses[d].status \in OpenStatus
    /\ defenses' = [defenses EXCEPT ![d] = Cancelled(@)]
    /\ check_attempts' = [a \in AttemptId |->
            IF a \in AttemptsOf(d) THEN Aborted(check_attempts[a])
                                   ELSE check_attempts[a]]
    /\ runner_jobs' = [j \in JobId |->
            IF runner_jobs[j].defense = d THEN Revoked(runner_jobs[j])
                                          ELSE runner_jobs[j]]
    /\ job_leases' = [j \in JobId |->
            IF runner_jobs[j].defense = d
            THEN Release(job_leases[j], "cancelled") ELSE job_leases[j]]
    /\ UNCHANGED appliedBy

-----------------------------------------------------------------------------
(* The runner                                                              *)

Overdue == {j \in JobId : /\ runner_jobs[j].state = "leased"
                          /\ runner_jobs[j].ttl < 0}

ReapedMutant(row) ==
    [row EXCEPT !.state = IF row.retry > MaxRetries THEN "dead" ELSE "queued",
                !.retry = row.retry + 1,
                !.token = 0, !.owner = None, !.ttl = 0]

(* An expired lease is retried, until the retries are used up. *)
Reaped(row) ==
    [row EXCEPT !.state = IF row.retry + 1 > MaxRetries
                          THEN "dead" ELSE "queued",
                !.retry = row.retry + 1,
                !.token = 0, !.owner = None, !.ttl = 0]

GivenUp == {j \in Overdue : Reaped(runner_jobs[j]).state = "dead"}

JobsAfterReap ==
    [j \in JobId |-> IF j \in Overdue THEN Reaped(runner_jobs[j])
                                      ELSE runner_jobs[j]]

LeasesAfterReap ==
    [j \in JobId |-> IF j \in Overdue THEN Release(job_leases[j], "expired")
                                      ELSE job_leases[j]]

PrepareFailed(row) ==
    IF row.status = "preparing" THEN [row EXCEPT !.status = "error"] ELSE row

ReapOwnersMutant ==
    /\ defenses' = [d \in DefenseId |->
            IF \E j \in GivenUp : /\ runner_jobs[j].kind = "prepare_defense"
                                  /\ runner_jobs[j].defense = d
            THEN PrepareFailed(defenses[d]) ELSE defenses[d]]
    /\ UNCHANGED check_attempts

(* A dead job fails the preparation or the check it was for. *)
ReapOwners ==
    /\ defenses' = [d \in DefenseId |->
            IF \E j \in GivenUp : /\ runner_jobs[j].kind = "prepare_defense"
                                  /\ runner_jobs[j].defense = d
            THEN PrepareFailed(defenses[d]) ELSE defenses[d]]
    /\ check_attempts' = [a \in AttemptId |->
            IF \E j \in GivenUp : runner_jobs[j].attempt = a
            THEN Aborted(check_attempts[a]) ELSE check_attempts[a]]

Leased(row, r, no, ttl) ==
    [row EXCEPT !.state = "leased", !.owner = r, !.token = no, !.ttl = ttl]

(***************************************************************************)
(* Lease: expired leases are reaped first.  FOR UPDATE SKIP LOCKED passes  *)
(* over rows that another transaction holds, so any queued job may be the  *)
(* first one that is free.  The job_leases check expires_at > leased_at    *)
(* refuses a lease that starts out expired.                                *)
(***************************************************************************)
LeaseJob(r, j, skew) ==
    /\ JobsAfterReap[j].state = "queued"
    /\ LeaseTTL + skew > 0
    /\ ReapOwners
    /\ runner_jobs' = [JobsAfterReap EXCEPT
            ![j] = Leased(@, r, Len(job_leases[j]) + 1, LeaseTTL + skew)]
    /\ job_leases' = [LeasesAfterReap EXCEPT ![j] = Append(@, "open")]
    /\ UNCHANGED appliedBy

(* No job is queued, or every queued one is locked. *)
LeaseNothing ==
    /\ Overdue # {}
    /\ ReapOwners
    /\ runner_jobs' = JobsAfterReap
    /\ job_leases' = LeasesAfterReap
    /\ UNCHANGED appliedBy

Lease(r) ==
    \/ \E j \in JobId, skew \in Skew : LeaseJob(r, j, skew)
    \/ LeaseNothing

HoldsMutant(j, t) ==
    /\ runner_jobs[j].state = "leased"
    /\ runner_jobs[j].ttl > 0

(* The lease a presented token must still hold. *)
Holds(j, t) ==
    /\ runner_jobs[j].state = "leased"
    /\ runner_jobs[j].token = t
    /\ runner_jobs[j].ttl > 0

ExtendedMutant(row) == row

Extended(row) == [row EXCEPT !.ttl = LeaseTTL]

HeartbeatMutant(j, t) ==
    /\ runner_jobs[j].state = "leased"
    /\ runner_jobs[j].token = t
    /\ runner_jobs' = [runner_jobs EXCEPT ![j] = Extended(@)]
    /\ UNCHANGED <<defenses, check_attempts, job_leases, appliedBy>>

Heartbeat(j, t) ==
    /\ Holds(j, t)
    /\ runner_jobs' = [runner_jobs EXCEPT ![j] = Extended(@)]
    /\ UNCHANGED <<defenses, check_attempts, job_leases, appliedBy>>

Done(row) == [row EXCEPT !.state = "completed", !.ttl = 0]

(* The end of Complete: the token stays on the completed row. *)
FinishJob(j, t) ==
    /\ runner_jobs' = [runner_jobs EXCEPT ![j] = Done(@)]
    /\ job_leases' = [job_leases EXCEPT ![j] = Release(@, "completed")]
    /\ appliedBy' = [appliedBy EXCEPT ![j] = t]

(* What each result of a preparation writes to a row still preparing. *)
Started(row) == [row EXCEPT !.status = "active", !.timer = row.limit]

HideChecked(row, valid) ==
    IF row.status # "preparing" THEN row
    ELSE IF valid THEN Started(row) ELSE [row EXCEPT !.status = "ready"]

Discovered(row) ==
    [row EXCEPT !.status = IF @ = "preparing" THEN "ready" ELSE @,
                !.catalog = TRUE]

Masked(row) ==
    [IF row.status = "preparing" THEN Started(row) ELSE row
        EXCEPT !.masked = TRUE]

FinishPrepare(j, t, mode, row) ==
    /\ Holds(j, t)
    /\ runner_jobs[j].kind = "prepare_defense"
    /\ defenses[runner_jobs[j].defense].mode = mode
    /\ defenses' = [defenses EXCEPT ![runner_jobs[j].defense] = row]
    /\ FinishJob(j, t)
    /\ UNCHANGED check_attempts

CompleteHide(j, t, valid) ==
    FinishPrepare(j, t, "hide_seek",
                  HideChecked(defenses[runner_jobs[j].defense], valid))

CompletePrepareError(j, t) ==
    FinishPrepare(j, t, "restore",
                  PrepareFailed(defenses[runner_jobs[j].defense]))

(* unique (defense_id, rank) refuses a second catalog. *)
CompleteDiscovery(j, t) ==
    LET row == defenses[runner_jobs[j].defense] IN
    /\ ~ row.selected
    /\ ~ row.catalog
    /\ FinishPrepare(j, t, "restore", Discovered(row))

CompleteMask(j, t) ==
    LET row == defenses[runner_jobs[j].defense] IN
    /\ row.selected
    /\ FinishPrepare(j, t, "restore", Masked(row))

(* The outcomes Complete accepts for a check. *)
Outcome == {"passed", "failed", "error"}

Judged(row, outcome) ==
    IF row.outcome = "pending" THEN [row EXCEPT !.outcome = outcome] ELSE row

(* Only success is terminal, and only for a defense that is still active. *)
Passed(row, outcome) ==
    IF outcome = "passed" /\ row.status = "active"
    THEN [row EXCEPT !.status = "passed", !.timer = 0] ELSE row

CompleteCheck(j, t, outcome) ==
    /\ Holds(j, t)
    /\ runner_jobs[j].kind = "check_attempt"
    /\ check_attempts' = [check_attempts EXCEPT
            ![runner_jobs[j].attempt] = Judged(@, outcome)]
    /\ defenses' = [defenses EXCEPT
            ![runner_jobs[j].defense] = Passed(@, outcome)]
    /\ FinishJob(j, t)

Complete(j, t) ==
    \/ \E valid \in BOOLEAN : CompleteHide(j, t, valid)
    \/ CompletePrepareError(j, t)
    \/ CompleteDiscovery(j, t)
    \/ CompleteMask(j, t)
    \/ \E outcome \in Outcome : CompleteCheck(j, t, outcome)

(* A completion presented again is answered with the stored result. *)
RetryAccepted(j, t) ==
    runner_jobs[j].state = "completed" /\ runner_jobs[j].token = t

-----------------------------------------------------------------------------
(* Time                                                                    *)

(* A timer that still counts; both stop once the comparison is decided. *)
Counting(row) == row.status = "active" /\ row.timer > 0
Running(row) == row.state = "leased" /\ row.ttl >= 0

Sooner(row) == [row EXCEPT !.timer = @ - 1]
Older(row) == [row EXCEPT !.ttl = @ - 1]

Pass ==
    /\ defenses' = [d \in DefenseId |->
            IF Counting(defenses[d]) THEN Sooner(defenses[d]) ELSE defenses[d]]
    /\ runner_jobs' = [j \in JobId |->
            IF Running(runner_jobs[j]) THEN Older(runner_jobs[j])
                                       ELSE runner_jobs[j]]
    /\ UNCHANGED <<check_attempts, job_leases, appliedBy>>

Tick ==
    /\ \/ \E d \in DefenseId : Counting(defenses[d])
       \/ \E j \in JobId : Running(runner_jobs[j])
    /\ Pass

Next ==
    \/ \E s \in Submission, k \in Key : Create(s, k)
    \/ \E d \in DefenseId : Get(d)
    \/ \E d \in DefenseId, l \in Limit : Configure(d, l)
    \/ \E d \in DefenseId, l \in Limit : ConfigureHide(d, l)
    \/ \E d \in DefenseId, k \in Key : Attempt(d, k)
    \/ \E d \in DefenseId : Cancel(d)
    \/ \E r \in Runner : Lease(r)
    \/ \E j \in JobId : \E t \in Tokens(j) : Heartbeat(j, t)
    \/ \E j \in JobId : \E t \in Tokens(j) : Complete(j, t)
    \/ Tick

Spec == Init /\ [][Next]_vars
-----------------------------------------------------------------------------
(* Properties                                                              *)

(* The tables hold rows of their types. *)
TypeOK ==
    /\ defenses \in [DefenseId -> DefenseRow]
    /\ check_attempts \in [AttemptId -> AttemptRow]
    /\ runner_jobs \in [JobId -> JobRow]
    /\ job_leases \in [JobId -> Seq(Reason)]
    /\ appliedBy \in [JobId -> Nat]

Live(j) == runner_jobs[j].state \in LiveState

(* No work is lost or left over: a defense is preparing exactly while a    *)
(* live job prepares it, an attempt is pending exactly while a live job    *)
(* checks it, and a defense has at most one live job, whatever leases      *)
(* expired, were cancelled or were completed late.                         *)
WorkConserved ==
    /\ \A d \in DefenseId :
          defenses[d].status = "preparing" <=>
              \E j \in JobId : /\ Live(j)
                               /\ runner_jobs[j].kind = "prepare_defense"
                               /\ runner_jobs[j].defense = d
    /\ \A a \in AttemptId :
          check_attempts[a].outcome = "pending" <=>
              \E j \in JobId : Live(j) /\ runner_jobs[j].attempt = a
    /\ \A i, j \in JobId :
          Live(i) /\ Live(j) /\ runner_jobs[i].defense = runner_jobs[j].defense
          => i = j

(* A check runs only for a defense that is active or ran out of time       *)
(* meanwhile: Cancel, and a passed attempt, leave no check behind.         *)
ChecksBelongToPlay ==
    \A j \in JobId :
        Live(j) /\ runner_jobs[j].kind = "check_attempt"
        => defenses[runner_jobs[j].defense].status \in {"active", "expired"}

(* The lease ledger agrees with the queue: lease_no counts the leases,     *)
(* every retry is an expired lease, only the newest lease of a leased job  *)
(* is open and its token is the job's, and a job is leased at most         *)
(* MaxRetries + 1 times, a dead one exactly so often.                      *)
LeaseLedger ==
    \A j \in JobId :
        LET row == runner_jobs[j]
            n == Len(job_leases[j]) IN
        /\ n <= MaxRetries + 1
        /\ \A i \in 1 .. n :
              /\ job_leases[j][i] = "open" <=> row.state = "leased" /\ i = n
              /\ job_leases[j][i] = "expired" <=> i <= row.retry
        /\ row.state = "none" => n = 0
        /\ row.state = "leased" => row.token = n
        /\ row.state \in {"queued", "dead"} => n = row.retry
        /\ row.state \in {"leased", "completed"} => n = row.retry + 1
        /\ row.state = "dead" <=> row.retry = MaxRetries + 1

(* A stale runner never overwrites a newer result: the result of a job is  *)
(* the one of its newest lease.                                            *)
NewestLeaseWins ==
    \A j \in JobId : appliedBy[j] # 0 => appliedBy[j] = Len(job_leases[j])

(* A runner whose completion was applied but whose response was lost can   *)
(* send it again: the completed row still knows its token.                 *)
CompletionRetryAccepted ==
    \A j \in JobId : appliedBy[j] # 0 => RetryAccepted(j, appliedBy[j])

(* The catalog is inserted once: a job that is to discover candidates      *)
(* never meets a catalog (it would fail on unique (defense_id, rank) until *)
(* it is dead).                                                            *)
DiscoveryOnce ==
    \A j \in JobId :
        LET d == runner_jobs[j].defense IN
        /\ Live(j)
        /\ runner_jobs[j].kind = "prepare_defense"
        /\ defenses[d].mode = "restore"
        /\ ~ defenses[d].selected
        => ~ defenses[d].catalog

(* A defense is passed only by an attempt accepted before its deadline.    *)
PassedInTime ==
    \A d \in DefenseId :
        defenses[d].status = "passed" =>
            \E a \in AttemptsOf(d) : /\ check_attempts[a].outcome = "passed"
                                     /\ check_attempts[a].early

(* A lease that was lost stays lost: a token that Heartbeat or Complete    *)
(* would refuse is refused for ever, so a runner told to stop can stop.    *)
LostLeaseStaysLost ==
    [][\A j \in JobId : \A t \in Tokens(j) : ~ Holds(j, t) => ~ Holds(j, t)']_vars

-----------------------------------------------------------------------------
(* The contract                                                            *)

Contract == INSTANCE DefenseContract WITH
    status <- [d \in DefenseId |-> defenses[d].status],
    submission <- [d \in DefenseId |-> defenses[d].sub],
    verdict <- [a \in AttemptId |-> check_attempts[a].outcome],
    target <- [a \in AttemptId |-> check_attempts[a].defense]

(* Leases, retries, late completions and lazily applied deadlines are      *)
(* invisible in the contract: every committed call of the repository is    *)
(* one step of the defense life cycle, or none.                            *)
ImplementsContract == Contract!Spec

-----------------------------------------------------------------------------
(* What the documentation says and the code does not do                    *)

(* "Success finishes the defense" (README.md): an attempt that passed has  *)
(* ended its defense as passed.  Not so if the defense was read after its  *)
(* deadline while the check was still running.                             *)
SuccessFinishes ==
    \A a \in AttemptId :
        check_attempts[a].outcome = "passed"
        => defenses[check_attempts[a].defense].status = "passed"

=============================================================================
