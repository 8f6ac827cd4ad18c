# CppDefense: a TLA+ verification project

CppDefense lets a student defend a lab: a teacher configures a defense, a runner
hides part of the submitted C++ project, the student restores it before a
deadline, and runners build and test every attempt. The backend is written in Go
on PostgreSQL and an object store; the analysis of C++ sources, and a stand-alone
command line version of the defense, are written in C++.

This directory models the parts in which several actors, failures and clocks
meet. The modules are translated from the code, TLC checks them on small
instances, and TLAPS proves the safety properties of the queue, the agents, the
long poll, the snapshots, the accounts, the page of a defense and the two C++
programs for every instance.
`PROJECT.json` maps each definition to the lines it models and lists the runs,
mutants, findings, hazards and theorems. Paths below are relative to the root of
the repository.

1. [Inventory](#1-inventory)
2. [Modules, state and actions](#2-modules-state-and-actions)
3. [Runs](#3-runs)
4. [Where code and documentation disagree](#4-where-code-and-documentation-disagree)
5. [Proofs](#5-proofs)
6. [What is not modelled](#6-what-is-not-modelled)
7. [Plan](#7-plan)

## 1. Inventory

### How the parts interact

```
 browser ──HTTP──> API ──SQL──> PostgreSQL <──SQL── API <──HTTP── runner agent
 (student,         │            defenses             │            (slots)
  teacher)         │            check_attempts       │              │
                   │            runner_jobs          │              ├─> worker process (C++)
                   └──> object store (archives) <────┘              └─> sandbox (build, tests)

 command line program (C++): the same defense on one machine, without a server
```

A defense and its attempts are rows. Work for runners is a row in `runner_jobs`,
inserted in the same transaction as the change that needs it. A runner leases a
job with a random token, renews the lease with heartbeats and completes the job
with the token; a lease that runs out is put back by whoever leases next. The
same token decides whether a completion is applied. Deadlines are stored, and
applied lazily by the next call that looks.

### Components

| Component | State | Operations | What is hard about it | What must hold |
|---|---|---|---|---|
| Defense life cycle (`postgres/defense.go`, `hide_seek.go`) | rows of `defenses`, `check_attempts` | Create, Get (expires), Configure, ConfigureHide, Attempt, Cancel | reads that write, retries with a key, completions after the end | one open defense, no lost work, ended is final, passed in time |
| Job queue (`postgres/defense.go`) | `runner_jobs`, `job_leases` | Lease (reaps, retries, buries), Heartbeat, Complete and its replay | stale tokens, two clocks, retry limit, lost answers | the newest lease wins, ledger and queue agree, replay is accepted |
| Long poll (`postgres/runner_wait.go`) | open transactions, row locks, subscriptions | LISTEN, lease, wait, wake, reconcile | SKIP LOCKED with rollback, notify before listen | no lost wake-up, every job is picked up |
| Runner agent (`runner/agent.go`, `backend_client.go`) | slot: job, token, context, ticker | poll, work, beat, time out, report once | hanging requests, error answers, crash, timeout against result | lease kept while it works, work ends |
| Snapshots and reference verification (`runner/snapshot_*.go`, `reference.go`) | directories under flock, proof per defense | build, publish, load, prune, verify | several slots and processes, crash while publishing | only whole, verified snapshots are used |
| Sandbox (`runner/sandbox.go`) | container | run, parse output | truncated output | outcome of the stages |
| Imports (`httpapi/imports.go`, `local_import.go`, `postgres/imports.go`) | `imports`, items, receipts, `submission_versions`, objects | store, create, review, begin, put, commit, clean up, finish | two stores without a common transaction, unknown outcome of a commit, stale snapshots | references resolve, nothing leaks, versions ordered, all or nothing |
| Object store (`objectstore/local`, `s3`, `application/storage`) | keys | put, open, delete, reconcile | partial writes, listing while others write | whole objects, exact report |
| Authentication (`postgres/auth.go`, `session.go`, `application/auth`) | flows, users, sessions, student records | begin and consume a flow, log in, approve, revoke | claims of one record by login, approval, roster | one owner per record, a blocked user has no session |
| Administration and rosters (`postgres/admin.go`, `rosters.go`) | roles, groups, records | set role, block, preview and apply a roster | check and use in two statements | what was previewed is applied |
| Audit log (`postgres/audit.go`) | hash chain | append | concurrent appends, failure after the commit | one chain |
| Migrations (`postgres/migrate.go`) | ledger of checksums | migrate | two processes at start-up | each once, in order |
| Web client (`webassets/static/app.js`) | draft, version, timers | poll, save draft, submit | poll replaces the version edited on | no draft is overwritten unseen |
| Worker process (`src/worker`) | session directory, lock, state files | analyze, prepare, materialize | concurrent and killed processes, changed sources | published is whole and final, one result per session |
| Local session (`src/application/defense_session.cpp`, `src/ui/cli_app.cpp`) | status, timer, directory, report | start, check, expire, quit | deadline during a build, failing writes, restart | verdict in time, report agrees |
| Process runner (`src/infrastructure/process`) | child, deadline | run, kill | exit against timeout | reported once, group killed |
| Selection, masking, patching, parsing (`src/infrastructure`, `src/application/candidate_picker.cpp`) | none | pure functions | ranges, ties, limits | result as specified |
| HTTP routing, configuration, GitHub client, command parser, deployment scripts | none beyond the call | decoding and input/output | | |

The hazards this gives rise to are listed in `PROJECT.json`, each at the line
where it bites, with the properties that would catch it.

## 2. Modules, state and actions

| Part | Specification | Model for TLC | Proofs |
|---|---|---|---|
| Defenses, attempts, queue | `DefenseQueue` | `MCDefenseQueue` | `DefenseQueueProofs`, `DefenseWorkProofs` |
| What the queue promises | `DefenseContract` | (a property of `MCDefenseQueue`) | `DefenseWorkProofs` |
| Runner agents on the queue | `RunnerAgent` (extends `DefenseQueue`) | `MCRunnerAgent` | `RunnerAgentProofs` |
| Long poll | `LeaseWait` | itself | `WaitingProofs` |
| Build snapshots and references | `Snapshots` | `MCSnapshots` | `SnapshotsProofs` |
| Accounts, sessions, rosters, audit log | `Accounts` | `MCAccounts` | `AccountsProofs` |
| What claims of student records promise | `Claims` | (a property of `MCAccounts`) | `AccountsProofs` |
| Page of a defense and drafts | `DefensePage` | itself | `WaitingProofs` |
| Imports and object store | `Imports` | `MCImports` | `ImportsProofs` |
| Command line program | `CliSession` | itself | `SessionProofs` |
| Worker processes | `WorkerSession` | `MCWorkerSession` | `SessionProofs` |
| Wheel selection | `Wheel` | `MCAlgorithms` | |
| Hidden errors, masked sources | `HideSeek` | `MCAlgorithms` | |
| Archives of projects | `Archives` | `MCAlgorithms` | |
| Output of the sandbox | `SandboxReport` | `MCAlgorithms` | |

Operators whose names end in `Mutant` are plausible bugs in the code of the
definition that follows them. No specification uses them; putting one in the
place of its definition must violate a property, which shows that the property
depends on that code.

### DefenseQueue

The state is the content of four tables, and `appliedBy`, a history variable that
records the lease whose result was applied. An action is one committed call of
the repository. That is sound because Create, Configure, ConfigureHide, Cancel,
Attempt and Complete are SERIALIZABLE, Get's expiry and Heartbeat are single
statements, and Lease locks the rows it changes; a call that is refused or rolled
back changes nothing.

| Action | Code |
|---|---|
| `Create(s, k)` | `Create`: by key, else the open defense (both end in Get), else a new row and its job |
| `Get(d)` | `Get`: the update that expires an overdue defense |
| `Configure(d, l)`, `ConfigureHide(d, l)` | `Configure`, `ConfigureHide`: choice of a challenge, new job |
| `Attempt(d, k)` | `Attempt`: state, key, one pending attempt, new row and job |
| `Cancel(d)` | `Cancel`: the defense, its attempts, jobs and open leases |
| `Lease(r)` = `LeaseJob` or `LeaseNothing` | `Lease`: overdue leases to queued or dead with the consequences for their owners, then the oldest queued job |
| `Heartbeat(j, t)` | `Heartbeat` |
| `Complete(j, t)`: hide-and-seek, error, discovery, mask, check | `Complete` |
| `Tick` | a tick of the database clock |

The row functions (`Expired`, `Reaped`, `Leased`, `Done`, `Judged`, ...) are the
SET clauses. Callers are as general as the API allows: any token that was ever
handed out can be presented at any time. Lost answers, duplicated and late
completions, and runners that hang or crash are therefore all behaviours of the
module, with no need to model them one by one.

Time is a countdown. `timer` and `ttl` are the ticks left to `deadline_at` and
`lease_expires_at`; 0 is equality, a negative `ttl` lies in the past, so `<`, `<=`
and `>` in the SQL stay distinct. `Skew` is the difference between the clock of
the backend, which writes the expiry of a new lease, and the clock of the
database, which writes that of a heartbeat and decides all comparisons.

### DefenseContract

The life cycle without jobs: a status for each defense and a verdict for each
attempt. `GiveUp` is the one compound step: a call that reaps several leases may
end several preparations and attempts at once. `DefenseQueue!Contract` maps the
tables to it by leaving out the queue.

### RunnerAgent

Adds `slots`, the worker loops of the agents, to the queue and restricts who
presents a token: only the slot that holds it. Polling, the heartbeat loop, the
job's timeout, the result and the only report are steps. A lost lease answer, a
heartbeat that fails or hangs for any time, an error answer to a good heartbeat, a
lost report and a crash are alternatives of these steps. A tick is the 30 seconds
of the heartbeat ticker, and a live agent reacts within a tick.

Everything a slot calls is an action of `DefenseQueue`, with its own token; the
theorem `AgentsUseQueue` says so. A slot whose context has ended still reports:
the report goes out with the context of the agent, and what it says when the job
was stopped (`ReportStopped`) completes the job like any other result.

### LeaseWait

One waiter per call of `LeaseWaiting`: connect and LISTEN, run a lease
transaction, wait for a notification for at most a second, again. Here the lease
transaction is two steps, what it locks and its commit or rollback, because
`FOR UPDATE SKIP LOCKED` lets another waiter look past a row that is locked by a
transaction that then rolls back. `unannounced` records the jobs that came back
to the queue that way. What a lease writes is abstracted to the job's state; its
detail is in `DefenseQueue`.

### Snapshots

`slots` are the worker loops of one or two agent processes on one host, `disk` the
directories of the shared cache, `stages` the staging directories, `locks` the flock
of each key, and `references` what each process remembers of verified originals;
`tested` and `accepted` are history variables. A job asks whether its original is
proved (`Memory`), ensures a snapshot under the key's lock (`EnsureLock`, `Retest`,
`Build`, `Test`, `Publish`), prunes the cache (`Prune`, `Remove`, `Cleanup`), and runs
the sandbox on the snapshot under the same lock or from nothing (`Reread`, `RunLock`,
`CheckEnds`, `HideRunEnds`).

- A removal is one step, but `Crash` leaves any part of what a process was writing
  or removing, and frees its locks, as the kernel does.
- The age limit of abandoned staging directories is left out, so they may be
  cleaned at any age. That is more than the code does: the lock alone must protect
  the live ones.
- The unit of time is at least the job's timeout (5 minutes against a
  `referenceTTL` of an hour), so time does not pass twice during one job; the age of
  a proof is measured when the job begins, as in the code. `RefTTL` is at least two
  units (`TTLSnapshotAssumption`): with one, a job that reads its proof back could
  find one that another slot stored meanwhile and whose tests ended before the job
  began by `referenceTTL` or more. The code's
  `CPPDEFENSE_JOB_TIMEOUT` has no such bound, so an operator who raises it above half
  an hour leaves what is modelled here.
- The byte limit of the cache is counted in snapshots, and what an archive contains
  is a set of files that is complete or not.

### Accounts and Claims

`users`, `logins`, `records` (student records), `teaches`, `idem`, `flows`, `sessions`
and `chain` are tables, `handlers` the requests being handled, `auditLock` the
advisory lock of the audit log, and `cookies` what the browsers hold.
A request is authenticated, its right is checked, a transaction makes the change, a
second one appends to the audit chain, and the answer goes out; these are the steps
of a handler, others come between any two, and a handler may die at each.

| Action | Code |
|---|---|
| `StartFlow`, `Consume`, `LoginGitHub`, `CreateSession` | the login: flow, callback, claim of a record by login, session |
| `ApproveStudent`, `RejectUser` with `Verdict` | decisions and their replay with the same key |
| `SetRole`, `Block`, `AssignTeacher`, `ApplyRoster`, `ChangeSession` | administration, roster, view of a session, logout |
| `ImportRecord` | the record an import creates for a login it does not know |
| `AuditBegin`, `AuditCommit`, `AuditFails` | the append: the lock and the last hash, then the insert |

A serializable transaction or a single statement is one step. The append is two,
because its correctness rests on the advisory lock. The trigger of the users table
is in the guards: a rejected user does not become active again. `Claims` is the
abstract specification: a record is claimed at most once, then for good, and nobody
owns two.

### DefensePage

The page of one defense (`app.js`) and its handlers. `page` is what the script
keeps (mode, status, draft version, whether the poll timer is set), `defense` and
`attempts` the rows, and there is one request of every kind (`get`, `save`, `submit`,
and `other` for start and cancel), which is on its way, being handled or answered.
Answers are lost or overtake each other. The script runs from one `await` to the next
in one step; the refresh that first finds the defense active goes on to read the files
(`loadRepository`). The buttons for saving and submitting are enabled from the load of
the page until a refresh disables them, so the student can use them before the page has
shown anything, with version 1 and the mode the script begins with; `shown` records
of every attempt whether the page showed the defense as active when it was sent. A page
follows one defense. Left out: starting another one without a reload, and several
requests of one kind. Other tabs are one action, `SaveElsewhere`. All refusals of a
request look alike to the page, and so do a lost answer and a failed audit record.
`MaxPolls` is 120 in the script.

### Wheel, HideSeek, Archives, SandboxReport

Pure algorithms as operators and recursive functions. `MCAlgorithms` takes every
input of small sets, one per behaviour, and compares the output with a reference
definition that says what it should be without saying how it is computed.

| Module | Code | Reference | Inputs |
|---|---|---|---|
| `Wheel` | `buildWheel`, `mixedCandidates`, the seeded order | `WheelMixed`: refused exactly when it must be; else of the size asked for, without repetition, with the answer, with as many of the largest as is nearest to two thirds, and else with those before all others in the seeded order, whatever the order of the catalog | catalogs of up to 5 candidates and orders of their ids |
| `HideSeek` | validation and application of hidden errors | `EditsApplied`: accepted exactly if the edits fit and do not overlap; then the result of editing character by character, in any order of the edits | texts of 3 characters |
| `HideSeek` | `maskRepositoryBody` | `MaskHides`: same length and lines, nothing of the body, everything else | sources of up to 6 characters |
| `Archives` | `archive.go` | `ProjectsApart`: no file in two projects, no student with two, every project whole | 8 or 9 names of entries |
| `Archives` | `student_archive.go` | `ProjectPrepared`: accepted exactly if the ZIP and the rewritten archive pass the checks and one project is nearest to the top, the limit of the compressed size included; nothing of it is lost | the same, with files that another tool packed better or worse |
| `SandboxReport` | the script and parser of `sandbox.go` | `ReportFaithful`: a stage is reported as passed or failed exactly if its whole block came, and an archive as exported exactly if it is whole and the disk had room for it | chunks of 1 to 4 tokens, killed after any token, with and without room |

The limit of the log is 16 tokens there, so that only the last timing line can be cut
off; the real one of 16 MiB is not reached by the script itself.

### Imports

`requests` and `applies` are the handlers of uploads and applies, with a program
counter, `objects` the object store, and the other variables the tables. The
database and the object store have no common transaction, so a handler is one
step per transaction and per object. A serializable transaction that other
handlers can overtake is two steps, snapshot and commit, and its commit is
refused if a unique constraint is violated by what was committed meanwhile. A
fault (an error, a commit whose answer is not heard, a crash) is recorded with
the import it hits, so that properties can say which fault excuses what.

| Action | Code |
|---|---|
| `StoreOriginalArchive`, `LookUpReceipt`, `CreateReview`, `CreateReviewFails`, `DiscardOriginal` | upload handlers, `CreateReview`, `CreateStudentReview`, `CreateGitHubReview` |
| `Review` | `Review` |
| `BeginApply`, `OpenOriginal`, `PutItem`, `BeginCommit`, `CommitApply`, `CommitApplyConflict`, `ApplyFails`, `DropDuplicates`, `CleanUp`, `Finish` | the apply handler, `BeginApply`, `CommitApply`, `Finish` |
| `Crash` | the backend process ends; every running handler is gone |

### CliSession

The status of `DefenseSession`, its timer, the files of the session directory,
and the loop that reads commands. A check is two steps, the begin and the end of
its build, because the student may edit the answer and the deadline may pass
between them. `Start` may fail after any of its file operations. A report that
cannot be written leaves the old one or a truncated one, and the session ends in error,
unless the failure comes so late that the program does not notice it: the stream is
tested before it is flushed (`Unnoticed`). `passed` and `unsaved` are history variables.
`MaxAttempts` bounds the builds of a session.

### WorkerSession

Worker processes in one session directory: the lock file, the two state files of
a preparation, the directory of an attempt, and for each process its program
counter and its temporary tree. A process can fail or die at every step, also before
it has the lock (`Refuse`). The contract of the worker calls the staged project
immutable, and the runner of this repository stages every job into a directory of its
own; `Restage` lets the project change whenever no command is running. That is a harsher
environment than the worker has, and shows what it guarantees without that promise.

## 3. Runs

| Run | Instance | Distinct states | What it shows |
|---|---|---|---|
| `defense_queue` | 2 submissions, 2 defenses, 2 attempts, 4 jobs, 2 keys, 1 runner, 1 retry, lease of 2 ticks, skew from -2 to 1 | 308,305 | no work is lost or left over, no check outlives its defense, discovery happens once, a pass was in time, ledger and queue agree, the newest lease wins, a lost lease stays lost, and all of it implements `DefenseContract` |
| `agent` | 2 slots, 1 defense, 1 attempt, 3 jobs, 1 retry, lease and timeout of 3 ticks, skew of -1 or 0 | 304,144 | no two slots share a lease, a slot keeps its lease unless missed heartbeats use it up, every preparation and attempt ends |
| `lease_wait` | 3 waiters, 2 jobs, 2 faults | 139,245 | no lost wake-up, every job is picked up |
| `snapshots` | 2 slots in one or two processes, 2 keys, 2 jobs, 1 crash, cache of 1 snapshot, memory of 1 proof, times to live of 2 | 268,708 | no sandbox runs on a snapshot that is incomplete or goes away, snapshots and acceptances rest on tests that passed, jobs end |
| `accounts` | 2 handlers, 4 accounts, 1 login, 2 groups, 2 records, 3 requests, 4 sessions | 375,840 | records are owned by admitted users and implement `Claims`, decisions can be repeated, the audit chain is one line, sessions in browsers are audited |
| `defense_page` | 2 draft versions (3 in a hide-and-seek), 1 attempt, 2 configurations, 1 loss, 2 polls | 432,479 | drafts, and attempts of a page that showed the defense as active, fit the mode; the draft version recovers, the page comes to rest |
| `imports` | 2 uploads, 2 labs, 2 contents, 2 faults | 210,397 | references resolve, nothing leaks, versions are ordered, an apply ends |
| `cli_session` | limits of 1 and 2 ticks, 3 builds | 966 | verdict in time, report agrees |
| `worker_session` | 3 processes, any requests, 2 contents, 2 answers | 370,064 | what is published is whole, and everybody is told the same |
| `algorithms` | see `MCAlgorithms` above | 391,717 | the pure algorithms give what their reference definitions say |
| `success_finishes`, `imports_duplicate` | | | see section 4 |

The bounds are the smallest in which the cases of interest occur.

- *Queue.* Four jobs let one defense go through discovery, a challenge and two
  attempts, or a cancelled defense be followed by another with an attempt. One retry
  separates "queued again" from "dead"; any number of retries is covered by the
  proofs. A lease of two ticks has all three relations to now (before, at, after),
  and a skew from -2, where the lease would start out expired and is refused, to 1
  lets the two clocks disagree in both directions.
- *Agents.* Two slots are needed for a shared lease. Of a lease of three ticks the skew
  may take one; the rest just covers a slot that loses no heartbeat, and a timeout as
  long as the lease lets it run out under one that does. Leases that outlast lost
  heartbeats are covered by the proof of `LeaseKept`.
- *Long poll.* Three waiters are one that holds the lock, one that looks past it and
  one that sleeps.
- *Snapshots.* A cache of one snapshot for two keys makes every publication evict,
  and two slots are a user and a pruner, in one process or in two.
- *Accounts.* Four accounts with one login among them are an administrator, a
  teacher and two students who claim the same record; three requests are a decision,
  its replay and what comes between.
- *Page.* Two configurations let the mode change under a page that has seen the
  defense ready, in both directions; two polls let an attempt be judged between them or
  the poll give up. Answers overtake each other without a loss. The bound lets each kind
  of draft be saved once; any number of saves and losses is covered by the proof of
  `AnswersFitMode`.
- *Imports.* Two uploads with a common lab and receipt race in every way two can.
- *Worker.* Three processes are a winner, a competitor and a retry.

Symmetry is used for handlers, keys, submissions and worker processes, and never in
a run with a liveness property. The type invariant of the queue is not a property of
a run: it is proved (`TypeCorrect`).

`CHECK_DEADLOCK FALSE` is set where the instance really may stop: requests, uploads,
jobs and worker processes are finite there, an algorithm has one input, a page at
rest stays so, and a program that was quit stays quit. In `defense_queue`, `agent`
and `lease_wait` deadlock is checked.

### Fairness

- `agent`: time passes; agents are restarted and poll; a live agent beats, times out
  and reports. That is the worker loop, the ticker and the context of the job. No
  fairness is given to `Compute`: nobody has to finish a job in time. `WorkEnds`
  holds because leases run out, the next poll reaps them, and retries are bounded.
- `lease_wait`: callers call again, and a call that can go on does; the one-second
  timer of the loop is fair, notifications and rollbacks are not. Faults are
  finite (`MaxFaults`), the assumption without which nothing is ever leased.
- `imports`: a handler that can take a step does. Faults are not fair.
- `snapshots`: a slot with a job takes its next step when it can: the sandbox, the
  worker and the files answer, and the kernel grants a lock that is free. New jobs,
  timeouts, crashes and the clock are not fair.
- `defense_page`: a refresh and a submission go on: their requests are answered or
  lost, and their timers fire. The student, the teacher and the other tabs are not fair,
  and saves and cancellations may hang for ever.

## 4. Where code and documentation disagree

Two statements of the repository are checked as written and do not hold.

- **Success finishes the defense** (`README.md`). If somebody reads an overdue
  defense while the check of an attempt accepted in time is running, Get makes it
  expired; the attempt passes later and the defense stays expired
  (`success_finishes`).
- **Identical content is deduplicated** (`docs/ARCHITECTURE.md`). The item that is
  to be skipped refers to the version the first import's item refers to, and
  `import_items.submission_version_id` is unique: the whole import fails
  (`imports_duplicate`).

Met on the way, part of the models, and not checked by a run of their own:

- Attempt looks at the state of the defense before it looks for the key, so the
  retry of an accepted call is refused once the defense is over
  (`docs/ARCHITECTURE.md` calls retries idempotent).
- A database error during a heartbeat is answered like a lost lease; the agent stops
  the job and reports a failure, which completes it (`docs/ARCHITECTURE.md` has
  infrastructure failures retried). Likewise a container that is killed after a
  stage was completed counts as a failure of the student's code.
- The slots of a runner are stored, but leases are not counted against them
  (`docs/ARCHITECTURE.md` gives "Capacity exists" as a precondition).
- A local check that passed becomes an error if its report cannot be written
  (`docs/USAGE.md` says that a successful test run completes the defense). If the
  write fails only when the file is flushed, nobody notices, and the success is shown
  beside a truncated report.
- An upload whose commit is taken for failed, because its answer or a later read was
  lost, has its archive deleted although the import is there; and an import whose handler
  dies, or whose last update fails, stays `applying`. `ReferencesResolve` and `ApplyEnds`
  except exactly the imports hit by these faults.
- The kind of an answer is checked against the mode before the transaction that stores
  it. A draft is still safe, because its version tells the modes apart. An attempt sent
  before the page has shown the defense as active is not: it can be checked in
  the mode before a reconfiguration and be stored in the one after it.
- A poll replaces the draft version the page was edited on, so a save may replace a
  draft of another tab that the student has not seen; an overtaken poll answer makes
  the next save of a lone tab refused until the next poll. After the student's own
  cancellation the loop is stopped, and if the refresh is lost the page does not show
  the end. `VersionsConverge` and `PageSettles` say what does hold.
- A roster that lists a blocked student who owns a record fails as a whole.
- The import of a roster does not look at an Idempotency-Key, and repeated calls of
  Block and AssignTeacher are answered with a conflict; `ReplayNeverConflicts` is
  about the decisions on users, where the key is honoured.
- A plain ZIP with exactly as many files as allowed is refused once it is rewritten,
  because the manifest adds one; a stored file that compresses well may be refused
  after it is compressed, and files that another tool had packed better may then exceed
  the limit of the compressed size. `ProjectPrepared` states the exact condition.
- The comment on proofs in `reference.go` says that a restarted runner has to validate
  again; the code takes the proof from a snapshot on disk, as
  `docs/ru/INCREMENTAL_BUILDS.md` says.
- The update of SetRole lists rejected users, but the trigger of the table refuses
  that change.

## 5. Proofs

The theorems hold for every value of the constants that satisfies the named
assumptions of the modules: ids are natural numbers, `None` and `Nobody` are none of
the values they stand beside, a lease and a job last at least a tick, limits are
positive, the number of retries is a natural number, the skew is any set of integers,
archives hold work for targets, the keys of snapshots are finitely many and
`referenceTTL` is at least two job timeouts.
They say nothing else about the environment; in particular, any token may be presented
to the queue at any time.

| Module | Theorem | Says |
|---|---|---|
| `DefenseQueueProofs` | `TypeCorrect` | the tables keep their types |
| | `LeaseLedgerCorrect` | `job_leases` agrees with `runner_jobs`: numbers, reasons, retries, the token of a leased job, and at most `MaxRetries + 1` leases |
| | `NewestLeaseWinsCorrect` | the result of a job is the one of its newest lease |
| | `CompletionRetryCorrect` | a completion that was applied is accepted again |
| | `LostLeaseCorrect` | a token that is refused once is refused for ever |
| `DefenseWorkProofs` | `WorkConservedCorrect` | what is preparing or pending has exactly one live job, and nothing else has one |
| | `ChecksBelongCorrect` | no check outlives the play of its defense |
| | `ContractImplemented` | `DefenseQueue` implements `DefenseContract` |
| | `DiscoveryOnceCorrect` | a job that discovers candidates never meets a catalog |
| | `PassedInTimeCorrect` | a defense is passed only by an attempt accepted in time |
| `RunnerAgentProofs` | `AgentsUseQueue` | the agents use the queue as it allows, so all of the above holds with them |
| | `LeaseNotSharedCorrect` | two slots never work under one lease |
| | `LeaseKeptCorrect` | a slot keeps its lease while missed heartbeats leave it a tick |
| `WaitingProofs` | `NoLostWakeupCorrect` | no waiter sleeps while a job that was announced lies free |
| | `LocksAccountedCorrect` | rows are locked by the open transactions, each of which has its job |
| | `AnswersFitModeCorrect` | every draft, and every attempt of a page that showed the defense as active, is of the kind its mode takes |
| `SnapshotsProofs` | `SandboxOnWholeCorrect` | a sandbox runs on a directory that is complete and stays so |
| | `SnapshotsEarnedCorrect` | a snapshot that can be loaded was tested, on its own original |
| | `AcceptedOnProofCorrect` | an answer is accepted unbuilt only on a fresh proof of its own original |
| `ImportsProofs` | `VersionsOrderedCorrect` | the versions of a lab are numbered without a gap and differ |
| | `ReferencesResolveCorrect` | every key in the database has its object, unless a commit was taken for failed which was not |
| | `NoLeakCorrect` | an object nothing refers to has a handler that runs, or was hit by a fault |
| `AccountsProofs` | `OwnersAdmittedCorrect` | the owner of a student record is active or blocked and has a role |
| | `ChainLinearCorrect` | the audit chain has no fork and no gap |
| | `SessionsAuditedCorrect` | a browser holds only sessions whose login is in the audit log |
| | `ClaimsImplemented` | `Accounts` implements `Claims` |
| | `ReplayCorrect` | the replay of a decision does not end in a conflict |
| `SessionProofs` | `VerdictInTimeCorrect` | a local defense is won only by a build that passed in time, and expires only at its deadline |
| | `ReportAgreesCorrect` | the report tells the outcome of the session it lies beside unless a write failed, and never a success that was not earned |
| | `PublishedWholeCorrect` | what lies under a final name was written to its end |
| | `PreparedOnceCorrect` | whoever is told a preparation succeeded is told what was published |
| | `AttemptFaithfulCorrect` | an attempt has a valid answer in the source it was selected in, and one maker |

So all properties of `defense_queue`, `accounts`, `cli_session` and `worker_session`,
and all safety properties of `agent`, `lease_wait`, `defense_page`, `snapshots` and
`imports`, are proved for every instance. `WaitingProofs` and `SessionProofs` are each about two
components that share no state.

**Rows.** The first part of `DefenseQueueProofs` states, for every row function, that it
maps rows to rows, with the columns it sets; the proofs of the actions cite these
lemmas and do not expand the records.

**The lease protocol.** None of the lease properties is inductive alone. That the
newest lease wins needs the token of a leased job to be the number of its last
lease; that needs the ledger; and the ledger needs the retry counter to count
exactly the expired leases, since a reaped job is leased again with the next
number. The inductive invariant is `LeaseInv`: types and, for every job,
`LedgerOf` and `ResultOf`; `LeaseInvMeaning` shows it is the conjunction of the
properties. The proof is split in two. `JobEffect` looks at each action once and
shows that it does one of six things to a job (`JobStep`: kept, inserted,
cancelled, reaped, leased, perhaps after a reaping in the same call, completed).
`LedgerStep` shows that each of the six preserves the invariant.
`LostLeaseCorrect` follows from it, because a token can regain a job only if the
job is leased with that number, and a new lease has a number that was never used.

**Work.** `WorkInv` adds to the types that the columns of a live job fit together
and its defense is in a status the job can be for (`JobOK`), that what is preparing
or pending is served by a live job (`Served`), and that a defense has one live job at
most (`OneJob`). `WorkConserved` and `ChecksBelongToPlay` follow. Every action either
inserts a job for a defense that has no live one (`Inserted`), or ends jobs together
with what waited for them (`EndKeeps`, with one lemma for Cancel, for reaping and for
each kind of completion), or changes neither. The case that matters is Lease: it
reaps any number of jobs, fails the owners of those that are dead, and leases one of
the others, in one step.

**The contract.** Each action is shown to be a step of `DefenseContract` or a stutter
of it. That needs `WorkInv`: a completion of a preparation starts a defense only if
the contract allows it, that is, if the defense of a live preparing job is still
preparing. `PlayInv` gives the two other properties: a restore preparation without a
selection has no catalog, every attempt was accepted early, and a passed defense has
an attempt that passed.

**Agents.** `AgentInv` adds to the types that a slot at work has a token that was
handed out (`SlotInv`), and `KeptInv`: the lease of a slot whose missed heartbeats
leave a tick is not only held, as `LeaseKept` says, but outlasts the next beat
(`Covered`: ticks left + missed + 1 is at least the length of the lease, with the
skew it started with, + ticks to the next beat). Time takes one from both sides, a
lost heartbeat adds to both, one that arrives restores it. The steps of others leave
such a row alone or cancel it: it is not overdue, so polling passes over it, and no
other slot has its token (`LeaseNotShared`), so no other heartbeat or completion
fits it.

**Wake-ups.** `NoLostWakeup` is not inductive: a waiter that waits without having
subscribed would miss a notification, and the release of a lock could uncover a
job nobody was told of. `WakeupInv` adds that those who query or wait listen
(`SleepersListen`) and that a transaction holds only the job it selected and
overdue jobs (`HeldByLease`), with `LocksAccounted`.

**Accounts.** `AccountsInv` is `TypeOK`, `Admitted` and `AuditInv`. `OwnersAdmitted` is
not inductive, because a roster gives a record to an active user and leaves the user's
row alone: `Admitted` adds that active users have a role. `OwnersKept`, shown action by
action, gives it together with the step of `Claims` that the owners make
(`ClaimStep`). For the chain, `Appending` says that the handler about to insert has the
lock and has read the last event; for the sessions, `SessionsExist` says that those a
browser or a handler knows of exist. The replay follows from the order of the tests in
`Verdict`.

**The page.** `AnswersFitMode` is not inductive: the answer is chosen by the mode the
page knows, which may be old. `FitInv` has a part for every place a mode or an answer
can be. The row (`RowFits`): attempts exist only once the defense was active, which locks
the mode, and a hide-and-seek has a version above 1. The page (`PageFits`) and an answer to
a read (`GetFits`): once active, they have the final mode; before its first
refresh, the page has version 1 or has saved a draft of a restoration.
Requests (`SaveFits`, `SubmitFits`): one that left a page which showed the defense as
active fits the mode; a save that left earlier has version 1 and a text, so it is
refused in a hide-and-seek and fits a restoration. `StartFits`: until a page follows a
defense it has no request that the row of another could answer.

**Snapshots.** `SandboxOnWhole` is about two slots at once, one that runs and one that
removes, and is not inductive: it needs to be known who holds which lock. `SnapshotInv`
says of every slot (`SlotOK`) that in the places between taking and freeing the lock of
its key it holds it, and in `evict` also the lock of another key (`LocksHeld`), that
what it has mounted is whole and what it stages is there (`Mounted`, `Staged`), and that
its job began at most a unit of time ago and its tests passed since (`Timely`); then that
every time on disk and in memory is one of tests that passed (`ProofsEarned`), and that
a proof about to be read back is young enough, whoever stored it meanwhile
(`RereadFresh`). `StepOK` says what a step of one slot may do to the others: it takes
free locks, drops its own, changes only trees it has locked, and stores only times of
tests that passed. `SlotStep` shows that such a step keeps the invariant if the slot
keeps its own promises; each action is then a `StepOK` that ends in a place without
promises (`LightStep`) or in one under the lock (`HeldStep`). `CrashStep` is apart: it
ends any number of slots at once and leaves any part of the trees they were removing.

**Imports.** `ImportsInv` has a part for each import and one for the versions of all. For
an upload (`UploadOK`) it says in which places the archive is in the store and the import
in the database; for an apply (`ApplyOK`) that it begins once, that every object it wrote
is in `put`, was left by a fault or belongs to a version, and that versions are made only
by the commit. A step touches one import: `Spared` shows that the others keep their part.
The versions are the case that needs an argument, since a commit numbers and compares by
the snapshot its transaction began with (`SnapshotOK`: older, but gapless). If the number
after the snapshot's last is free, then, by the cardinalities, the snapshot has all versions
of that lab (`NextNumber`), so the new version leaves no gap and its content is new.
The serialization failure of PostgreSQL is not needed for it; the unique key is.

**Worker processes.** `WorkerInv` adds to `PublishedWhole` that at most one process is
between taking and dropping the lock (`LockExclusive`), that one on its way to the rename
found the final name free and has a complete tree (`WayToRename`), that whoever made
something published it and an attempt is made once (`MadeIsPublished`), and that the
attempt has the answer of a request (`OutputAnswers`). A process that dies drops the lock
but not what it published, so its successor finds the name taken.

**Local session.** `CliInv` adds `OpenSession`: a build runs exactly while the session is
checked, and an open session has neither a report nor a passed build.

**Model-checked only.** Liveness (`WorkEnds`, `PickedUp`, `ApplyEnds`, `JobsEnd`,
`VersionsConverge`, `PageSettles`) is out of reach of the prover, which has no backend
for fairness and ENABLED; so is what a recursive definition computes for every input,
which is why the algorithms have no theorems.

## 6. What is not modelled

- **Contents.** Sources, answers, logs and catalogs are values that can be equal or
  not, whole or not, outside of the modules of section 2 that are about them. What a
  build or a test says is a choice of outcomes.
- **Serialization failures.** A transaction that PostgreSQL aborts changes
  nothing, and the code does not retry it: it is a call that never happened.
- **Rights to defenses and imports.** The actions of `DefenseQueue` and `Imports` are
  the calls that are allowed; a refused call changes nothing. Who is let in, and what
  a role may decide about users and records, is `Accounts`.
- **Steps inside the object store.** Put through a temporary file or a conditional S3
  request is one step that may fail. Reconciliation only reads two listings and
  reports.
- **The migration runner** applies files in order under one advisory lock, once per
  start; the constraints and triggers it installs are in the guards of the modules.
- **Roster preview and listings**: they read only. Parsing of rosters is input, and a
  roster has one student in `Accounts`: one of several is applied in one transaction.
- **Single steps of `Snapshots`**: freeing the lock after a build and storing the proof
  are one step, and a removal that fails without a crash is left out; what it leaves is
  what a crash in its middle leaves.
- **stderr and base64 in the sandbox's output**: what the container writes to its
  standard error comes after the log and has none of the lines the parser looks for, and
  the log of a stage whose end is read is the script's own base64.
- **Deletion of duplicates by an apply**: `DropDuplicates` is in `Imports` for its place
  in the handler, but has nothing to delete, because the unique key refuses every
  commit with a duplicate before.
- **Times of files in a snapshot, and the content of its archive**, which decide what
  the build tool builds again, not whether a snapshot may be used.
- **How the runner builds both versions of a hide-and-seek project**: an outcome.
- **Other pages of the web client, rendering, and its two other scripts.**
- **Deletion of a temporary tree that fails** in the worker, which the code
  ignores, and the rounding of the build timeout to milliseconds in the command
  line program.
- **The parser of C++ sources** and the candidates picked by its scores. It works
  character by character; a model would be a second implementation. Its result is an
  input of the other parts.
- **The process runner**: one process that waits for its child; what its system calls
  can answer are the outcomes of a build in `CliSession`.
- **Pure input and output**: HTTP routing and rendering, configuration, the GitHub
  client, the S3 client, deployment scripts, the command line's options.
- **Code that only tests use**: the transition tables of `domain/state.go` and the
  version store of `postgres/storage.go`.

`PROJECT.json` lists every component with its status and the reason.

## 7. Plan

Modelled, in this order: the queue with its contract, the agents and the long poll,
imports, the C++ programs that write files, snapshots, accounts and the audit log, the
page of a defense, and the pure algorithms. What is left of the system is listed in
section 6; of that, the steps inside Put, with reconciliation as a process beside
imports, would tell the most.

Every safety invariant of the state machines is proved. The next step for the proofs is
an abstract specification of what an import promises, a store in which versions appear
whole and in order, that `Imports` implements.
