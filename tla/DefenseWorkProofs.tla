-------------------------- MODULE DefenseWorkProofs --------------------------
(***************************************************************************)
(* DefenseQueue, for every instance: no work is lost and none is left      *)
(* over.  A step inserts a job, or ends some jobs (JobsEnd) together with  *)
(* what waited for them.                                                   *)
(*                                                                         *)
(* On it rests the rest of this module: every call of the repository is a  *)
(* step of DefenseContract or none, discovery happens once, and a pass was *)
(* in time.  A result that is accepted finds the defense or the attempt it *)
(* is for still waiting.                                                   *)
(***************************************************************************)
EXTENDS DefenseQueueProofs

(* A live job is for something that waits for it.                          *)
JobOK(j) ==
    LET row == runner_jobs[j] IN
    Live(j) =>
        /\ row.defense \in DefenseId
        /\ row.kind = "prepare_defense" =>
              row.attempt = None /\ defenses[row.defense].status = "preparing"
        /\ row.kind = "check_attempt" =>
              /\ row.attempt \in AttemptId
              /\ check_attempts[row.attempt].outcome = "pending"
              /\ check_attempts[row.attempt].defense = row.defense
              /\ defenses[row.defense].status \in {"active", "expired"}

PreparedBy(d, j) ==
    Live(j) /\ runner_jobs[j].kind = "prepare_defense" /\ runner_jobs[j].defense = d

CheckedBy(a, j) == Live(j) /\ runner_jobs[j].attempt = a

(* What waits has a live job.                                              *)
Served ==
    /\ \A d \in DefenseId :
          defenses[d].status = "preparing" => \E j \in JobId : PreparedBy(d, j)
    /\ \A a \in AttemptId :
          check_attempts[a].outcome = "pending" => \E j \in JobId : CheckedBy(a, j)

OneJob ==
    \A i, j \in JobId :
        Live(i) /\ Live(j) /\ runner_jobs[i].defense = runner_jobs[j].defense => i = j

WorkInv == Served /\ OneJob /\ \A j \in JobId : JobOK(j)

(* It says what the two properties say. *)
LEMMA WorkMeaning == TypeOK /\ WorkInv => WorkConserved /\ ChecksBelongToPlay
<1> SUFFICES ASSUME TypeOK, WorkInv PROVE WorkConserved /\ ChecksBelongToPlay
  OBVIOUS
<1>1. ChecksBelongToPlay
  BY DEF WorkInv, JobOK, ChecksBelongToPlay
<1>2. ASSUME NEW d \in DefenseId
      PROVE  defenses[d].status = "preparing" <=> \E j \in JobId : PreparedBy(d, j)
  BY DEF WorkInv, Served, JobOK, PreparedBy
<1>3. ASSUME NEW a \in AttemptId, NEW j \in JobId, CheckedBy(a, j)
      PROVE  check_attempts[a].outcome = "pending"
  <2>1. runner_jobs[j].kind \in {"prepare_defense", "check_attempt"} /\ a # None
    BY NoneAssumption DEF TypeOK, JobRow
  <2> QED
    BY <1>3, <2>1 DEF WorkInv, JobOK, CheckedBy
<1> QED
  BY <1>1, <1>2, <1>3 DEF WorkConserved, WorkInv, Served, OneJob, PreparedBy, CheckedBy

-----------------------------------------------------------------------------
(* What a step does to the queue                                           *)

(* The live jobs of J come to an end, and the others go on. *)
JobsEnd(J) == \A j \in JobId : SameWork(j) /\ (Live(j)' <=> Live(j) /\ j \notin J)

(* When jobs end, so does what waited for them. *)
LEMMA EndKeeps ==
    ASSUME TypeOK, WorkInv, NEW J, JobsEnd(J),
           \A d \in DefenseId :
              \/ /\ defenses'[d].status = defenses[d].status
                 /\ \A j \in J : ~PreparedBy(d, j)
              \/ defenses[d].status = "active" /\ defenses'[d].status = "expired"
              \/ /\ defenses'[d].status # "preparing"
                 /\ \A j \in JobId \ J : Live(j) => runner_jobs[j].defense # d,
           \A a \in AttemptId :
              /\ check_attempts'[a].defense = check_attempts[a].defense
              /\ \/ /\ check_attempts'[a].outcome = check_attempts[a].outcome
                    /\ \A j \in J : ~CheckedBy(a, j)
                 \/ /\ check_attempts'[a].outcome # "pending"
                    /\ \A j \in JobId \ J : ~CheckedBy(a, j)
    PROVE  WorkInv'
<1>1. ASSUME NEW j \in JobId, Live(j)'
      PROVE  /\ Live(j) /\ j \notin J
             /\ runner_jobs'[j].kind = runner_jobs[j].kind
             /\ runner_jobs'[j].defense = runner_jobs[j].defense
             /\ runner_jobs'[j].attempt = runner_jobs[j].attempt
  BY <1>1 DEF JobsEnd, SameWork
<1>2. OneJob'
  BY <1>1 DEF WorkInv, OneJob, Live
<1>3. ASSUME NEW j \in JobId PROVE JobOK(j)'
  <2> SUFFICES ASSUME Live(j)' PROVE JobOK(j)'
    BY DEF JobOK
  <2> DEFINE d == runner_jobs[j].defense
             a == runner_jobs[j].attempt
  <2>1. /\ Live(j) /\ j \notin J /\ d \in DefenseId
        /\ runner_jobs'[j].defense = d /\ runner_jobs'[j].attempt = a
        /\ runner_jobs'[j].kind = runner_jobs[j].kind
    BY <1>1 DEF WorkInv, JobOK
  <2>2. \/ defenses'[d].status = defenses[d].status
        \/ defenses[d].status = "active" /\ defenses'[d].status = "expired"
    BY <2>1, Zenon
  <2>3. CASE runner_jobs[j].kind = "prepare_defense"
    BY <2>1, <2>2, <2>3, Zenon DEF WorkInv, JobOK
  <2>4. CASE runner_jobs[j].kind = "check_attempt"
    <3>1. /\ a \in AttemptId /\ check_attempts[a].outcome = "pending"
          /\ check_attempts[a].defense = d
          /\ defenses[d].status \in {"active", "expired"}
      BY <2>1, <2>4 DEF WorkInv, JobOK
    <3>2. CheckedBy(a, j)
      BY <2>1 DEF CheckedBy
    <3>3. check_attempts'[a].outcome = "pending" /\ check_attempts'[a].defense = d
      BY <2>1, <3>1, <3>2
    <3> QED
      BY <2>1, <2>2, <2>4, <3>1, <3>3, Zenon DEF JobOK
  <2> QED
    BY <2>1, <2>3, <2>4 DEF TypeOK, JobRow
<1>4. ASSUME NEW d \in DefenseId, defenses'[d].status = "preparing"
      PROVE  \E j \in JobId : PreparedBy(d, j)'
  <2>1. defenses[d].status = "preparing" /\ \A j \in J : ~PreparedBy(d, j)
    BY <1>4
  <2>2. PICK j \in JobId : PreparedBy(d, j)
    BY <2>1 DEF WorkInv, Served
  <2> QED
    BY <2>1, <2>2 DEF PreparedBy, JobsEnd, SameWork
<1>5. ASSUME NEW a \in AttemptId, check_attempts'[a].outcome = "pending"
      PROVE  \E j \in JobId : CheckedBy(a, j)'
  <2>1. check_attempts[a].outcome = "pending" /\ \A j \in J : ~CheckedBy(a, j)
    BY <1>5
  <2>2. PICK j \in JobId : CheckedBy(a, j)
    BY <2>1 DEF WorkInv, Served
  <2> QED
    BY <2>1, <2>2 DEF CheckedBy, JobsEnd, SameWork
<1> QED
  BY <1>2, <1>3, <1>4, <1>5 DEF WorkInv, Served

(* The queue after an insertion. *)
LEMMA Inserted ==
    ASSUME TypeOK, NEW kind \in {"prepare_defense", "check_attempt"},
           NEW d \in DefenseId, NEW a \in AttemptId \cup {None},
           InsertJob(kind, d, a)
    PROVE  \E n \in JobId :
              /\ ~ Live(n) /\ Live(n)'
              /\ runner_jobs'[n].kind = kind /\ runner_jobs'[n].defense = d
              /\ runner_jobs'[n].attempt = a
              /\ \A j \in JobId \ {n} : runner_jobs'[j] = runner_jobs[j]
<1>1. PICK n \in JobId :
          /\ runner_jobs[n].state = "none"
          /\ runner_jobs' = [runner_jobs EXCEPT ![n] = QueuedJob(kind, d, a)]
  BY Zenon DEF InsertJob, NextJob
<1>2. /\ runner_jobs'[n] = QueuedJob(kind, d, a)
      /\ \A j \in JobId \ {n} : runner_jobs'[j] = runner_jobs[j]
  BY <1>1 DEF TypeOK
<1>3. /\ runner_jobs'[n].state = "queued" /\ runner_jobs'[n].kind = kind
      /\ runner_jobs'[n].defense = d /\ runner_jobs'[n].attempt = a
  BY <1>2, QueuedJobRow
<1> QED
  BY <1>1, <1>2, <1>3 DEF Live, LiveState

(* A preparation is queued for a defense that had no live job. *)
LEMMA PrepareKeeps ==
    ASSUME TypeOK, WorkInv, NEW d \in DefenseId,
           InsertJob("prepare_defense", d, None), UNCHANGED check_attempts,
           defenses[d].status \in {"none", "ready"},
           defenses'[d].status = "preparing",
           \A e \in DefenseId \ {d} : defenses'[e].status = defenses[e].status
    PROVE  WorkInv'
<1>1. PICK n \in JobId :
          /\ ~ Live(n) /\ Live(n)'
          /\ runner_jobs'[n].kind = "prepare_defense"
          /\ runner_jobs'[n].defense = d /\ runner_jobs'[n].attempt = None
          /\ \A j \in JobId \ {n} : runner_jobs'[j] = runner_jobs[j]
  BY Inserted
<1>2. ASSUME NEW j \in JobId, Live(j) PROVE runner_jobs[j].defense # d
  BY <1>2, Zenon DEF WorkInv, JobOK, TypeOK, JobRow
<1>3. ASSUME NEW j \in JobId, j # n
      PROVE  runner_jobs'[j] = runner_jobs[j] /\ (Live(j)' <=> Live(j))
  BY <1>1, <1>3 DEF Live
<1>4. OneJob'
  BY <1>1, <1>2, <1>3 DEF WorkInv, OneJob
<1>5. ASSUME NEW j \in JobId PROVE JobOK(j)'
  <2>1. CASE j = n
    BY <1>1, <2>1 DEF JobOK
  <2>2. CASE j # n
    BY <1>2, <1>3, <2>2 DEF WorkInv, JobOK
  <2> QED
    BY <2>1, <2>2
<1>6. ASSUME NEW e \in DefenseId, defenses'[e].status = "preparing"
      PROVE  \E j \in JobId : PreparedBy(e, j)'
  <2>1. CASE e = d
    BY <1>1, <2>1 DEF PreparedBy
  <2>2. CASE e # d
    <3>1. PICK j \in JobId : PreparedBy(e, j)
      BY <1>6, <2>2 DEF WorkInv, Served
    <3> QED
      BY <1>1, <1>3, <3>1 DEF PreparedBy
  <2> QED
    BY <2>1, <2>2
<1>7. ASSUME NEW a \in AttemptId, check_attempts'[a].outcome = "pending"
      PROVE  \E j \in JobId : CheckedBy(a, j)'
  <2>1. PICK j \in JobId : CheckedBy(a, j)
    BY <1>7 DEF WorkInv, Served
  <2> QED
    BY <1>1, <1>3, <2>1 DEF CheckedBy
<1> QED
  BY <1>4, <1>5, <1>6, <1>7 DEF WorkInv, Served

(* A check is queued for a defense that had no pending attempt. *)
LEMMA AttemptKeeps ==
    ASSUME TypeOK, WorkInv, NEW d \in DefenseId, NEW k \in Key, Attempt(d, k)
    PROVE  WorkInv'
<1>1. PICK a \in AttemptId :
          /\ check_attempts[a].outcome = "none"
          /\ check_attempts' =
                 [check_attempts EXCEPT ![a] = PendingAttempt(d, k)]
          /\ InsertJob("check_attempt", d, a)
  BY Zenon DEF Attempt, NextAttempt
<1>2. /\ check_attempts'[a].outcome = "pending"
      /\ check_attempts'[a].defense = d
      /\ \A b \in AttemptId \ {a} : check_attempts'[b] = check_attempts[b]
  BY <1>1, PendingAttemptRow DEF TypeOK
<1>3. PICK n \in JobId :
          /\ ~ Live(n) /\ Live(n)'
          /\ runner_jobs'[n].kind = "check_attempt"
          /\ runner_jobs'[n].defense = d /\ runner_jobs'[n].attempt = a
          /\ \A j \in JobId \ {n} : runner_jobs'[j] = runner_jobs[j]
  BY <1>1, Inserted
<1>4. /\ defenses[d].status = "active" /\ defenses' = defenses
      /\ \A b \in AttemptId : ~ (/\ check_attempts[b].defense = d
                                 /\ check_attempts[b].outcome = "pending")
  BY Zenon DEF Attempt, Accepting, PendingOf, AttemptsOf
<1>5. ASSUME NEW j \in JobId, Live(j)
      PROVE  runner_jobs[j].defense # d /\ runner_jobs[j].attempt # a
  <2>1. runner_jobs[j].kind \in {"prepare_defense", "check_attempt"}
    BY DEF TypeOK, JobRow
  <2> QED
    BY <1>1, <1>4, <1>5, <2>1, NoneAssumption DEF WorkInv, JobOK
<1>6. ASSUME NEW j \in JobId, j # n
      PROVE  runner_jobs'[j] = runner_jobs[j] /\ (Live(j)' <=> Live(j))
  BY <1>3, <1>6, Zenon DEF Live
<1>7. OneJob'
  BY <1>3, <1>5, <1>6 DEF WorkInv, OneJob
<1>8. ASSUME NEW j \in JobId PROVE JobOK(j)'
  <2>1. CASE j = n
    BY <1>2, <1>3, <1>4, <2>1, Zenon DEF JobOK
  <2>2. CASE j # n
    BY <1>2, <1>4, <1>5, <1>6, <2>2 DEF WorkInv, JobOK
  <2> QED
    BY <2>1, <2>2, Zenon
<1>9. ASSUME NEW e \in DefenseId, defenses'[e].status = "preparing"
      PROVE  \E j \in JobId : PreparedBy(e, j)'
  <2>1. PICK j \in JobId : PreparedBy(e, j)
    BY <1>4, <1>9 DEF WorkInv, Served
  <2> QED
    BY <1>3, <1>6, <2>1 DEF PreparedBy
<1>10. ASSUME NEW b \in AttemptId, check_attempts'[b].outcome = "pending"
       PROVE  \E j \in JobId : CheckedBy(b, j)'
  <2>1. CASE b = a
    BY <1>3, <2>1 DEF CheckedBy
  <2>2. CASE b # a
    <3>1. PICK j \in JobId : CheckedBy(b, j)
      BY <1>2, <1>10, <2>2 DEF WorkInv, Served
    <3> QED
      BY <1>3, <1>6, <3>1 DEF CheckedBy
  <2> QED
    BY <2>1, <2>2
<1> QED
  BY <1>7, <1>8, <1>9, <1>10 DEF WorkInv, Served

(* Reading a defense touches no job. *)
LEMMA GetKeeps ==
    ASSUME TypeOK, WorkInv, NEW d \in DefenseId, Get(d)
    PROVE  WorkInv'
<1>1. JobsEnd({})
  BY DEF Get, JobsEnd, SameWork, Live
<1>2. \A e \in DefenseId :
          \/ defenses'[e].status = defenses[e].status
          \/ defenses[e].status = "active" /\ defenses'[e].status = "expired"
  BY ExpiredRow DEF Get, TypeOK
<1>3. check_attempts' = check_attempts
  BY DEF Get
<1> QED
  BY <1>1, <1>2, <1>3, EndKeeps

(* Cancelling ends all jobs of the defense. *)
LEMMA CancelKeeps ==
    ASSUME TypeOK, WorkInv, NEW d \in DefenseId, Cancel(d)
    PROVE  WorkInv'
<1> DEFINE J == {j \in JobId : runner_jobs[j].defense = d}
<1>1. JobsEnd(J)
  <2> SUFFICES ASSUME NEW j \in JobId
               PROVE  SameWork(j) /\ (Live(j)' <=> Live(j) /\ j \notin J)
    BY DEF JobsEnd
  <2>1. CASE j \in J
    <3>1. runner_jobs'[j] = Revoked(runner_jobs[j])
      BY <2>1 DEF Cancel
    <3>2. runner_jobs[j] \in JobRow
      BY DEF TypeOK
    <3>3. /\ runner_jobs'[j].state \notin LiveState
          /\ SameWork(j)
      BY <3>1, <3>2, RevokedRow DEF SameWork, LiveState
    <3> QED
      BY <2>1, <3>3 DEF Live
  <2>2. CASE j \notin J
    BY <2>2 DEF Cancel, SameWork, Live
  <2> QED
    BY <2>1, <2>2
<1>2. ASSUME NEW e \in DefenseId
      PROVE  \/ /\ defenses'[e].status = defenses[e].status
                /\ \A j \in J : ~ PreparedBy(e, j)
             \/ /\ defenses'[e].status # "preparing"
                /\ \A j \in JobId \ J : Live(j) => runner_jobs[j].defense # e
  BY CancelledRow, Zenon DEF Cancel, TypeOK, PreparedBy
<1>3. ASSUME NEW a \in AttemptId
      PROVE  /\ check_attempts'[a].defense = check_attempts[a].defense
             /\ \/ /\ check_attempts'[a].outcome = check_attempts[a].outcome
                   /\ \A j \in J : ~ CheckedBy(a, j)
                \/ /\ check_attempts'[a].outcome # "pending"
                   /\ \A j \in JobId \ J : ~ CheckedBy(a, j)
  <2>1. \A j \in JobId : CheckedBy(a, j) =>
            runner_jobs[j].defense = check_attempts[a].defense
    BY NoneAssumption DEF CheckedBy, WorkInv, JobOK, TypeOK, JobRow
  <2>2. CASE check_attempts[a].defense = d
    <3>1. check_attempts'[a] = Aborted(check_attempts[a])
      BY <2>2 DEF Cancel, AttemptsOf
    <3> QED
      BY <2>1, <2>2, <3>1, AbortedRow DEF TypeOK
  <2>3. CASE check_attempts[a].defense # d
    BY <2>1, <2>3, Zenon DEF Cancel, AttemptsOf
  <2> QED
    BY <2>2, <2>3, Zenon
<1> HIDE DEF J
<1> QED
  BY <1>1, <1>2, <1>3, EndKeeps

(* What the jobs given up were for is what reaping fails. *)
LEMMA ReapOwnersRows ==
    ASSUME TypeOK, WorkInv, ReapOwners
    PROVE  /\ \A d \in DefenseId :
                 /\ defenses'[d].sub = defenses[d].sub
                 /\ \/ /\ defenses'[d] = defenses[d]
                       /\ \A j \in GivenUp : ~ PreparedBy(d, j)
                    \/ /\ defenses[d].status = "preparing"
                       /\ defenses'[d].status = "error"
                       /\ \E j \in GivenUp : PreparedBy(d, j)
           /\ \A a \in AttemptId :
                 /\ check_attempts'[a].defense = check_attempts[a].defense
                 /\ check_attempts'[a].early = check_attempts[a].early
                 /\ \/ /\ check_attempts'[a] = check_attempts[a]
                       /\ \A j \in GivenUp : ~ CheckedBy(a, j)
                    \/ /\ check_attempts[a].outcome = "pending"
                       /\ check_attempts'[a].outcome = "error"
                       /\ \E j \in GivenUp : CheckedBy(a, j)
<1>1. \A j \in GivenUp : j \in JobId /\ Live(j)
  BY DEF GivenUp, Overdue, Live, LiveState
<1>2. ASSUME NEW d \in DefenseId
      PROVE  /\ defenses'[d].sub = defenses[d].sub
             /\ \/ /\ defenses'[d] = defenses[d]
                   /\ \A j \in GivenUp : ~ PreparedBy(d, j)
                \/ /\ defenses[d].status = "preparing"
                   /\ defenses'[d].status = "error"
                   /\ \E j \in GivenUp : PreparedBy(d, j)
  <2>1. CASE \E j \in GivenUp : PreparedBy(d, j)
    <3>1. defenses'[d] = PrepareFailed(defenses[d])
      BY <2>1 DEF ReapOwners, PreparedBy
    <3>2. defenses[d].status = "preparing"
      BY <1>1, <2>1 DEF PreparedBy, WorkInv, JobOK
    <3> QED
      BY <2>1, <3>1, <3>2, PrepareFailedRow DEF TypeOK
  <2>2. CASE \A j \in GivenUp : ~ PreparedBy(d, j)
    BY <1>1, <2>2 DEF ReapOwners, PreparedBy
  <2> QED
    BY <2>1, <2>2
<1>3. ASSUME NEW a \in AttemptId
      PROVE  /\ check_attempts'[a].defense = check_attempts[a].defense
             /\ check_attempts'[a].early = check_attempts[a].early
             /\ \/ /\ check_attempts'[a] = check_attempts[a]
                   /\ \A j \in GivenUp : ~ CheckedBy(a, j)
                \/ /\ check_attempts[a].outcome = "pending"
                   /\ check_attempts'[a].outcome = "error"
                   /\ \E j \in GivenUp : CheckedBy(a, j)
  <2>1. CASE \E j \in GivenUp : CheckedBy(a, j)
    <3>1. check_attempts'[a] = Aborted(check_attempts[a])
      BY <2>1, Zenon DEF ReapOwners, CheckedBy
    <3>2. check_attempts[a].outcome = "pending"
      BY <1>1, <2>1, NoneAssumption
         DEF CheckedBy, WorkInv, JobOK, TypeOK, JobRow
    <3> QED
      BY <2>1, <3>1, <3>2, AbortedRow DEF TypeOK
  <2>2. CASE \A j \in GivenUp : ~ CheckedBy(a, j)
    BY <1>1, <2>2, Zenon DEF ReapOwners, CheckedBy
  <2> QED
    BY <2>1, <2>2
<1> QED
  BY <1>2, <1>3

(* A lease reaps: the jobs given up end, the requeued ones stay live. *)
LEMMA ReapKeeps ==
    ASSUME TypeOK, WorkInv, ReapOwners, JobsEnd(GivenUp)
    PROVE  WorkInv'
<1>1. \A j \in GivenUp : j \in JobId /\ Live(j)
  BY DEF GivenUp, Overdue, Live, LiveState
<1>2. ASSUME NEW d \in DefenseId, \E j \in GivenUp : PreparedBy(d, j)
      PROVE  \A j \in JobId \ GivenUp : Live(j) => runner_jobs[j].defense # d
  BY <1>1, <1>2 DEF PreparedBy, WorkInv, OneJob
<1>3. ASSUME NEW a \in AttemptId, \E j \in GivenUp : CheckedBy(a, j)
      PROVE  \A j \in JobId \ GivenUp : ~ CheckedBy(a, j)
  <2>1. \A j \in JobId : CheckedBy(a, j) =>
            runner_jobs[j].defense = check_attempts[a].defense
    BY NoneAssumption, SMTT(20) DEF CheckedBy, WorkInv, JobOK, TypeOK, JobRow
  <2> QED
    BY <1>1, <1>3, <2>1, Zenon DEF CheckedBy, WorkInv, OneJob
<1>4. \A d \in DefenseId :
          \/ /\ defenses'[d].status = defenses[d].status
             /\ \A j \in GivenUp : ~ PreparedBy(d, j)
          \/ /\ defenses'[d].status # "preparing"
             /\ \A j \in JobId \ GivenUp : Live(j) => runner_jobs[j].defense # d
  BY <1>2, ReapOwnersRows, Zenon
<1>5. \A a \in AttemptId :
          /\ check_attempts'[a].defense = check_attempts[a].defense
          /\ \/ /\ check_attempts'[a].outcome = check_attempts[a].outcome
                /\ \A j \in GivenUp : ~ CheckedBy(a, j)
             \/ /\ check_attempts'[a].outcome # "pending"
                /\ \A j \in JobId \ GivenUp : ~ CheckedBy(a, j)
  BY <1>3, ReapOwnersRows
<1> QED
  BY <1>4, <1>5, EndKeeps

(* Reaping one job. *)
LEMMA ReapedLive ==
    ASSUME TypeOK, NEW j \in JobId
    PROVE  LET row == JobsAfterReap[j] IN
           /\ row \in JobRow
           /\ row.kind = runner_jobs[j].kind
           /\ row.defense = runner_jobs[j].defense
           /\ row.attempt = runner_jobs[j].attempt
           /\ row.state \in LiveState <=> Live(j) /\ j \notin GivenUp
<1>1. CASE j \in Overdue
  <2>1. JobsAfterReap[j] = Reaped(runner_jobs[j]) /\ Live(j)
    BY <1>1 DEF JobsAfterReap, Overdue, Live, LiveState
  <2>2. runner_jobs[j] \in JobRow
    BY DEF TypeOK
  <2>3. Reaped(runner_jobs[j]).state \in {"dead", "queued"}
    BY <2>2, ReapedRow
  <2>4. j \in GivenUp <=> Reaped(runner_jobs[j]).state = "dead"
    BY <1>1 DEF GivenUp
  <2> QED
    BY <2>1, <2>2, <2>3, <2>4, ReapedRow DEF LiveState
<1>2. CASE j \notin Overdue
  BY <1>2 DEF JobsAfterReap, GivenUp, Live, TypeOK
<1> QED
  BY <1>1, <1>2

(* The two outcomes of a lease call. *)
LEMMA LeaseKeeps ==
    ASSUME TypeOK, WorkInv, NEW r \in Runner, Lease(r)
    PROVE  WorkInv' /\ ReapOwners
<1>1. ASSUME LeaseNothing PROVE WorkInv' /\ ReapOwners
  <2>1. ReapOwners /\ runner_jobs' = JobsAfterReap
    BY <1>1 DEF LeaseNothing
  <2>2. JobsEnd(GivenUp)
    BY <2>1, ReapedLive DEF JobsEnd, SameWork, Live
  <2> QED
    BY <2>1, <2>2, ReapKeeps
<1>2. ASSUME NEW i \in JobId, NEW skew \in Skew, LeaseJob(r, i, skew)
      PROVE  WorkInv' /\ ReapOwners
  <2> DEFINE row == JobsAfterReap[i]
             no == Len(job_leases[i]) + 1
             ttl == LeaseTTL + skew
  <2>1. /\ ReapOwners /\ row.state = "queued"
        /\ runner_jobs' = [JobsAfterReap EXCEPT ![i] = Leased(row, r, no, ttl)]
    BY <1>2 DEF LeaseJob
  <2>2. no \in Nat /\ ttl \in Int
    BY TTLAssumption, SkewAssumption DEF TypeOK
  <2>3. JobsAfterReap \in [JobId -> JobRow]
    BY ReapType
  <2>4. \A j \in JobId \ {i} : runner_jobs'[j] = JobsAfterReap[j]
    BY <2>1, <2>3
  <2>5. runner_jobs'[i] = Leased(row, r, no, ttl) /\ row \in JobRow
    BY <2>1, <2>3
  <2> HIDE DEF row, no, ttl
  <2>6. /\ runner_jobs'[i].state = "leased"
        /\ runner_jobs'[i].kind = row.kind
        /\ runner_jobs'[i].defense = row.defense
        /\ runner_jobs'[i].attempt = row.attempt
    BY <2>2, <2>5, LeasedRow
  <2> USE DEF row
  <2>7. ASSUME NEW j \in JobId
        PROVE  SameWork(j) /\ (Live(j)' <=> Live(j) /\ j \notin GivenUp)
    <3>1. CASE j = i
      BY <2>1, <2>6, <3>1, ReapedLive, SMTT(20) DEF SameWork, Live, LiveState
    <3>2. CASE j # i
      BY <2>4, <3>2, ReapedLive DEF SameWork, Live
    <3> QED
      BY <3>1, <3>2, Zenon
  <2>8. JobsEnd(GivenUp)
    BY <2>7 DEF JobsEnd
  <2> QED
    BY <2>1, <2>8, ReapKeeps
<1> QED
  BY <1>1, <1>2 DEF Lease

(* A result ends its own job only. *)
LEMMA FinishEnds ==
    ASSUME TypeOK, NEW j \in JobId, NEW t, Holds(j, t), FinishJob(j, t)
    PROVE  Live(j) /\ JobsEnd({j})
<1>1. ASSUME NEW i \in JobId
      PROVE  SameWork(i) /\ (Live(i)' <=> Live(i) /\ i \notin {j})
  <2>1. IF i = j THEN JobCompleted(i) ELSE JobKept(i)
    BY FinishJobStep
  <2>2. CASE i = j
    <3>1. SameWork(i) /\ runner_jobs'[i].state = "completed"
      BY <2>1, <2>2, Zenon DEF JobCompleted
    <3> QED
      BY <2>2, <3>1 DEF Live, LiveState
  <2>3. CASE i # j
    <3>1. JobKept(i)
      BY <2>1, <2>3, Zenon
    <3> QED
      BY <2>3, <3>1 DEF JobKept, SameWork, Live
  <2> QED
    BY <2>2, <2>3
<1> QED
  BY <1>1 DEF JobsEnd, Holds, Live, LiveState

(* The preparation of job j ends and leaves the row. *)
PrepareEnded(j) ==
    LET d == runner_jobs[j].defense IN
    /\ PreparedBy(d, j) /\ d \in DefenseId
    /\ defenses[d].status = "preparing"
    /\ defenses'[d].status \in {"ready", "active", "error"}
    /\ defenses'[d].sub = defenses[d].sub
    /\ \A e \in DefenseId \ {d} : defenses'[e] = defenses[e]
    /\ check_attempts' = check_attempts

(* The check of job j ends with an outcome. *)
CheckEnded(j, outcome) ==
    LET d == runner_jobs[j].defense
        a == runner_jobs[j].attempt IN
    /\ CheckedBy(a, j) /\ d \in DefenseId /\ a \in AttemptId
    /\ defenses[d].status \in {"active", "expired"}
    /\ check_attempts[a].outcome = "pending" /\ check_attempts[a].defense = d
    /\ check_attempts'[a].outcome = outcome
    /\ check_attempts'[a].defense = d
    /\ check_attempts'[a].early = check_attempts[a].early
    /\ \A b \in AttemptId \ {a} : check_attempts'[b] = check_attempts[b]
    /\ defenses'[d].status = IF outcome = "passed" /\ defenses[d].status = "active"
                             THEN "passed" ELSE defenses[d].status
    /\ defenses'[d].sub = defenses[d].sub
    /\ \A e \in DefenseId \ {d} : defenses'[e] = defenses[e]

(* The four results of a preparation, given the row they write. *)
LEMMA FinishPrepareEnds ==
    ASSUME TypeOK, WorkInv, NEW j \in JobId, NEW t, NEW mode, NEW row,
           FinishPrepare(j, t, mode, row),
           runner_jobs[j].defense \in DefenseId
             /\ defenses[runner_jobs[j].defense].status = "preparing"
           => /\ row.status \in {"ready", "active", "error"}
              /\ row.sub = defenses[runner_jobs[j].defense].sub
    PROVE  JobsEnd({j}) /\ PrepareEnded(j)
<1> DEFINE d == runner_jobs[j].defense
<1>1. /\ Holds(j, t) /\ FinishJob(j, t) /\ check_attempts' = check_attempts
      /\ runner_jobs[j].kind = "prepare_defense"
      /\ defenses' = [defenses EXCEPT ![d] = row]
  BY Zenon DEF FinishPrepare
<1>2. JobsEnd({j}) /\ Live(j)
  BY <1>1, FinishEnds, Zenon
<1>3. d \in DefenseId /\ defenses[d].status = "preparing" /\ PreparedBy(d, j)
  BY <1>1, <1>2, Zenon DEF WorkInv, JobOK, PreparedBy
<1>4. /\ defenses'[d] = row
      /\ \A e \in DefenseId \ {d} : defenses'[e] = defenses[e]
  BY <1>1, <1>3, Zenon DEF TypeOK
<1> QED
  BY <1>1, <1>2, <1>3, <1>4, Zenon DEF PrepareEnded

(* Every completion ends a preparation or a check. *)
LEMMA CompleteEnds ==
    ASSUME TypeOK, WorkInv, NEW j \in JobId, NEW t, Complete(j, t)
    PROVE  /\ JobsEnd({j})
           /\ PrepareEnded(j) \/ \E outcome \in Outcome : CheckEnded(j, outcome)
<1> DEFINE d == runner_jobs[j].defense
           a == runner_jobs[j].attempt
<1>0. d \in DefenseId => defenses[d] \in DefenseRow
  BY Zenon DEF TypeOK
<1>1. ASSUME NEW valid \in BOOLEAN, CompleteHide(j, t, valid)
      PROVE  JobsEnd({j}) /\ PrepareEnded(j)
  <2>1. FinishPrepare(j, t, "hide_seek", HideChecked(defenses[d], valid))
    BY <1>1, Zenon DEF CompleteHide
  <2>2. d \in DefenseId /\ defenses[d].status = "preparing"
        => /\ HideChecked(defenses[d], valid).status \in {"ready", "active"}
           /\ HideChecked(defenses[d], valid).sub = defenses[d].sub
    <3> SUFFICES ASSUME defenses[d] \in DefenseRow,
                        defenses[d].status = "preparing"
                 PROVE  /\ HideChecked(defenses[d], valid).status \in
                             {"ready", "active"}
                        /\ HideChecked(defenses[d], valid).sub = defenses[d].sub
      BY <1>0
    <3>1. CASE valid
      BY <3>1, StartedRow DEF HideChecked
    <3>2. CASE ~ valid
      BY <3>2, Zenon DEF HideChecked, DefenseRow
    <3> QED
      BY <3>1, <3>2, Zenon
  <2> QED
    BY <2>1, <2>2, FinishPrepareEnds, Zenon
<1>2. ASSUME CompletePrepareError(j, t) PROVE JobsEnd({j}) /\ PrepareEnded(j)
  BY <1>0, <1>2, PrepareFailedRow, FinishPrepareEnds, Zenon DEF CompletePrepareError
<1>3. ASSUME CompleteDiscovery(j, t) PROVE JobsEnd({j}) /\ PrepareEnded(j)
  <2>1. FinishPrepare(j, t, "restore", Discovered(defenses[d]))
    BY <1>3, Zenon DEF CompleteDiscovery
  <2> QED
    BY <1>0, <2>1, DiscoveredRow, FinishPrepareEnds, Zenon
<1>4. ASSUME CompleteMask(j, t) PROVE JobsEnd({j}) /\ PrepareEnded(j)
  <2>1. FinishPrepare(j, t, "restore", Masked(defenses[d]))
    BY <1>4, ZenonT(30) DEF CompleteMask
  <2> QED
    BY <1>0, <2>1, MaskedRow, FinishPrepareEnds, Zenon
<1>5. ASSUME NEW outcome \in Outcome, CompleteCheck(j, t, outcome)
      PROVE  JobsEnd({j}) /\ CheckEnded(j, outcome)
  <2>1. /\ Holds(j, t) /\ FinishJob(j, t)
        /\ runner_jobs[j].kind = "check_attempt"
        /\ check_attempts' =
               [check_attempts EXCEPT ![a] = Judged(check_attempts[a], outcome)]
        /\ defenses' = [defenses EXCEPT ![d] = Passed(defenses[d], outcome)]
    BY <1>5, Zenon DEF CompleteCheck
  <2>2. JobsEnd({j}) /\ Live(j)
    BY <2>1, FinishEnds, Zenon
  <2>3. /\ CheckedBy(a, j) /\ d \in DefenseId /\ a \in AttemptId
        /\ defenses[d].status \in {"active", "expired"}
        /\ check_attempts[a].outcome = "pending"
        /\ check_attempts[a].defense = d
    BY <2>1, <2>2, SMTT(20) DEF WorkInv, JobOK, CheckedBy
  <2>4. /\ check_attempts'[a] = Judged(check_attempts[a], outcome)
        /\ check_attempts[a] \in AttemptRow
        /\ \A b \in AttemptId \ {a} : check_attempts'[b] = check_attempts[b]
    BY <2>1, <2>3 DEF TypeOK
  <2>5. /\ defenses'[d] = Passed(defenses[d], outcome)
        /\ \A e \in DefenseId \ {d} : defenses'[e] = defenses[e]
    BY <2>1, <2>3, Zenon DEF TypeOK
  <2>6. /\ check_attempts'[a].outcome = outcome
        /\ check_attempts'[a].defense = check_attempts[a].defense
        /\ check_attempts'[a].early = check_attempts[a].early
    BY <2>3, <2>4, JudgedRow, SMTT(20)
  <2>7. /\ defenses'[d].status =
              IF outcome = "passed" /\ defenses[d].status = "active"
              THEN "passed" ELSE defenses[d].status
        /\ defenses'[d].sub = defenses[d].sub
    BY <1>0, <2>3, <2>5, PassedRow
  <2> QED
    BY <2>2, <2>3, <2>4, <2>5, <2>6, <2>7 DEF CheckEnded
<1> QED
  BY <1>1, <1>2, <1>3, <1>4, <1>5, Zenon DEF Complete

(* The end of a preparation or of a check leaves nothing behind. *)
LEMMA CompleteKeeps ==
    ASSUME TypeOK, WorkInv, NEW j \in JobId, NEW t, Complete(j, t)
    PROVE  WorkInv'
<1> DEFINE d == runner_jobs[j].defense
           a == runner_jobs[j].attempt
<1>1. JobsEnd({j})
  BY CompleteEnds, Zenon
<1>2. ASSUME Live(j)
      PROVE  /\ \A i \in JobId \ {j} : Live(i) => runner_jobs[i].defense # d
             /\ \A b \in AttemptId : \A i \in JobId \ {j} :
                   CheckedBy(b, i) => check_attempts[b].defense # d
  BY <1>2, NoneAssumption, ZenonT(30)
     DEF CheckedBy, WorkInv, OneJob, JobOK, TypeOK, JobRow
<1>3. CASE PrepareEnded(j)
  <2>1. /\ Live(j) /\ a = None /\ d \in DefenseId
        /\ defenses'[d].status # "preparing"
        /\ \A e \in DefenseId \ {d} : defenses'[e] = defenses[e]
        /\ check_attempts' = check_attempts
    BY <1>3 DEF PrepareEnded, PreparedBy, WorkInv, JobOK
  <2>2. \A e \in DefenseId :
            \/ /\ defenses'[e].status = defenses[e].status
               /\ \A i \in {j} : ~ PreparedBy(e, i)
            \/ /\ defenses'[e].status # "preparing"
               /\ \A i \in JobId \ {j} : Live(i) => runner_jobs[i].defense # e
    BY <1>2, <2>1, Zenon DEF PreparedBy
  <2>3. \A b \in AttemptId : \A i \in {j} : ~ CheckedBy(b, i)
    BY <2>1, NoneAssumption DEF CheckedBy
  <2> QED
    BY <1>1, <2>1, <2>2, <2>3, EndKeeps
<1>4. ASSUME NEW outcome \in Outcome, CheckEnded(j, outcome)
      PROVE  WorkInv'
  <2>1. /\ Live(j) /\ d \in DefenseId /\ a \in AttemptId /\ outcome # "pending"
        /\ defenses'[d].status # "preparing"
        /\ check_attempts'[a].outcome = outcome
        /\ check_attempts'[a].defense = d /\ check_attempts[a].defense = d
        /\ \A e \in DefenseId \ {d} : defenses'[e] = defenses[e]
        /\ \A b \in AttemptId \ {a} : check_attempts'[b] = check_attempts[b]
    BY <1>4, Zenon DEF CheckEnded, CheckedBy, Outcome
  <2>2. \A e \in DefenseId :
            \/ /\ defenses'[e].status = defenses[e].status
               /\ \A i \in {j} : ~ PreparedBy(e, i)
            \/ /\ defenses'[e].status # "preparing"
               /\ \A i \in JobId \ {j} : Live(i) => runner_jobs[i].defense # e
    BY <1>2, <2>1, Zenon DEF PreparedBy
  <2>3. \A b \in AttemptId :
            /\ check_attempts'[b].defense = check_attempts[b].defense
            /\ \/ /\ check_attempts'[b].outcome = check_attempts[b].outcome
                  /\ \A i \in {j} : ~ CheckedBy(b, i)
               \/ /\ check_attempts'[b].outcome # "pending"
                  /\ \A i \in JobId \ {j} : ~ CheckedBy(b, i)
    BY <1>2, <2>1, Zenon DEF CheckedBy
  <2> QED
    BY <1>1, <2>2, <2>3, EndKeeps, Zenon
<1> QED
  BY <1>3, <1>4, CompleteEnds, Zenon

(* A heartbeat and the clock move expiries and timers only. *)
LEMMA TimeKeeps ==
    ASSUME TypeOK, WorkInv,
           Tick \/ \E j \in JobId : \E t \in Tokens(j) : Heartbeat(j, t)
    PROVE  /\ WorkInv' /\ check_attempts' = check_attempts
           /\ \A d \in DefenseId :
                 /\ defenses'[d].status = defenses[d].status
                 /\ defenses'[d].sub = defenses[d].sub
                 /\ defenses'[d].mode = defenses[d].mode
                 /\ defenses'[d].catalog = defenses[d].catalog
                 /\ defenses'[d].selected = defenses[d].selected
<1>1. check_attempts' = check_attempts
  BY Zenon DEF Tick, Pass, Heartbeat
<1>2. ASSUME NEW d \in DefenseId
      PROVE  /\ defenses'[d].status = defenses[d].status
             /\ defenses'[d].sub = defenses[d].sub
             /\ defenses'[d].mode = defenses[d].mode
             /\ defenses'[d].catalog = defenses[d].catalog
             /\ defenses'[d].selected = defenses[d].selected
  <2>1. CASE Tick
    <3>1. defenses'[d] = IF Counting(defenses[d]) THEN Sooner(defenses[d])
                                                  ELSE defenses[d]
      BY <2>1 DEF Tick, Pass
    <3>2. defenses[d] \in DefenseRow
      BY DEF TypeOK
    <3>3. CASE Counting(defenses[d])
      <4>1. defenses'[d] = Sooner(defenses[d])
        BY <3>1, <3>3
      <4> QED
        BY <3>2, <3>3, <4>1, SoonerRow
    <3> QED
      BY <3>1, <3>3
  <2>2. CASE ~ Tick
    BY <2>2, Zenon DEF Heartbeat
  <2> QED
    BY <2>1, <2>2
<1>3. ASSUME NEW j \in JobId PROVE SameWork(j) /\ (Live(j)' <=> Live(j))
  <2>1. runner_jobs'[j] \in {runner_jobs[j], Older(runner_jobs[j]),
                             Extended(runner_jobs[j])}
    BY Zenon DEF Tick, Pass, Heartbeat, TypeOK
  <2>2. runner_jobs[j] \in JobRow
    BY DEF TypeOK
  <2> QED
    BY <2>1, <2>2, OlderRow, ExtendedRow DEF SameWork, Live
<1>4. JobsEnd({})
  BY <1>3 DEF JobsEnd
<1>5. WorkInv'
  BY <1>1, <1>2, <1>4, EndKeeps, Zenon
<1> QED
  BY <1>1, <1>2, <1>5

-----------------------------------------------------------------------------
(* Work                                                                    *)

(* Create inserts a preparation or reads a row. *)
LEMMA CreateEffect ==
    ASSUME TypeOK, NEW s \in Submission, NEW k \in Key, CreateNew(s, k)
    PROVE  \E d \in DefenseId :
              /\ defenses[d].status = "none"
              /\ defenses'[d].status = "preparing" /\ defenses'[d].sub = s
              /\ ~ defenses'[d].catalog
              /\ \A e \in DefenseId \ {d} : defenses'[e] = defenses[e]
              /\ InsertJob("prepare_defense", d, None)
              /\ check_attempts' = check_attempts
<1>1. PICK d \in DefenseId :
          /\ defenses[d].status = "none"
          /\ defenses' = [defenses EXCEPT ![d] = NewDefense(s, k)]
          /\ InsertJob("prepare_defense", d, None)
  BY Zenon DEF CreateNew, NextDefense
<1>2. /\ defenses'[d] = NewDefense(s, k)
      /\ \A e \in DefenseId \ {d} : defenses'[e] = defenses[e]
  BY <1>1 DEF TypeOK
<1>3. /\ defenses'[d].status = "preparing" /\ defenses'[d].sub = s
      /\ ~ defenses'[d].catalog
  BY <1>2, Zenon DEF NewDefense, NoDefense
<1> QED
  BY <1>1, <1>2, <1>3 DEF CreateNew

(* Both configurations send the defense back to preparation. *)
LEMMA ConfigureEffect ==
    ASSUME TypeOK, NEW d \in DefenseId, NEW l \in Limit,
           Configure(d, l) \/ ConfigureHide(d, l)
    PROVE  /\ defenses[d].status = "ready"
           /\ defenses'[d].status = "preparing"
           /\ defenses'[d].sub = defenses[d].sub
           /\ defenses'[d].mode = "restore" => defenses'[d].selected = TRUE
           /\ \A e \in DefenseId \ {d} : defenses'[e] = defenses[e]
           /\ InsertJob("prepare_defense", d, None)
           /\ check_attempts' = check_attempts
<1>1. CASE Configure(d, l)
  BY <1>1, RestoreRow, Zenon DEF Configure, TypeOK
<1>2. CASE ConfigureHide(d, l)
  BY <1>2, HideRow, Zenon DEF ConfigureHide, TypeOK
<1> QED
  BY <1>1, <1>2, Zenon

(* Without rows there is no work. *)
LEMMA WorkInit == Init => WorkInv
<1> SUFFICES ASSUME Init PROVE WorkInv
  OBVIOUS
<1>1. /\ \A j \in JobId : ~ Live(j)
      /\ \A d \in DefenseId : defenses[d].status = "none"
      /\ \A a \in AttemptId : check_attempts[a].outcome = "none"
  BY Zenon DEF Init, Live, LiveState, NoJob, NoDefense, NoAttempt
<1> QED
  BY <1>1 DEF WorkInv, Served, OneJob, JobOK

(* Every call of the repository conserves work. *)
LEMMA WorkStep == TypeOK /\ WorkInv /\ [Next]_vars => WorkInv'
<1> SUFFICES ASSUME TypeOK, WorkInv, [Next]_vars PROVE WorkInv'
  OBVIOUS
<1>1. ASSUME NEW s \in Submission, NEW k \in Key, Create(s, k) PROVE WorkInv'
  <2>1. CASE CreateExisting(s, k)
    BY <2>1, GetKeeps, Zenon DEF CreateExisting
  <2>2. CASE CreateNew(s, k)
    <3>1. PICK d \in DefenseId :
              /\ defenses[d].status = "none"
              /\ defenses'[d].status = "preparing"
              /\ \A e \in DefenseId \ {d} : defenses'[e] = defenses[e]
              /\ InsertJob("prepare_defense", d, None)
              /\ check_attempts' = check_attempts
      BY <2>2, CreateEffect
    <3> QED
      BY <3>1, PrepareKeeps, Zenon
  <2> QED
    BY <1>1, <2>1, <2>2 DEF Create
<1>2. ASSUME NEW d \in DefenseId, Get(d) PROVE WorkInv'
  BY <1>2, GetKeeps, Zenon
<1>3. ASSUME NEW d \in DefenseId, NEW l \in Limit,
             Configure(d, l) \/ ConfigureHide(d, l)
      PROVE  WorkInv'
  <2>1. /\ defenses[d].status = "ready"
        /\ defenses'[d].status = "preparing"
        /\ \A e \in DefenseId \ {d} : defenses'[e] = defenses[e]
        /\ InsertJob("prepare_defense", d, None)
        /\ check_attempts' = check_attempts
    BY <1>3, ConfigureEffect, Zenon
  <2> QED
    BY <2>1, PrepareKeeps, Zenon
<1>4. ASSUME NEW d \in DefenseId, NEW k \in Key, Attempt(d, k) PROVE WorkInv'
  BY <1>4, AttemptKeeps
<1>5. ASSUME NEW d \in DefenseId, Cancel(d) PROVE WorkInv'
  BY <1>5, CancelKeeps
<1>6. ASSUME NEW r \in Runner, Lease(r) PROVE WorkInv'
  BY <1>6, LeaseKeeps
<1>7. ASSUME NEW j \in JobId, NEW t \in Tokens(j), Complete(j, t) PROVE WorkInv'
  BY <1>7, CompleteKeeps
<1>8. ASSUME Tick \/ \E j \in JobId : \E t \in Tokens(j) : Heartbeat(j, t)
      PROVE  WorkInv'
  BY <1>8, TimeKeeps, SMTT(20)
<1>9. CASE UNCHANGED vars
  BY <1>9 DEF vars, WorkInv, Served, OneJob, JobOK, PreparedBy, CheckedBy, Live
<1> QED
  BY <1>1, <1>2, <1>3, <1>4, <1>5, <1>6, <1>7, <1>8, <1>9, SMTT(20) DEF Next

(* The work invariant holds always. *)
LEMMA WorkInvariant == Spec => [](TypeOK /\ WorkInv)
<1>1. Init => TypeOK /\ WorkInv
  BY TypeInit, WorkInit
<1>2. TypeOK /\ WorkInv /\ [Next]_vars => TypeOK' /\ WorkInv'
  BY TypeStep, WorkStep
<1> QED
  BY <1>1, <1>2, PTL DEF Spec

(* No work is lost or left over, for any number of defenses, attempts,     *)
(* jobs, runners and retries.                                              *)
THEOREM WorkConservedCorrect == Spec => []WorkConserved
<1>1. TypeOK /\ WorkInv => WorkConserved
  BY WorkMeaning
<1> QED
  BY <1>1, WorkInvariant, PTL

(* No check outlives the play of its defense. *)
THEOREM ChecksBelongCorrect == Spec => []ChecksBelongToPlay
<1>1. TypeOK /\ WorkInv => ChecksBelongToPlay
  BY WorkMeaning, Zenon
<1> QED
  BY <1>1, WorkInvariant, PTL


-----------------------------------------------------------------------------
(* The contract                                                            *)

(* What the contract sees of the tables. *)
Statuses == [d \in DefenseId |-> defenses[d].status]
Submissions == [d \in DefenseId |-> defenses[d].sub]
Verdicts == [a \in AttemptId |-> check_attempts[a].outcome]
Targets == [a \in AttemptId |-> check_attempts[a].defense]

ContractStep == [Contract!Next]_(Contract!vars)

(* Nothing the contract sees changes. *)
LEMMA Stutters ==
    ASSUME UNCHANGED <<Statuses, Submissions, Verdicts, Targets>>
    PROVE  ContractStep
BY Zenon DEF ContractStep, Contract!vars, Statuses, Submissions, Verdicts, Targets

(* The status of one defense moves. *)
LEMMA StatusMoves ==
    ASSUME NEW d \in DefenseId,
           \A e \in DefenseId : defenses'[e].sub = defenses[e].sub,
           \A e \in DefenseId \ {d} : defenses'[e].status = defenses[e].status
    PROVE  /\ Statuses' = [Statuses EXCEPT ![d] = defenses'[d].status]
           /\ Submissions' = Submissions
BY Zenon DEF Statuses, Submissions

(* A read that expires the defense. *)
LEMMA GetContract ==
    ASSUME TypeOK, NEW d \in DefenseId, Get(d)
    PROVE  ContractStep
<1>1. /\ \A e \in DefenseId : defenses'[e].sub = defenses[e].sub
      /\ \A e \in DefenseId \ {d} : defenses'[e].status = defenses[e].status
      /\ \/ defenses'[d].status = defenses[d].status
         \/ defenses[d].status = "active" /\ defenses'[d].status = "expired"
      /\ check_attempts' = check_attempts
  BY ExpiredRow DEF Get, TypeOK
<1>2. CASE defenses'[d].status = defenses[d].status
  BY <1>1, <1>2, Stutters DEF Statuses, Submissions, Verdicts, Targets
<1>3. CASE defenses[d].status = "active" /\ defenses'[d].status = "expired"
  <2>1. Contract!Expired(d)
    BY <1>1, <1>3, StatusMoves
       DEF Contract!Expired, Statuses, Submissions, Verdicts, Targets
  <2> QED
    BY <2>1, Zenon DEF ContractStep, Contract!Next
<1> QED
  BY <1>1, <1>2, <1>3

(* A new defense of a submission without an open one. *)
LEMMA CreateContract ==
    ASSUME TypeOK, NEW s \in Submission, NEW k \in Key, CreateNew(s, k)
    PROVE  ContractStep
<1>1. PICK d \in DefenseId :
          /\ defenses[d].status = "none"
          /\ defenses'[d].status = "preparing" /\ defenses'[d].sub = s
          /\ \A e \in DefenseId \ {d} : defenses'[e] = defenses[e]
          /\ check_attempts' = check_attempts
  BY CreateEffect
<1>2. \A e \in DefenseId : defenses[e].sub = s =>
          defenses[e].status \notin {"preparing", "ready", "active"}
  BY Zenon DEF CreateNew, OpenFor, OpenStatus
<1>3. Contract!Begin(d, s)
  BY <1>1, <1>2, Zenon DEF Contract!Begin, Contract!Open
<1> QED
  BY <1>3, Zenon DEF ContractStep, Contract!Next

(* A configuration. *)
LEMMA ConfigureContract ==
    ASSUME TypeOK, NEW d \in DefenseId, NEW l \in Limit,
           Configure(d, l) \/ ConfigureHide(d, l)
    PROVE  ContractStep
<1>1. /\ defenses[d].status = "ready"
      /\ defenses'[d].status = "preparing"
      /\ defenses'[d].sub = defenses[d].sub
      /\ \A e \in DefenseId \ {d} : defenses'[e] = defenses[e]
      /\ check_attempts' = check_attempts
  BY ConfigureEffect, Zenon
<1>2. Contract!Configured(d)
  BY <1>1, Zenon DEF Contract!Configured
<1> QED
  BY <1>2 DEF ContractStep, Contract!Next

(* An attempt on an active defense without a pending one. *)
LEMMA AttemptContract ==
    ASSUME TypeOK, NEW d \in DefenseId, NEW k \in Key, Attempt(d, k)
    PROVE  ContractStep
<1>1. PICK a \in AttemptId :
          /\ check_attempts[a].outcome = "none"
          /\ check_attempts' =
                 [check_attempts EXCEPT ![a] = PendingAttempt(d, k)]
  BY Zenon DEF Attempt, NextAttempt
<1>2. /\ check_attempts'[a].outcome = "pending"
      /\ check_attempts'[a].defense = d
      /\ \A b \in AttemptId \ {a} : check_attempts'[b] = check_attempts[b]
  BY <1>1, PendingAttemptRow DEF TypeOK
<1>3. /\ defenses[d].status = "active" /\ defenses' = defenses
      /\ \A b \in AttemptId : ~ (/\ check_attempts[b].defense = d
                                 /\ check_attempts[b].outcome = "pending")
  BY Zenon DEF Attempt, Accepting, PendingOf, AttemptsOf
<1>4. /\ Verdicts' = [Verdicts EXCEPT ![a] = "pending"]
      /\ Targets' = [Targets EXCEPT ![a] = d]
      /\ Statuses' = Statuses /\ Submissions' = Submissions
  BY <1>2, <1>3, Zenon DEF Verdicts, Targets, Statuses, Submissions
<1>5. /\ Statuses[d] = "active" /\ Verdicts[a] = "none"
      /\ {b \in AttemptId : Targets[b] = d /\ Verdicts[b] = "pending"} = {}
  BY <1>1, <1>3, Zenon DEF Verdicts, Targets, Statuses
<1>6. Contract!Submit(a, d)
  BY <1>4, <1>5, Zenon DEF Contract!Submit, Contract!Pending, Verdicts, Targets,
                    Statuses, Submissions
<1> QED
  BY <1>6 DEF ContractStep, Contract!Next

(* A cancellation decides the pending attempt. *)
LEMMA CancelContract ==
    ASSUME TypeOK, NEW d \in DefenseId, Cancel(d)
    PROVE  ContractStep
<1>1. /\ defenses[d].status \in {"preparing", "ready", "active"}
      /\ defenses'[d].status = "cancelled"
      /\ defenses'[d].sub = defenses[d].sub
      /\ \A e \in DefenseId \ {d} : defenses'[e] = defenses[e]
  BY CancelledRow, SMTT(20) DEF Cancel, OpenStatus, TypeOK
<1>2. ASSUME NEW a \in AttemptId
      PROVE  /\ check_attempts'[a].defense = check_attempts[a].defense
             /\ check_attempts'[a].outcome =
                  IF /\ check_attempts[a].defense = d
                     /\ check_attempts[a].outcome = "pending"
                  THEN "error" ELSE check_attempts[a].outcome
  <2>1. CASE check_attempts[a].defense = d
    <3>1. /\ check_attempts'[a] = Aborted(check_attempts[a])
          /\ check_attempts[a] \in AttemptRow
      BY <2>1, Zenon DEF Cancel, AttemptsOf, TypeOK
    <3> QED
      BY <2>1, <3>1, AbortedRow, Zenon
  <2>2. CASE check_attempts[a].defense # d
    BY <2>2, Zenon DEF Cancel, AttemptsOf
  <2> QED
    BY <2>1, <2>2
<1>3. Contract!Cancelled(d)
  BY <1>1, <1>2, Zenon DEF Contract!Cancelled, Contract!Open, Contract!Pending
<1> QED
  BY <1>3 DEF ContractStep, Contract!Next

(* Reaping gives up a set of preparations and a set of checks at once. *)
LEMMA ReapContract ==
    ASSUME TypeOK, WorkInv, ReapOwners
    PROVE  ContractStep
<1> DEFINE D == {d \in DefenseId : \E j \in GivenUp : PreparedBy(d, j)}
           A == {a \in AttemptId : \E j \in GivenUp : CheckedBy(a, j)}
<1>1. ASSUME NEW d \in DefenseId
      PROVE  /\ defenses'[d].sub = defenses[d].sub
             /\ d \in D => defenses[d].status = "preparing"
             /\ defenses'[d].status = IF d \in D THEN "error"
                                                 ELSE defenses[d].status
  BY ReapOwnersRows
<1>2. ASSUME NEW a \in AttemptId
      PROVE  /\ check_attempts'[a].defense = check_attempts[a].defense
             /\ a \in A => check_attempts[a].outcome = "pending"
             /\ check_attempts'[a].outcome = IF a \in A THEN "error"
                                             ELSE check_attempts[a].outcome
  BY ReapOwnersRows, Zenon
<1>3. PICK P \in SUBSET DefenseId : P = D
  BY Zenon
<1>4. PICK C \in SUBSET AttemptId : C = A
  BY Zenon
<1> HIDE DEF D, A
<1>5. Contract!GiveUp(P, C)
  BY <1>1, <1>2, <1>3, <1>4 DEF Contract!GiveUp
<1> QED
  BY <1>5, Zenon DEF ContractStep, Contract!Next

(* A completion ends a preparation, or gives the attempt its verdict. *)
LEMMA CompleteContract ==
    ASSUME TypeOK, WorkInv, NEW j \in JobId, NEW t, Complete(j, t)
    PROVE  ContractStep
<1> DEFINE d == runner_jobs[j].defense
           a == runner_jobs[j].attempt
<1>1. CASE PrepareEnded(j)
  <2>1. /\ d \in DefenseId /\ defenses[d].status = "preparing"
        /\ defenses'[d].status \in {"ready", "active", "error"}
        /\ defenses'[d].sub = defenses[d].sub
        /\ \A e \in DefenseId \ {d} : defenses'[e] = defenses[e]
        /\ check_attempts' = check_attempts
    BY <1>1 DEF PrepareEnded
  <2> HIDE DEF d
  <2>2. PICK to \in {"ready", "active", "error"} : defenses'[d].status = to
    BY <2>1
  <2>3. Contract!Prepared(d, to)
    BY <2>1, <2>2, Zenon DEF Contract!Prepared
  <2> QED
    BY <2>1, <2>3, Zenon DEF ContractStep, Contract!Next
<1>2. ASSUME NEW outcome \in Outcome, CheckEnded(j, outcome)
      PROVE  ContractStep
  <2>1. /\ d \in DefenseId /\ a \in AttemptId
        /\ check_attempts[a].outcome = "pending"
        /\ check_attempts[a].defense = d
        /\ check_attempts'[a].outcome = outcome
        /\ check_attempts'[a].defense = d
        /\ \A b \in AttemptId \ {a} : check_attempts'[b] = check_attempts[b]
        /\ defenses'[d].status =
              IF outcome = "passed" /\ defenses[d].status = "active"
              THEN "passed" ELSE defenses[d].status
        /\ defenses'[d].sub = defenses[d].sub
        /\ \A e \in DefenseId \ {d} : defenses'[e] = defenses[e]
    BY <1>2 DEF CheckEnded
  <2> HIDE DEF d, a
  <2>2. /\ Verdicts' = [Verdicts EXCEPT ![a] = outcome]
        /\ Targets' = Targets /\ Submissions' = Submissions
    BY <2>1, Zenon DEF Verdicts, Targets, Submissions
  <2>3. Statuses' = [Statuses EXCEPT ![Targets[a]] =
                        IF outcome = "passed" /\ @ = "active"
                        THEN "passed" ELSE @]
    BY <2>1, SMTT(20) DEF Statuses, Targets
  <2>4. Contract!Judge(a, outcome)
    BY <2>1, <2>2, <2>3, SMTT(20)
       DEF Contract!Judge, Verdicts, Targets, Statuses, Submissions
  <2> QED
    BY <2>1, <2>4, SMTT(20) DEF ContractStep, Contract!Next, Outcome
<1> QED
  BY <1>1, <1>2, CompleteEnds, Zenon

(* Every call of the repository is a step of the contract, or none. *)
LEMMA ContractSteps == TypeOK /\ WorkInv /\ [Next]_vars => ContractStep
<1> SUFFICES ASSUME TypeOK, WorkInv, [Next]_vars PROVE ContractStep
  OBVIOUS
<1>1. ASSUME NEW s \in Submission, NEW k \in Key, Create(s, k)
      PROVE  ContractStep
  BY <1>1, GetContract, CreateContract DEF Create, CreateExisting
<1>2. ASSUME NEW d \in DefenseId, Get(d) PROVE ContractStep
  BY <1>2, GetContract
<1>3. ASSUME NEW d \in DefenseId, NEW l \in Limit,
             Configure(d, l) \/ ConfigureHide(d, l)
      PROVE  ContractStep
  BY <1>3, ConfigureContract
<1>4. ASSUME NEW d \in DefenseId, NEW k \in Key, Attempt(d, k)
      PROVE  ContractStep
  BY <1>4, AttemptContract
<1>5. ASSUME NEW d \in DefenseId, Cancel(d) PROVE ContractStep
  BY <1>5, CancelContract
<1>6. ASSUME NEW r \in Runner, Lease(r) PROVE ContractStep
  BY <1>6, LeaseKeeps, ReapContract
<1>7. ASSUME NEW j \in JobId, NEW t \in Tokens(j), Complete(j, t)
      PROVE  ContractStep
  BY <1>7, CompleteContract, Zenon
<1>8. ASSUME Tick \/ \E j \in JobId : \E t \in Tokens(j) : Heartbeat(j, t)
      PROVE  ContractStep
  <2>1. /\ check_attempts' = check_attempts
        /\ \A d \in DefenseId : /\ defenses'[d].status = defenses[d].status
                                /\ defenses'[d].sub = defenses[d].sub
    BY <1>8, TimeKeeps
  <2> QED
    BY <2>1, Stutters, Zenon DEF Statuses, Submissions, Verdicts, Targets
<1>9. CASE UNCHANGED vars
  BY <1>9, Stutters DEF vars, Statuses, Submissions, Verdicts, Targets
<1> QED
  BY <1>1, <1>2, <1>3, <1>4, <1>5, <1>6, <1>7, <1>8, <1>9, SMTT(20) DEF Next

(* The queue implements the life cycle of defenses and attempts: leases,   *)
(* retries and lazily applied deadlines cannot be seen from outside.       *)
THEOREM ContractImplemented == Spec => ImplementsContract
<1>1. Init => Contract!Init
  BY DEF Init, Contract!Init, NoDefense, NoAttempt
<1>2. TypeOK /\ WorkInv /\ [Next]_vars => [Contract!Next]_(Contract!vars)
  BY ContractSteps DEF ContractStep
<1> QED
  BY <1>1, <1>2, WorkInvariant, PTL DEF Spec, ImplementsContract, Contract!Spec

-----------------------------------------------------------------------------
(* Discovery and the verdict                                               *)

(* A preparation that has nothing selected has no catalog; attempts are    *)
(* early, and a passed defense has one that passed.                        *)
PlayInv ==
    /\ \A d \in DefenseId :
          /\ /\ defenses[d].status = "preparing" /\ defenses[d].mode = "restore"
             /\ ~ defenses[d].selected
             => ~ defenses[d].catalog
          /\ defenses[d].status = "passed" =>
                \E a \in AttemptId : /\ check_attempts[a].defense = d
                                     /\ check_attempts[a].outcome = "passed"
    /\ \A a \in AttemptId :
          check_attempts[a].outcome # "none" => check_attempts[a].early

(* What a step does to a defense ... *)
RowStep(d) ==
    /\ defenses'[d].status = "preparing" =>
          \/ /\ defenses[d].status = "preparing"
             /\ defenses'[d].mode = defenses[d].mode
             /\ defenses[d].catalog = defenses'[d].catalog
             /\ defenses[d].selected = defenses'[d].selected
          \/ defenses'[d].mode = "restore" => defenses'[d].selected
          \/ ~ defenses'[d].catalog
    /\ defenses'[d].status = "passed" =>
          \/ defenses[d].status = "passed"
          \/ \E a \in AttemptId : /\ check_attempts'[a].defense = d
                                  /\ check_attempts'[a].outcome = "passed"

(* ... and to an attempt. *)
AttemptStep(a) ==
    /\ check_attempts'[a].outcome # "none" =>
          \/ check_attempts'[a].early
          \/ /\ check_attempts[a].outcome # "none"
             /\ check_attempts'[a].early = check_attempts[a].early
    /\ check_attempts[a].outcome = "passed" =>
          check_attempts'[a] = check_attempts[a]

PlaySteps == (\A d \in DefenseId : RowStep(d)) /\ (\A a \in AttemptId : AttemptStep(a))

(* Such steps keep the invariant. *)
LEMMA PlayKept == PlayInv /\ PlaySteps => PlayInv'
<1> SUFFICES ASSUME PlayInv, PlaySteps PROVE PlayInv'
  OBVIOUS
<1>1. ASSUME NEW a \in AttemptId, check_attempts'[a].outcome # "none"
      PROVE  check_attempts'[a].early
  BY <1>1, Zenon DEF PlayInv, PlaySteps, AttemptStep
<1>2. ASSUME NEW d \in DefenseId, defenses'[d].status = "preparing",
             defenses'[d].mode = "restore", ~ defenses'[d].selected
      PROVE  ~ defenses'[d].catalog
  BY <1>2, Zenon DEF PlayInv, PlaySteps, RowStep
<1>3. ASSUME NEW d \in DefenseId, defenses'[d].status = "passed"
      PROVE  \E a \in AttemptId : /\ check_attempts'[a].defense = d
                                  /\ check_attempts'[a].outcome = "passed"
  <2>1. CASE defenses[d].status = "passed"
    <3>1. PICK a \in AttemptId : /\ check_attempts[a].defense = d
                                 /\ check_attempts[a].outcome = "passed"
      BY <2>1, Zenon DEF PlayInv
    <3>2. check_attempts'[a] = check_attempts[a]
      BY <3>1, Zenon DEF PlaySteps, AttemptStep
    <3> QED
      BY <3>1, <3>2, Zenon
  <2>2. CASE defenses[d].status # "passed"
    BY <1>3, <2>2 DEF PlaySteps, RowStep
  <2> QED
    BY <2>1, <2>2
<1> QED
  BY <1>1, <1>2, <1>3, Zenon DEF PlayInv

(* Rows that stay as they are. *)
LEMMA RowKept ==
    /\ \A d \in DefenseId : defenses'[d] = defenses[d] => RowStep(d)
    /\ \A a \in AttemptId : check_attempts'[a] = check_attempts[a] => AttemptStep(a)
BY Zenon DEF RowStep, AttemptStep

(* Every call of the repository takes such a step. *)
LEMMA PlayStep == TypeOK /\ WorkInv /\ [Next]_vars => PlaySteps
<1> SUFFICES ASSUME TypeOK, WorkInv, [Next]_vars PROVE PlaySteps
  OBVIOUS
<1>1. ASSUME NEW d \in DefenseId, Get(d) PROVE PlaySteps
  <2>1. ASSUME NEW e \in DefenseId
        PROVE  defenses'[e] = defenses[e] \/ defenses'[e].status = "expired"
    BY <1>1, ExpiredRow DEF Get, TypeOK
  <2>2. check_attempts' = check_attempts
    BY <1>1 DEF Get
  <2> QED
    BY <2>1, <2>2, RowKept, Zenon DEF PlaySteps, RowStep
<1>2. ASSUME NEW s \in Submission, NEW k \in Key, Create(s, k) PROVE PlaySteps
  <2>1. CASE CreateExisting(s, k)
    BY <1>1, <2>1, Zenon DEF CreateExisting
  <2>2. CASE CreateNew(s, k)
    <3>1. PICK d \in DefenseId :
              /\ defenses'[d].status = "preparing" /\ ~ defenses'[d].catalog
              /\ \A e \in DefenseId \ {d} : defenses'[e] = defenses[e]
              /\ check_attempts' = check_attempts
      BY <2>2, CreateEffect, Zenon
    <3>2. RowStep(d)
      BY <3>1, Zenon DEF RowStep
    <3> QED
      BY <3>1, <3>2, RowKept, Zenon DEF PlaySteps
  <2> QED
    BY <1>2, <2>1, <2>2 DEF Create
<1>3. ASSUME NEW d \in DefenseId, NEW l \in Limit,
             Configure(d, l) \/ ConfigureHide(d, l)
      PROVE  PlaySteps
  <2>1. /\ defenses'[d].status = "preparing"
        /\ defenses'[d].mode = "restore" => defenses'[d].selected = TRUE
        /\ \A e \in DefenseId \ {d} : defenses'[e] = defenses[e]
        /\ check_attempts' = check_attempts
    BY <1>3, ConfigureEffect, Zenon
  <2>2. RowStep(d)
    BY <2>1, Zenon DEF RowStep
  <2> QED
    BY <2>1, <2>2, RowKept, Zenon DEF PlaySteps
<1>4. ASSUME NEW d \in DefenseId, NEW k \in Key, Attempt(d, k) PROVE PlaySteps
  <2>1. PICK a \in AttemptId :
            /\ check_attempts[a].outcome = "none"
            /\ check_attempts' =
                   [check_attempts EXCEPT ![a] = PendingAttempt(d, k)]
    BY <1>4, Zenon DEF Attempt, NextAttempt
  <2>2. /\ check_attempts'[a] = PendingAttempt(d, k)
        /\ \A b \in AttemptId \ {a} : check_attempts'[b] = check_attempts[b]
    BY <2>1, Zenon DEF TypeOK
  <2>3. defenses[d].timer > 0 /\ defenses' = defenses
    BY <1>4 DEF Attempt, Accepting
  <2>4. check_attempts'[a].early
    <3>1. PendingAttempt(d, k).early = (defenses[d].timer > 0)
      BY Zenon DEF PendingAttempt
    <3> QED
      BY <2>2, <2>3, <3>1, Zenon
  <2>5. AttemptStep(a)
    BY <2>1, <2>4, Zenon DEF AttemptStep
  <2> QED
    BY <2>2, <2>3, <2>5, RowKept DEF PlaySteps
<1>5. ASSUME NEW d \in DefenseId, Cancel(d) PROVE PlaySteps
  <2>1. /\ defenses'[d].status = "cancelled"
        /\ \A e \in DefenseId \ {d} : defenses'[e] = defenses[e]
    BY <1>5, CancelledRow, Zenon DEF Cancel, TypeOK
  <2>2. ASSUME NEW a \in AttemptId PROVE AttemptStep(a)
    <3>1. check_attempts[a] \in AttemptRow
      BY Zenon DEF TypeOK
    <3>2. CASE check_attempts'[a] = check_attempts[a]
      BY <3>2, RowKept
    <3>3. CASE check_attempts'[a] = Aborted(check_attempts[a])
      BY <3>1, <3>3, AbortedRow, Zenon DEF AttemptStep
    <3> QED
      BY <1>5, <3>2, <3>3 DEF Cancel
  <2>3. RowStep(d)
    BY <2>1 DEF RowStep
  <2> QED
    BY <2>1, <2>2, <2>3, RowKept, Zenon DEF PlaySteps
<1>6. ASSUME NEW r \in Runner, Lease(r) PROVE PlaySteps
  <2>1. ReapOwners
    BY <1>6, LeaseKeeps, Zenon
  <2>2. ASSUME NEW d \in DefenseId PROVE RowStep(d)
    <3>1. defenses'[d] = defenses[d] \/ defenses'[d].status = "error"
      BY <2>1, ReapOwnersRows, Zenon
    <3> QED
      BY <3>1, RowKept, Zenon DEF RowStep
  <2>3. ASSUME NEW a \in AttemptId PROVE AttemptStep(a)
    <3>1. \/ check_attempts'[a] = check_attempts[a]
          \/ /\ check_attempts[a].outcome = "pending"
             /\ check_attempts'[a].early = check_attempts[a].early
      BY <2>1, ReapOwnersRows
    <3> QED
      BY <3>1, RowKept, Zenon DEF AttemptStep
  <2> QED
    BY <2>2, <2>3, SMTT(20) DEF PlaySteps
<1>7. ASSUME NEW j \in JobId, NEW t \in Tokens(j), Complete(j, t)
      PROVE  PlaySteps
  <2> DEFINE d == runner_jobs[j].defense
             a == runner_jobs[j].attempt
  <2>1. CASE PrepareEnded(j)
    <3>1. /\ d \in DefenseId
          /\ defenses'[d].status \in {"ready", "active", "error"}
          /\ \A e \in DefenseId \ {d} : defenses'[e] = defenses[e]
          /\ check_attempts' = check_attempts
      BY <2>1 DEF PrepareEnded
    <3>2. RowStep(d)
      BY <3>1, Zenon DEF RowStep
    <3> QED
      BY <3>1, <3>2, RowKept, ZenonT(30) DEF PlaySteps
  <2>2. ASSUME NEW outcome \in Outcome, CheckEnded(j, outcome)
        PROVE  PlaySteps
    <3>1. /\ d \in DefenseId /\ a \in AttemptId
          /\ defenses[d].status \in {"active", "expired"}
          /\ check_attempts[a].outcome = "pending"
          /\ check_attempts'[a].outcome = outcome
          /\ check_attempts'[a].defense = d
          /\ check_attempts'[a].early = check_attempts[a].early
          /\ \A b \in AttemptId \ {a} : check_attempts'[b] = check_attempts[b]
          /\ defenses'[d].status =
                IF outcome = "passed" /\ defenses[d].status = "active"
                THEN "passed" ELSE defenses[d].status
          /\ \A e \in DefenseId \ {d} : defenses'[e] = defenses[e]
      BY <2>2, Zenon DEF CheckEnded
    <3> HIDE DEF d, a
    <3>2. RowStep(d)
      BY <3>1, Zenon DEF RowStep
    <3>3. AttemptStep(a)
      BY <3>1, Zenon DEF AttemptStep
    <3> QED
      BY <3>1, <3>2, <3>3, RowKept DEF PlaySteps
  <2> QED
    BY <1>7, <2>1, <2>2, CompleteEnds, Zenon
<1>8. ASSUME Tick \/ \E j \in JobId : \E t \in Tokens(j) : Heartbeat(j, t)
      PROVE  PlaySteps
  <2>1. ASSUME NEW d \in DefenseId PROVE RowStep(d)
    BY <1>8, TimeKeeps, Zenon DEF RowStep
  <2>2. check_attempts' = check_attempts
    BY <1>8, TimeKeeps
  <2> QED
    BY <2>1, <2>2, RowKept DEF PlaySteps
<1>9. CASE UNCHANGED vars
  BY <1>9, RowKept DEF vars, PlaySteps
<1> QED
  BY <1>1, <1>2, <1>3, <1>4, <1>5, <1>6, <1>7, <1>8, <1>9, SMTT(20) DEF Next

(* The play invariant holds always. *)
LEMMA PlayInvariant == Spec => [](TypeOK /\ WorkInv /\ PlayInv)
<1>1. Init => PlayInv
  BY DEF Init, PlayInv, NoDefense, NoAttempt
<1>2. TypeOK /\ WorkInv /\ PlayInv /\ [Next]_vars => PlayInv'
  BY PlayStep, PlayKept
<1> QED
  BY <1>1, <1>2, WorkInvariant, PTL DEF Spec

(* Discovery never meets a catalog, for any number of configurations. *)
THEOREM DiscoveryOnceCorrect == Spec => []DiscoveryOnce
<1>1. TypeOK /\ WorkInv /\ PlayInv => DiscoveryOnce
  BY DEF WorkInv, JobOK, PlayInv, DiscoveryOnce
<1> QED
  BY <1>1, PlayInvariant, PTL

(* A defense is passed only by an attempt accepted before its deadline. *)
THEOREM PassedInTimeCorrect == Spec => []PassedInTime
<1>1. PlayInv => PassedInTime
  BY DEF PlayInv, PassedInTime, AttemptsOf
<1> QED
  BY <1>1, PlayInvariant, PTL
=============================================================================
