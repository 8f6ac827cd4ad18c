-------------------------- MODULE RunnerAgentProofs --------------------------
(***************************************************************************)
(* RunnerAgent, for every number of slots and every length of leases and   *)
(* of jobs: the agents use the queue as DefenseQueue allows, two slots     *)
(* never share a lease, and a slot that beats keeps its lease.             *)
(***************************************************************************)
EXTENDS RunnerAgent, DefenseQueueProofs

SlotRow == [phase : {"polling", "working", "stopped"}, job : JobId \cup {None},
            token : Nat, done : BOOLEAN, left : Nat, beat : Nat, lost : Nat]

(* A slot that is not polling has a lease that was handed out. *)
Issued(w) ==
    slots[w].phase # "polling" =>
        slots[w].job \in JobId /\ slots[w].token \in Tokens(slots[w].job)

SlotInv ==
    /\ slots \in [Slot -> SlotRow]
    /\ \A w \in Slot : Issued(w)

-----------------------------------------------------------------------------
(* What a step does to the slots                                           *)

(* The rows a slot may get. *)
LEMMA SlotRows ==
    /\ Polling \in SlotRow /\ Polling.phase = "polling"
    /\ \A j \in JobId, t \in Nat :
          LET new == Working(j, t) IN
          /\ new \in SlotRow
          /\ new.phase = "working" /\ new.job = j /\ new.token = t
          /\ new.beat = 1 /\ new.lost = 0
BY TimeoutAssumption, Zenon DEF Polling, Working, SlotRow

(* Leases are never forgotten. *)
LEMMA LeasesGrow ==
    ASSUME TypeOK, [Next]_vars, NEW j \in JobId
    PROVE  Tokens(j) \subseteq Tokens(j)'
<1> DEFINE old == job_leases[j]
<1>1. old \in Seq(Reason) /\ Len(old) \in Nat
  BY DEF TypeOK
<1>2. \A reason \in {"expired", "completed", "cancelled"} :
          /\ Release(old, reason) \in Seq(Reason)
          /\ Len(Release(old, reason)) = Len(old)
  BY <1>1, ReleaseRows DEF Reason
<1>3. /\ Len(Append(old, "open")) = Len(old) + 1
      /\ Len(Append(Release(old, "expired"), "open")) = Len(old) + 1
  BY <1>1, <1>2, AppendProperties DEF Reason
<1>4. JobStep(j)
  BY JobEffect
<1>5. Len(job_leases'[j]) \in {Len(old), Len(old) + 1}
  BY <1>2, <1>3, <1>4 DEF JobStep, JobKept, JobInserted, JobCancelled, JobReaped,
                          JobLeased, JobCompleted
<1> QED
  BY <1>1, <1>5 DEF Tokens

(* Whatever the agents do is a call the queue allows. *)
LEMMA AgentCalls ==
    ASSUME TypeOK, SlotInv, [AgentNext]_agentVars
    PROVE  [Next]_vars
<1>1. CASE User
  BY <1>1 DEF User, Next
<1>2. ASSUME NEW w \in Slot, Poll(w) PROVE [Next]_vars
  <2>1. RunnerOf[w] \in Runner
    BY SlotAssumption
  <2>2. Lease(RunnerOf[w])
    BY <1>2 DEF Poll, Lease
  <2> QED
    BY <2>1, <2>2 DEF Next
<1>3. ASSUME NEW w \in Slot, slots[w].phase # "polling",
             Heartbeat(slots[w].job, slots[w].token)
      PROVE  Next
  BY <1>3 DEF SlotInv, Issued, Next
<1>4. ASSUME NEW w \in Slot, slots[w].phase # "polling",
             Complete(slots[w].job, slots[w].token)
      PROVE  Next
  BY <1>4 DEF SlotInv, Issued, Next
<1>5. ASSUME NEW w \in Slot,
             HeartbeatAccepted(w) \/ HeartbeatRefused(w) \/ HeartbeatLost(w)
      PROVE  [Next]_vars
  BY <1>3, <1>5, Zenon DEF HeartbeatAccepted, HeartbeatRefused, HeartbeatLost, Due
<1>6. ASSUME NEW w \in Slot, Timeout(w) \/ Compute(w) \/ GiveUp(w)
      PROVE  [Next]_vars
  BY <1>6 DEF Timeout, Compute, GiveUp
<1>7. ASSUME NEW w \in Slot, Report(w) PROVE [Next]_vars
  BY <1>4, <1>7 DEF Report
<1>8. ASSUME NEW w \in Slot, ReportStopped(w) PROVE [Next]_vars
  <2>1. slots[w].phase # "polling"
    BY <1>8 DEF ReportStopped
  <2>2. UNCHANGED vars \/ Complete(slots[w].job, slots[w].token)
    BY <1>8, Zenon DEF ReportStopped, Complete, Outcome
  <2> QED
    BY <1>4, <2>1, <2>2
<1>9. CASE AgentTick
  <2>1. CASE \/ \E d \in DefenseId : Counting(defenses[d])
             \/ \E j \in JobId : Running(runner_jobs[j])
    BY <1>9, <2>1, Zenon DEF AgentTick, Tick, Next
  <2>2. CASE /\ \A d \in DefenseId : ~ Counting(defenses[d])
             /\ \A j \in JobId : ~ Running(runner_jobs[j])
    <3>1. Pass
      BY <1>9, Zenon DEF AgentTick
    <3>2. defenses' = defenses /\ runner_jobs' = runner_jobs
      BY <2>2, <3>1 DEF Pass, TypeOK
    <3> QED
      BY <3>1, <3>2 DEF Pass, vars
  <2> QED
    BY <2>1, <2>2
<1>10. CASE UNCHANGED agentVars
  BY <1>10 DEF agentVars, vars
<1> QED
  BY <1>1, <1>2, <1>5, <1>6, <1>7, <1>8, <1>9, <1>10 DEF AgentNext

(* One slot takes a lease ... *)
Takes(w) ==
    \E j \in JobId, skew \in Skew :
        /\ slots[w].phase = "polling"
        /\ LeaseJob(RunnerOf[w], j, skew)
        /\ slots'[w] = Working(j, Len(job_leases[j]) + 1)

(* ... or goes on under the lease it has ... *)
GoesOn(w) ==
    /\ slots[w].phase # "polling" /\ slots'[w].phase # "polling"
    /\ slots'[w].job = slots[w].job /\ slots'[w].token = slots[w].token
    /\ slots'[w] \in SlotRow

(* ... or has none afterwards. *)
SlotStep(w) == Takes(w) \/ GoesOn(w) \/ slots'[w] = Polling \/ slots'[w] = slots[w]

OthersKept(w) == \A v \in Slot \ {w} : slots'[v] = slots[v]

(* A slot that becomes something leaves the others alone. *)
LEMMA Becomes ==
    ASSUME SlotInv, NEW w \in Slot, NEW state \in SlotRow, Become(w, state)
    PROVE  /\ slots' \in [Slot -> SlotRow] /\ slots'[w] = state /\ OthersKept(w)
BY DEF SlotInv, Become, OthersKept

(* What the steps of a heartbeat loop and of a job write. *)
Stopped(row) == [row EXCEPT !.phase = "stopped"]
Computed(row) == [row EXCEPT !.done = TRUE]
Beaten(row) == [row EXCEPT !.beat = 1, !.lost = 0]
Missed(row, n) == [row EXCEPT !.beat = n, !.lost = row.lost + n]
Aged(row) == [row EXCEPT !.beat = row.beat - 1, !.left = row.left - 1]

SameLease(row, new) ==
    new \in SlotRow /\ new.job = row.job /\ new.token = row.token

(* All of them keep the lease, and these are their beats. *)
LEMMA Updates ==
    ASSUME NEW row \in SlotRow
    PROVE  /\ SameLease(row, Stopped(row)) /\ Stopped(row).phase = "stopped"
           /\ LET new == Computed(row) IN
              /\ SameLease(row, new) /\ new.phase = row.phase
              /\ new.beat = row.beat /\ new.lost = row.lost
           /\ LET new == Beaten(row) IN
              /\ SameLease(row, new) /\ new.phase = row.phase
              /\ new.beat = 1 /\ new.lost = 0
           /\ \A n \in Nat : LET new == Missed(row, n) IN
              /\ SameLease(row, new) /\ new.phase = row.phase
              /\ new.beat = n /\ new.lost = row.lost + n
           /\ row.beat > 0 /\ row.left > 0 => LET new == Aged(row) IN
              /\ SameLease(row, new) /\ new.phase = row.phase
              /\ new.beat = row.beat - 1 /\ new.lost = row.lost
<1>1. /\ row.lost \in Nat /\ \A n \in Nat : row.lost + n \in Nat
      /\ row.beat > 0 => row.beat - 1 \in Nat
      /\ row.left > 0 => row.left - 1 \in Nat
  BY DEF SlotRow
<1>2. 0 \in Nat /\ 1 \in Nat /\ TRUE \in BOOLEAN
      /\ "stopped" \in {"polling", "working", "stopped"}
  OBVIOUS
<1> QED
  BY <1>1, <1>2, Zenon
  DEF SlotRow, SameLease, Stopped, Computed, Beaten, Missed, Aged

(* Polling takes a lease or nothing. *)
LEMMA PollSlots ==
    ASSUME TypeOK, SlotInv, NEW w \in Slot, Poll(w)
    PROVE  /\ slots' \in [Slot -> SlotRow] /\ OthersKept(w)
           /\ Takes(w) \/ slots'[w] = slots[w]
<1>1. CASE UNCHANGED slots
  BY <1>1 DEF SlotInv, OthersKept
<1>2. ASSUME NEW j \in JobId, NEW skew \in Skew, slots[w].phase = "polling",
             LeaseJob(RunnerOf[w], j, skew),
             Become(w, Working(j, Len(job_leases[j]) + 1))
      PROVE  slots' \in [Slot -> SlotRow] /\ OthersKept(w) /\ Takes(w)
  <2>1. Len(job_leases[j]) + 1 \in Nat
    BY DEF TypeOK
  <2>2. Working(j, Len(job_leases[j]) + 1) \in SlotRow
    BY <2>1, SlotRows
  <2>3. /\ slots' \in [Slot -> SlotRow] /\ OthersKept(w)
        /\ slots'[w] = Working(j, Len(job_leases[j]) + 1)
    BY <1>2, <2>2, Becomes
  <2> QED
    BY <1>2, <2>3 DEF Takes
<1> QED
  BY <1>1, <1>2 DEF Poll

(* What a lost heartbeat writes. *)
LEMMA MissedStep ==
    ASSUME NEW w \in Slot, HeartbeatLost(w)
    PROVE  \E n \in 1 .. slots[w].left : Become(w, Missed(slots[w], n))
<1>1. PICK n \in 1 .. slots[w].left :
          Become(w, [slots[w] EXCEPT !.beat = n, !.lost = @ + n])
  BY Zenon DEF HeartbeatLost
<1>2. Become(w, Missed(slots[w], n))
  BY <1>1, Zenon DEF Missed
<1> QED
  BY <1>2

(* The steps of a slot under its lease. *)
LEMMA WorkingSlots ==
    ASSUME SlotInv, NEW w \in Slot,
           \/ HeartbeatAccepted(w) \/ HeartbeatRefused(w) \/ HeartbeatLost(w)
           \/ Timeout(w) \/ Compute(w)
    PROVE  /\ slots' \in [Slot -> SlotRow] /\ OthersKept(w) /\ GoesOn(w)
<1> DEFINE old == slots[w]
<1>0. old \in SlotRow
  BY DEF SlotInv
<1>1. ASSUME NEW new, SameLease(old, new), new.phase # "polling",
             old.phase # "polling", Become(w, new)
      PROVE  slots' \in [Slot -> SlotRow] /\ OthersKept(w) /\ GoesOn(w)
  BY <1>1, Becomes DEF SameLease, GoesOn
<1>2. CASE HeartbeatAccepted(w)
  <2>1. Become(w, Beaten(old)) /\ old.phase = "working"
    BY <1>2, Zenon DEF HeartbeatAccepted, Beaten, Due
  <2> QED
    BY <1>0, <1>1, <2>1, Updates
<1>3. CASE HeartbeatRefused(w) \/ Timeout(w)
  <2>1. Become(w, Stopped(old)) /\ old.phase = "working"
    BY <1>3, Zenon DEF HeartbeatRefused, Timeout, Stopped, Due
  <2> QED
    BY <1>0, <1>1, <2>1, Updates
<1>4. CASE HeartbeatLost(w)
  <2>1. PICK n \in 1 .. old.left : Become(w, Missed(old, n))
    BY <1>4, MissedStep
  <2>2. old.left \in Nat
    BY <1>0 DEF SlotRow
  <2>3. n \in Nat
    BY <2>2
  <2>4. old.phase = "working"
    BY <1>4, Zenon DEF HeartbeatLost, Due
  <2> QED
    BY <1>0, <1>1, <2>1, <2>3, <2>4, Updates, SMTT(20)
<1>5. CASE Compute(w)
  <2>1. Become(w, Computed(old)) /\ old.phase = "working"
    BY <1>5, Zenon DEF Compute, Computed
  <2> QED
    BY <1>0, <1>1, <2>1, Updates
<1> QED
  BY <1>2, <1>3, <1>4, <1>5

(* The steps that end the work of a slot. *)
LEMMA EndingSlots ==
    ASSUME SlotInv, NEW w \in Slot, Report(w) \/ ReportStopped(w) \/ GiveUp(w)
    PROVE  slots' \in [Slot -> SlotRow] /\ OthersKept(w) /\ slots'[w] = Polling
<1>1. Become(w, Polling)
  BY Zenon DEF Report, ReportStopped, GiveUp
<1> QED
  BY <1>1, SlotRows, Becomes

(* Time passes for all slots. *)
LEMMA TickSlots ==
    ASSUME SlotInv, AgentTick
    PROVE  /\ slots' \in [Slot -> SlotRow]
           /\ \A w \in Slot :
                 \/ slots[w].phase # "working" /\ slots'[w] = slots[w]
                 \/ /\ slots[w].phase = "working" /\ slots'[w].phase = "working"
                    /\ GoesOn(w)
                    /\ slots[w].beat > 0
                    /\ slots'[w].beat = slots[w].beat - 1
                    /\ slots'[w].lost = slots[w].lost
<1>1. ASSUME NEW w \in Slot, slots[w].phase # "working"
      PROVE  slots'[w] = slots[w] /\ slots'[w] \in SlotRow
  BY <1>1, Zenon DEF AgentTick, SlotInv
<1>2. ASSUME NEW w \in Slot, slots[w].phase = "working"
      PROVE  /\ slots'[w].phase = "working" /\ GoesOn(w)
             /\ slots[w].beat > 0
             /\ slots'[w].beat = slots[w].beat - 1
             /\ slots'[w].lost = slots[w].lost
             /\ slots'[w] \in SlotRow
  <2>1. /\ slots[w] \in SlotRow /\ slots[w].beat > 0 /\ slots[w].left > 0
    BY <1>2, Zenon DEF AgentTick, SlotInv
  <2>2. slots'[w] = Aged(slots[w])
    BY <1>2, Zenon DEF AgentTick, Aged
  <2>3. /\ SameLease(slots[w], slots'[w]) /\ slots'[w].phase = slots[w].phase
        /\ slots'[w].beat = slots[w].beat - 1 /\ slots'[w].lost = slots[w].lost
    BY <2>1, <2>2, Updates
  <2> QED
    BY <1>2, <2>1, <2>3 DEF GoesOn, SameLease
<1>3. slots' = [w \in Slot |-> slots'[w]]
  BY Zenon DEF AgentTick
<1> QED
  BY <1>1, <1>2, <1>3

-----------------------------------------------------------------------------
(* Leases of the slots                                                     *)

(* At most one slot takes a lease in a step; the others go on under        *)
(* theirs, or have none afterwards.                                        *)
LEMMA SlotSteps ==
    ASSUME TypeOK, SlotInv, [AgentNext]_agentVars
    PROVE  /\ slots' \in [Slot -> SlotRow]
           /\ \A w \in Slot : SlotStep(w)
           /\ \A v, w \in Slot : Takes(w) /\ v # w => ~ Takes(v) \/ slots'[v] = slots[v]
<1>1. CASE UNCHANGED slots
  BY <1>1 DEF SlotInv, SlotStep
<1>2. ASSUME NEW w \in Slot, slots' \in [Slot -> SlotRow], OthersKept(w), SlotStep(w)
      PROVE  /\ \A v \in Slot : SlotStep(v)
             /\ \A u, v \in Slot : Takes(v) /\ u # v => ~ Takes(u) \/ slots'[u] = slots[u]
  <2>1. \A v \in Slot : v # w => slots'[v] = slots[v]
    BY <1>2 DEF OthersKept
  <2>2. \A v \in Slot : Takes(v) => v = w
    <3>1. SUFFICES ASSUME NEW v \in Slot, Takes(v), v # w PROVE FALSE
      OBVIOUS
    <3>2. PICK j \in JobId : slots'[v] = Working(j, Len(job_leases[j]) + 1)
      BY <3>1 DEF Takes
    <3>3. Len(job_leases[j]) + 1 \in Nat
      BY DEF TypeOK
    <3>4. slots'[v].phase = "working"
      BY <3>2, <3>3, SlotRows
    <3>5. slots[v].phase = "polling"
      BY <3>1 DEF Takes
    <3> QED
      BY <2>1, <3>1, <3>4, <3>5
  <2> QED
    BY <1>2, <2>1, <2>2 DEF SlotStep
<1>3. ASSUME NEW w \in Slot, Poll(w)
      PROVE  slots' \in [Slot -> SlotRow] /\ OthersKept(w) /\ SlotStep(w)
  BY <1>3, PollSlots DEF SlotStep
<1>4. ASSUME NEW w \in Slot,
             \/ HeartbeatAccepted(w) \/ HeartbeatRefused(w) \/ HeartbeatLost(w)
             \/ Timeout(w) \/ Compute(w)
      PROVE  slots' \in [Slot -> SlotRow] /\ OthersKept(w) /\ SlotStep(w)
  BY <1>4, WorkingSlots DEF SlotStep
<1>5. ASSUME NEW w \in Slot, Report(w) \/ ReportStopped(w) \/ GiveUp(w)
      PROVE  slots' \in [Slot -> SlotRow] /\ OthersKept(w) /\ SlotStep(w)
  BY <1>5, EndingSlots DEF SlotStep
<1>6. CASE AgentTick
  <2>1. slots' \in [Slot -> SlotRow] /\ \A w \in Slot : GoesOn(w) \/ slots'[w] = slots[w]
    BY <1>6, TickSlots
  <2>2. \A w \in Slot : Takes(w) => ~ GoesOn(w)
    BY DEF Takes, GoesOn
  <2> QED
    BY <2>1, <2>2 DEF SlotStep
<1>7. CASE \E w \in Slot : \/ Poll(w) \/ HeartbeatAccepted(w) \/ HeartbeatRefused(w)
                           \/ HeartbeatLost(w) \/ Timeout(w) \/ Compute(w)
                           \/ Report(w) \/ ReportStopped(w) \/ GiveUp(w)
  <2>1. PICK w \in Slot :
            slots' \in [Slot -> SlotRow] /\ OthersKept(w) /\ SlotStep(w)
    BY <1>3, <1>4, <1>5, <1>7
  <2> QED
    BY <1>2, <2>1
<1> QED
  BY <1>1, <1>6, <1>7 DEF AgentNext, agentVars

(* A lease taken is a new one, and handed out. *)
LEMMA TakenToken ==
    ASSUME TypeOK, NEW r \in Runner, NEW j \in JobId, NEW skew \in Skew,
           LeaseJob(r, j, skew)
    PROVE  /\ Len(job_leases[j]) + 1 \in Nat
           /\ Len(job_leases[j]) + 1 \notin Tokens(j)
           /\ Len(job_leases[j]) + 1 \in Tokens(j)'
<1>1. job_leases[j] \in Seq(Reason) /\ Len(job_leases[j]) \in Nat
  BY DEF TypeOK
<1>2. LeasesAfterReap[j] \in Seq(Reason) /\ Len(LeasesAfterReap[j]) = Len(job_leases[j])
  BY <1>1, ReapType, ReleaseRows DEF LeasesAfterReap, Reason
<1>3. job_leases'[j] = Append(LeasesAfterReap[j], "open")
  BY ReapType DEF LeaseJob
<1>4. Len(job_leases'[j]) = Len(job_leases[j]) + 1
  BY <1>2, <1>3, AppendProperties DEF Reason
<1> QED
  BY <1>1, <1>4 DEF Tokens

(* The slots keep to leases that were handed out. *)
LEMMA SlotInvStep ==
    ASSUME TypeOK, SlotInv, [AgentNext]_agentVars
    PROVE  SlotInv'
<1>1. slots' \in [Slot -> SlotRow] /\ \A w \in Slot : SlotStep(w)
  BY SlotSteps
<1>2. \A j \in JobId : Tokens(j) \subseteq Tokens(j)'
  BY AgentCalls, LeasesGrow
<1>3. ASSUME NEW w \in Slot PROVE Issued(w)'
  <2>1. CASE Takes(w)
    <3>1. PICK j \in JobId, skew \in Skew :
              /\ LeaseJob(RunnerOf[w], j, skew)
              /\ slots'[w] = Working(j, Len(job_leases[j]) + 1)
      BY <2>1 DEF Takes
    <3>2. RunnerOf[w] \in Runner
      BY SlotAssumption
    <3>3. Len(job_leases[j]) + 1 \in Nat /\ Len(job_leases[j]) + 1 \in Tokens(j)'
      BY <3>1, <3>2, TakenToken
    <3>4. slots'[w].job = j /\ slots'[w].token = Len(job_leases[j]) + 1
      BY <3>1, <3>3, SlotRows
    <3> QED
      BY <3>3, <3>4 DEF Issued
  <2>2. CASE GoesOn(w) \/ slots'[w] = slots[w]
    BY <1>2, <2>2 DEF SlotInv, Issued, GoesOn
  <2>3. CASE slots'[w] = Polling
    BY <2>3, SlotRows DEF Issued
  <2> QED
    BY <1>1, <2>1, <2>2, <2>3 DEF SlotStep
<1> QED
  BY <1>1, <1>3 DEF SlotInv

(* A new lease is nobody's yet, and the leases of the slots stay theirs. *)
LEMMA NotSharedStep ==
    ASSUME TypeOK, SlotInv, LeaseNotShared, [AgentNext]_agentVars
    PROVE  LeaseNotShared'
<1> SUFFICES ASSUME NEW v \in Slot, NEW w \in Slot, v # w,
                    slots'[v].phase # "polling", slots'[w].phase # "polling",
                    slots'[v].job = slots'[w].job, slots'[v].token = slots'[w].token
             PROVE  FALSE
  BY DEF LeaseNotShared
<1>1. /\ SlotStep(v) /\ SlotStep(w)
      /\ Takes(v) => ~ Takes(w) \/ slots'[w] = slots[w]
  BY SlotSteps
<1>2. slots'[v] # Polling /\ slots'[w] # Polling
  BY SlotRows
<1>3. \A u \in Slot : GoesOn(u) \/ slots'[u] = slots[u] =>
          /\ slots'[u].job = slots[u].job /\ slots'[u].token = slots[u].token
          /\ slots'[u].phase # "polling" => slots[u].phase # "polling"
  BY DEF GoesOn
<1>4. ASSUME NEW x \in Slot, NEW y \in Slot, Takes(x),
             GoesOn(y) \/ slots'[y] = slots[y], slots'[y].phase # "polling",
             slots'[x].job = slots'[y].job, slots'[x].token = slots'[y].token
      PROVE  FALSE
  <2>1. PICK j \in JobId, skew \in Skew :
            /\ LeaseJob(RunnerOf[x], j, skew)
            /\ slots'[x] = Working(j, Len(job_leases[j]) + 1)
    BY <1>4 DEF Takes
  <2>2. RunnerOf[x] \in Runner
    BY SlotAssumption
  <2>3. Len(job_leases[j]) + 1 \in Nat /\ Len(job_leases[j]) + 1 \notin Tokens(j)
    BY <2>1, <2>2, TakenToken, SMTT(20)
  <2>4. slots'[x].job = j /\ slots'[x].token = Len(job_leases[j]) + 1
    BY <2>1, <2>3, SlotRows, SMTT(20)
  <2>5. slots[y].job = j /\ slots[y].token \in Tokens(j)
    BY <1>3, <1>4, <2>4, Zenon DEF SlotInv, Issued
  <2>6. slots[y].token = Len(job_leases[j]) + 1
    BY <1>3, <1>4, <2>4, Zenon
  <2> QED
    BY <2>3, <2>5, <2>6, SMTT(20)
<1>5. CASE Takes(v) \/ Takes(w)
  BY <1>1, <1>2, <1>4, <1>5, SMTT(20) DEF SlotStep
<1>6. CASE ~ Takes(v) /\ ~ Takes(w)
  BY <1>1, <1>2, <1>3, <1>6, SMTT(20) DEF SlotStep, LeaseNotShared
<1> QED
  BY <1>5, <1>6

-----------------------------------------------------------------------------
(* What a step does to the row of a lease that is held                     *)

RowLeft(j) ==
    runner_jobs'[j] = runner_jobs[j] \/ runner_jobs'[j].state = "cancelled"

(* Inserting a job leaves a leased one alone. *)
LEMMA InsertLeaves ==
    ASSUME TypeOK, NEW j \in JobId, NEW t, Holds(j, t),
           NEW kind, NEW d, NEW a, InsertJob(kind, d, a)
    PROVE  RowLeft(j)
<1>1. PICK i \in JobId :
          /\ runner_jobs[i].state = "none"
          /\ runner_jobs' = [runner_jobs EXCEPT ![i] = QueuedJob(kind, d, a)]
  BY Zenon DEF InsertJob, NextJob
<1> QED
  BY <1>1 DEF RowLeft, Holds, TypeOK

(* The student and the teacher can only cancel it. *)
LEMMA UserLeaves ==
    ASSUME TypeOK, NEW j \in JobId, NEW t, Holds(j, t), User
    PROVE  RowLeft(j)
<1>0. ASSUME UNCHANGED runner_jobs PROVE RowLeft(j)
  BY <1>0 DEF RowLeft
<1>1. ASSUME NEW s \in Submission, NEW k \in Key, Create(s, k) PROVE RowLeft(j)
  <2>1. CASE CreateExisting(s, k)
    BY <1>0, <2>1 DEF CreateExisting, Get
  <2>2. CASE CreateNew(s, k)
    BY <2>2, InsertLeaves DEF CreateNew
  <2> QED
    BY <1>1, <2>1, <2>2 DEF Create
<1>2. ASSUME NEW d \in DefenseId, Get(d) PROVE RowLeft(j)
  BY <1>0, <1>2 DEF Get
<1>3. ASSUME NEW d \in DefenseId, NEW l \in Limit,
             Configure(d, l) \/ ConfigureHide(d, l)
      PROVE  RowLeft(j)
  BY <1>3, InsertLeaves DEF Configure, ConfigureHide
<1>4. ASSUME NEW d \in DefenseId, NEW k \in Key, Attempt(d, k) PROVE RowLeft(j)
  BY <1>4, InsertLeaves DEF Attempt
<1>5. ASSUME NEW d \in DefenseId, Cancel(d) PROVE RowLeft(j)
  BY <1>5, RevokedRow, SMTT(20) DEF Cancel, RowLeft, Holds, LiveState, TypeOK
<1> QED
  BY <1>1, <1>2, <1>3, <1>4, <1>5, SMTT(20) DEF User

(* Polling passes over it: it is neither overdue nor queued. *)
LEMMA PollLeaves ==
    ASSUME TypeOK, NEW j \in JobId, NEW t, Holds(j, t), NEW w \in Slot, Poll(w)
    PROVE  RowLeft(j)
<1>1. JobsAfterReap[j] = runner_jobs[j] /\ runner_jobs[j].state = "leased"
  BY DEF JobsAfterReap, Overdue, Holds, TypeOK, JobRow
<1>2. ASSUME NEW i \in JobId, NEW skew \in Skew, LeaseJob(RunnerOf[w], i, skew)
      PROVE  RowLeft(j)
  <2>1. i # j
    BY <1>1, <1>2 DEF LeaseJob
  <2> QED
    BY <1>1, <1>2, <2>1, ReapType, SMTT(20) DEF LeaseJob, RowLeft
<1>3. CASE LeaseNothing
  BY <1>1, <1>3 DEF LeaseNothing, RowLeft
<1> QED
  BY <1>2, <1>3 DEF Poll

(* A heartbeat or a completion under another lease is about another job. *)
LEMMA OthersLeave ==
    ASSUME TypeOK, NEW j \in JobId, NEW t, Holds(j, t),
           NEW i \in JobId, NEW u, i # j \/ u # t,
           Heartbeat(i, u) \/ Complete(i, u)
    PROVE  RowLeft(j)
<1>1. CASE Heartbeat(i, u)
  <2>1. i # j
    BY <1>1 DEF Heartbeat, Holds
  <2> QED
    BY <1>1, <2>1 DEF Heartbeat, RowLeft, TypeOK
<1>2. CASE Complete(i, u)
  <2>1. Holds(i, u) /\ FinishJob(i, u)
    BY <1>2, Zenon DEF Complete, CompleteHide, CompletePrepareError, CompleteDiscovery,
                CompleteMask, CompleteCheck, FinishPrepare
  <2>2. i # j
    BY <2>1, SMTT(20) DEF Holds
  <2> QED
    BY <2>1, <2>2 DEF FinishJob, RowLeft, TypeOK
<1> QED
  BY <1>1, <1>2

(* A cancelled job stays cancelled. *)
LEMMA StaysCancelled ==
    ASSUME TypeOK, [Next]_vars, NEW j \in JobId, runner_jobs[j].state = "cancelled"
    PROVE  runner_jobs'[j].state = "cancelled"
<1>1. JobStep(j)
  BY JobEffect, Zenon
<1> QED
  BY <1>1 DEF JobStep, JobKept, JobInserted, JobCancelled, JobReaped, JobLeased,
              JobCompleted, LiveState, Holds

(* What a new lease, a heartbeat and time write to the row. *)
LEMMA LeaseWrites ==
    ASSUME TypeOK, NEW r \in Runner, NEW j \in JobId, NEW skew \in Skew,
           LeaseJob(r, j, skew)
    PROVE  /\ runner_jobs'[j].state = "leased"
           /\ runner_jobs'[j].token = Len(job_leases[j]) + 1
           /\ runner_jobs'[j].ttl = LeaseTTL + skew
<1>1. Len(job_leases[j]) + 1 \in Nat /\ LeaseTTL + skew \in Int
  BY TTLAssumption, SkewAssumption DEF TypeOK
<1>2. runner_jobs'[j] =
          Leased(JobsAfterReap[j], r, Len(job_leases[j]) + 1, LeaseTTL + skew)
  BY ReapType, Zenon DEF LeaseJob
<1>3. JobsAfterReap[j] \in JobRow
  BY ReapType
<1> DEFINE new == Leased(JobsAfterReap[j], r, Len(job_leases[j]) + 1, LeaseTTL + skew)
<1>4. /\ new.state = "leased" /\ new.token = Len(job_leases[j]) + 1
      /\ new.ttl = LeaseTTL + skew
  BY <1>1, <1>3, LeasedRow, Zenon
<1> QED
  BY <1>2, <1>4

(* A heartbeat gives the lease its whole time again. *)
LEMMA HeartbeatWrites ==
    ASSUME TypeOK, NEW j \in JobId, NEW t, Heartbeat(j, t)
    PROVE  /\ runner_jobs'[j].state = "leased" /\ runner_jobs'[j].token = t
           /\ runner_jobs'[j].ttl = LeaseTTL
<1>1. runner_jobs[j] \in JobRow /\ runner_jobs'[j] = Extended(runner_jobs[j])
  BY Zenon DEF Heartbeat, TypeOK
<1>2. runner_jobs'[j].ttl = LeaseTTL
  BY <1>1, Zenon DEF Extended, JobRow
<1> QED
  BY <1>1, <1>2, ExtendedRow DEF Heartbeat, Holds

(* A tick takes one off a lease that is held. *)
LEMMA TickWrites ==
    ASSUME TypeOK, NEW j \in JobId, NEW t, Holds(j, t), Pass
    PROVE  /\ runner_jobs'[j].state = "leased" /\ runner_jobs'[j].token = t
           /\ runner_jobs'[j].ttl = runner_jobs[j].ttl - 1
<1>1. runner_jobs[j] \in JobRow /\ runner_jobs[j].ttl \in Int
  BY DEF TypeOK, JobRow
<1>2. Running(runner_jobs[j])
  BY <1>1 DEF Running, Holds
<1>3. runner_jobs'[j] = Older(runner_jobs[j])
  BY <1>2, Zenon DEF Pass
<1> QED
  BY <1>1, <1>3, OlderRow, SMTT(20) DEF Holds

-----------------------------------------------------------------------------
(* Leases are kept                                                         *)

(* The heartbeats a slot missed leave it a tick of the lease. *)
Fresh(w) == \A skew \in Skew \cup {0} : slots[w].lost + 1 < LeaseTTL + skew

(* The lease outlasts the next beat of its slot: since the last heartbeat  *)
(* that arrived, the missed ones and the tick under way have passed.       *)
Covered(w) ==
    LET row == runner_jobs[slots[w].job] IN
    /\ row.state = "leased" /\ row.token = slots[w].token
    /\ \E skew \in Skew \cup {0} :
          row.ttl + slots[w].lost + 1 >= LeaseTTL + skew + slots[w].beat

KeptInv ==
    \A w \in Slot :
        slots[w].phase = "working" /\ Fresh(w)
        => Covered(w) \/ runner_jobs[slots[w].job].state = "cancelled"

(* A lease so covered is held. *)
LEMMA CoveredHolds ==
    ASSUME TypeOK, SlotInv, NEW w \in Slot, slots[w].phase = "working",
           Fresh(w), Covered(w)
    PROVE  Holds(slots[w].job, slots[w].token)
<1> DEFINE row == runner_jobs[slots[w].job]
<1>1. row.ttl \in Int /\ slots[w].lost \in Nat /\ slots[w].beat \in Nat
  BY DEF TypeOK, JobRow, SlotInv, Issued, SlotRow
<1>2. PICK skew \in Skew \cup {0} :
          row.ttl + slots[w].lost + 1 >= LeaseTTL + skew + slots[w].beat
  BY DEF Covered
<1>3. skew \in Int /\ LeaseTTL \in Int /\ slots[w].lost + 1 < LeaseTTL + skew
  BY SkewAssumption, TTLAssumption, SMTT(20) DEF Fresh
<1>4. row.ttl > 0
  BY <1>1, <1>2, <1>3, SMTT(20)
<1> QED
  BY <1>4 DEF Covered, Holds

(* A step that leaves the slot and the row alone keeps the lease covered. *)
LEMMA LeftCovered ==
    ASSUME NEW w \in Slot, Covered(w), RowLeft(slots[w].job),
           slots'[w].job = slots[w].job, slots'[w].token = slots[w].token,
           slots'[w].beat = slots[w].beat, slots'[w].lost = slots[w].lost
    PROVE  Covered(w)' \/ runner_jobs'[slots'[w].job].state = "cancelled"
BY SMTT(20) DEF Covered, RowLeft

(* One working slot after the step of another one or of a user. *)
LEMMA KeptByOthers ==
    ASSUME TypeOK, SlotInv, LeaseNotShared, NEW w \in Slot,
           slots[w].phase = "working", Fresh(w), Covered(w),
           slots'[w] = slots[w], [AgentNext]_agentVars, ~ AgentTick,
           \A v \in Slot : (\/ HeartbeatAccepted(v) \/ HeartbeatLost(v)
                            \/ Report(v) \/ ReportStopped(v)) => v # w
    PROVE  Covered(w)' \/ runner_jobs'[slots'[w].job].state = "cancelled"
<1> DEFINE j == slots[w].job
           t == slots[w].token
<1>1. j \in JobId /\ Holds(j, t)
  BY CoveredHolds, SMTT(20) DEF SlotInv, Issued
<1>2. ASSUME NEW v \in Slot, v # w, slots[v].phase # "polling",
             \/ Heartbeat(slots[v].job, slots[v].token)
             \/ Complete(slots[v].job, slots[v].token)
      PROVE  RowLeft(j)
  <2>1. slots[v].job # j \/ slots[v].token # t
    BY <1>2, SMTT(20) DEF LeaseNotShared
  <2>2. slots[v].job \in JobId
    BY <1>2, SMTT(20) DEF SlotInv, Issued
  <2> QED
    BY <1>1, <1>2, <2>1, <2>2, OthersLeave, SMTT(20)
<1>3. ASSUME UNCHANGED vars PROVE RowLeft(j)
  BY <1>3 DEF vars, RowLeft
<1>4. ASSUME NEW v \in Slot, HeartbeatAccepted(v) \/ HeartbeatLost(v)
      PROVE  RowLeft(j)
  BY <1>2, <1>3, <1>4, ZenonT(30) DEF HeartbeatAccepted, HeartbeatLost, Due
<1>5. ASSUME NEW v \in Slot, Report(v) PROVE RowLeft(j)
  BY <1>2, <1>3, <1>5, SMTT(20) DEF Report
<1>6. ASSUME NEW v \in Slot, ReportStopped(v) PROVE RowLeft(j)
  <2>1. slots[v].phase # "polling" /\ v # w
    BY <1>6 DEF ReportStopped
  <2>2. UNCHANGED vars \/ Complete(slots[v].job, slots[v].token)
    BY <1>6, Zenon DEF ReportStopped, Complete, Outcome
  <2> QED
    BY <1>2, <1>3, <2>1, <2>2, SMTT(20)
<1>7. ASSUME NEW v \in Slot,
             HeartbeatRefused(v) \/ Timeout(v) \/ Compute(v) \/ GiveUp(v)
      PROVE  RowLeft(j)
  BY <1>3, <1>7, SMTT(20) DEF HeartbeatRefused, Timeout, Compute, GiveUp
<1>8. ASSUME NEW v \in Slot, Poll(v) PROVE RowLeft(j)
  BY <1>1, <1>8, PollLeaves, SMTT(20)
<1>9. ASSUME User PROVE RowLeft(j)
  BY <1>1, <1>9, UserLeaves, SMTT(20)
<1>10. ASSUME UNCHANGED agentVars PROVE RowLeft(j)
  BY <1>3, <1>10, SMTT(20) DEF agentVars, vars
<1>11. RowLeft(j)
  BY <1>4, <1>5, <1>6, <1>7, <1>8, <1>9, <1>10, SMTT(20) DEF AgentNext
<1> QED
  BY <1>11, LeftCovered, SMTT(20)

(* Safe is what KeptInv says of a fresh slot. *)
Safe(w) == Covered(w) \/ runner_jobs[slots[w].job].state = "cancelled"

(* A lease starts out covered, up to the clock skew it started with. *)
LEMMA KeptByTake ==
    ASSUME TypeOK, NEW w \in Slot, Takes(w)
    PROVE  Safe(w)'
<1>1. PICK j \in JobId, skew \in Skew :
          /\ LeaseJob(RunnerOf[w], j, skew)
          /\ slots'[w] = Working(j, Len(job_leases[j]) + 1)
  BY DEF Takes
<1>2. RunnerOf[w] \in Runner /\ Len(job_leases[j]) + 1 \in Nat
  BY SlotAssumption, SMTT(20) DEF TypeOK
<1>3. /\ runner_jobs'[j].state = "leased"
      /\ runner_jobs'[j].token = Len(job_leases[j]) + 1
      /\ runner_jobs'[j].ttl = LeaseTTL + skew
  BY <1>1, <1>2, LeaseWrites, SMTT(20)
<1>4. /\ slots'[w].job = j /\ slots'[w].token = Len(job_leases[j]) + 1
      /\ slots'[w].beat = 1 /\ slots'[w].lost = 0
  BY <1>1, <1>2, SlotRows
<1>5. LeaseTTL + skew \in Int
  BY TTLAssumption, SkewAssumption, SMTT(20)
<1>6. runner_jobs'[slots'[w].job].ttl + slots'[w].lost + 1
          >= LeaseTTL + skew + slots'[w].beat
  BY <1>3, <1>4, <1>5, SkewAssumption, TTLAssumption, SMTT(20)
<1> QED
  BY <1>3, <1>4, <1>6, SMTT(20) DEF Safe, Covered

(* A heartbeat that arrives covers the lease, also if its answer is lost. *)
LEMMA KeptByHeartbeat ==
    ASSUME TypeOK, SlotInv, NEW w \in Slot, slots[w].phase = "working",
           Heartbeat(slots[w].job, slots[w].token),
           slots'[w].job = slots[w].job, slots'[w].token = slots[w].token,
           slots'[w].lost \in Nat, slots'[w].beat \in Nat,
           slots'[w].lost + 1 >= slots'[w].beat
    PROVE  Safe(w)'
<1> DEFINE j == slots[w].job
<1>1. j \in JobId
  BY SMTT(20) DEF SlotInv, Issued
<1>2. /\ runner_jobs'[j].state = "leased" /\ runner_jobs'[j].token = slots[w].token
      /\ runner_jobs'[j].ttl = LeaseTTL
  BY <1>1, HeartbeatWrites, SMTT(20)
<1>3. runner_jobs'[j].ttl + slots'[w].lost + 1 >= LeaseTTL + 0 + slots'[w].beat
  BY <1>2, TTLAssumption, SMTT(20)
<1> QED
  BY <1>2, <1>3, SMTT(20) DEF Safe, Covered

(* The slot and the lease grow older together. *)
LEMMA KeptByTime ==
    ASSUME TypeOK, SlotInv, NEW w \in Slot, slots[w].phase = "working",
           Fresh(w), Covered(w), AgentTick
    PROVE  Safe(w)'
<1> DEFINE j == slots[w].job
<1>1. j \in JobId /\ Holds(j, slots[w].token)
  BY CoveredHolds, SMTT(20) DEF SlotInv, Issued
<1>2. /\ slots'[w].job = j /\ slots'[w].token = slots[w].token
      /\ slots'[w].beat = slots[w].beat - 1 /\ slots'[w].lost = slots[w].lost
  BY TickSlots DEF GoesOn
<1>3. /\ runner_jobs'[j].state = "leased" /\ runner_jobs'[j].token = slots[w].token
      /\ runner_jobs'[j].ttl = runner_jobs[j].ttl - 1
  <2>1. Pass
    BY Zenon DEF AgentTick
  <2> QED
    BY <1>1, <2>1, TickWrites, Zenon
<1>4. runner_jobs[j].ttl \in Int /\ slots[w].lost \in Nat /\ slots[w].beat \in Nat
  BY <1>1, SMTT(20) DEF TypeOK, JobRow, SlotInv, SlotRow
<1>5. PICK skew \in Skew \cup {0} :
          runner_jobs[j].ttl + slots[w].lost + 1 >= LeaseTTL + skew + slots[w].beat
  BY SMTT(20) DEF Covered
<1>6. runner_jobs'[j].ttl + slots'[w].lost + 1 >= LeaseTTL + skew + slots'[w].beat
  BY <1>2, <1>3, <1>4, <1>5, TTLAssumption, SkewAssumption, SMTT(20)
<1> QED
  BY <1>2, <1>3, <1>6, SMTT(20) DEF Safe, Covered

(* A heartbeat that is due and lost: the beat was at 0, so the lease       *)
(* covers the next one as far as the missed ones leave it time.            *)
LEMMA KeptByLoss ==
    ASSUME TypeOK, SlotInv, KeptInv, NEW w \in Slot, HeartbeatLost(w),
           Fresh(w)', [Next]_vars
    PROVE  Safe(w)'
<1> DEFINE j == slots[w].job
<1>1. PICK n \in 1 .. slots[w].left : Become(w, Missed(slots[w], n))
  BY MissedStep
<1>2. slots[w] \in SlotRow /\ slots[w].phase = "working" /\ slots[w].beat = 0
  BY DEF SlotInv, HeartbeatLost, Due
<1>3. slots[w].left \in Nat /\ slots[w].lost \in Nat /\ j \in JobId
  BY <1>2 DEF SlotRow, SlotInv, Issued
<1>4. n \in Nat
  BY <1>3
<1>5. slots'[w] = Missed(slots[w], n)
  BY <1>1, SMTT(20) DEF Become, SlotInv
<1>6. /\ slots'[w].job = j /\ slots'[w].token = slots[w].token
      /\ slots'[w].beat = n /\ slots'[w].lost = slots[w].lost + n
  <2>1. /\ SameLease(slots[w], slots'[w])
        /\ slots'[w].beat = n /\ slots'[w].lost = slots[w].lost + n
    BY <1>2, <1>4, <1>5, Updates, SMTT(20)
  <2> QED
    BY <2>1, SMTT(20) DEF SameLease
<1>7. CASE Heartbeat(j, slots[w].token)
  BY <1>2, <1>3, <1>4, <1>6, <1>7, KeptByHeartbeat, SMTT(20)
<1>8. CASE UNCHANGED vars
  <2>1. \A skew \in Skew \cup {0} :
            slots[w].lost + n + 1 < LeaseTTL + skew => slots[w].lost + 1 < LeaseTTL + skew
    BY <1>3, <1>4, TTLAssumption, SkewAssumption, SMTT(20)
  <2>2. Fresh(w)
    BY <1>6, <2>1, SMTT(20) DEF Fresh
  <2>3. CASE runner_jobs[j].state = "cancelled"
    BY <1>3, <1>6, <2>3, StaysCancelled, SMTT(20) DEF Safe
  <2>4. CASE Covered(w)
    <3>1. PICK skew \in Skew \cup {0} :
              runner_jobs[j].ttl + slots[w].lost + 1 >= LeaseTTL + skew + slots[w].beat
      BY <2>4, SMTT(20) DEF Covered
    <3>2. runner_jobs[j].ttl \in Int
      BY <1>3 DEF TypeOK, JobRow
    <3>3. runner_jobs' = runner_jobs
      BY <1>8, SMTT(20) DEF vars
    <3>4. runner_jobs'[j].ttl + slots'[w].lost + 1 >= LeaseTTL + skew + slots'[w].beat
      BY <1>2, <1>3, <1>4, <1>6, <3>1, <3>2, <3>3, TTLAssumption, SkewAssumption, SMTT(20)
    <3> QED
      BY <1>6, <2>4, <3>3, <3>4, SMTT(20) DEF Safe, Covered
  <2> QED
    BY <1>2, <2>2, <2>3, <2>4, SMTT(20) DEF KeptInv
<1> QED
  BY <1>7, <1>8 DEF HeartbeatLost

(* The steps of a slot under its own lease. *)
LEMMA KeptByOwn ==
    ASSUME TypeOK, SlotInv, KeptInv, [Next]_vars, NEW w \in Slot,
           slots'[w].phase = "working", Fresh(w)',
           \/ Poll(w) \/ HeartbeatAccepted(w) \/ HeartbeatRefused(w)
           \/ HeartbeatLost(w) \/ Timeout(w) \/ Compute(w)
           \/ Report(w) \/ ReportStopped(w) \/ GiveUp(w)
    PROVE  Safe(w)'
<1> DEFINE old == slots[w]
<1>0. old \in SlotRow
  BY DEF SlotInv
<1>1. CASE Poll(w)
  <2>1. Takes(w)
    BY <1>1, PollSlots DEF Poll
  <2> QED
    BY <2>1, KeptByTake, SMTT(20)
<1>2. CASE HeartbeatAccepted(w)
  <2>1. slots'[w] = Beaten(old) /\ old.phase = "working"
    BY <1>2, Zenon DEF HeartbeatAccepted, Become, Beaten, Due, SlotInv
  <2>2. SameLease(old, slots'[w]) /\ slots'[w].beat = 1 /\ slots'[w].lost = 0
    BY <1>0, <2>1, Updates, ZenonT(30)
  <2> QED
    BY <1>2, <2>1, <2>2, KeptByHeartbeat, SMTT(20) DEF HeartbeatAccepted, SameLease
<1>3. CASE HeartbeatRefused(w) \/ Timeout(w)
  <2>1. slots'[w] = Stopped(old)
    BY <1>3, Zenon DEF HeartbeatRefused, Timeout, Become, Stopped, SlotInv
  <2> QED
    BY <1>0, <2>1, Updates
<1>4. CASE HeartbeatLost(w)
  BY <1>4, KeptByLoss, SMTT(20)
<1>5. CASE Compute(w)
  <2>1. slots'[w] = Computed(old) /\ old.phase = "working"
    BY <1>5, Zenon DEF Compute, Become, Computed, SlotInv
  <2>2. /\ SameLease(old, slots'[w])
        /\ slots'[w].beat = old.beat /\ slots'[w].lost = old.lost
    BY <1>0, <2>1, Updates, Zenon
  <2>3. Fresh(w)
    BY <2>2 DEF Fresh
  <2>4. old.job \in JobId /\ runner_jobs' = runner_jobs
    BY <1>5, <2>1, SMTT(20) DEF Compute, vars, SlotInv, Issued
  <2>5. CASE runner_jobs[old.job].state = "cancelled"
    BY <2>2, <2>4, <2>5, SMTT(20) DEF Safe, SameLease
  <2>6. CASE Covered(w)
    BY <2>2, <2>4, <2>6, LeftCovered, Zenon DEF Safe, SameLease, RowLeft
  <2> QED
    BY <2>1, <2>3, <2>5, <2>6, SMTT(20) DEF KeptInv
<1>6. CASE Report(w) \/ ReportStopped(w) \/ GiveUp(w)
  BY <1>6, EndingSlots, SlotRows, SMTT(20)
<1> QED
  BY <1>1, <1>2, <1>3, <1>4, <1>5, <1>6, SMTT(20)

(* Every step keeps the leases of fresh slots. *)
LEMMA KeptStep ==
    ASSUME TypeOK, SlotInv, LeaseNotShared, KeptInv, [AgentNext]_agentVars
    PROVE  KeptInv'
<1> SUFFICES ASSUME NEW w \in Slot, slots'[w].phase = "working", Fresh(w)'
             PROVE  Safe(w)'
  BY DEF KeptInv, Safe
<1>0. [Next]_vars
  BY AgentCalls, SMTT(20)
<1> DEFINE Own == \/ Poll(w) \/ HeartbeatAccepted(w) \/ HeartbeatRefused(w)
                  \/ HeartbeatLost(w) \/ Timeout(w) \/ Compute(w)
                  \/ Report(w) \/ ReportStopped(w) \/ GiveUp(w)
<1>1. CASE Own
  BY <1>0, <1>1, KeptByOwn, SMTT(20)
<1>2. ASSUME slots[w].phase = "working", Fresh(w), slots'[w].job = slots[w].job,
             runner_jobs[slots[w].job].state = "cancelled"
      PROVE  Safe(w)'
  BY <1>0, <1>2, StaysCancelled, SMTT(20) DEF Safe, SlotInv, Issued
<1>3. CASE AgentTick
  <2>1. /\ slots[w].phase = "working" /\ slots'[w].job = slots[w].job
        /\ slots'[w].lost = slots[w].lost
    BY <1>3, TickSlots DEF GoesOn
  <2>2. Fresh(w)
    BY <2>1 DEF Fresh
  <2>3. CASE Covered(w)
    BY <1>3, <2>1, <2>2, <2>3, KeptByTime, SMTT(20)
  <2> QED
    BY <1>2, <2>1, <2>2, <2>3, SMTT(20) DEF KeptInv
<1>4. CASE ~ Own /\ ~ AgentTick
  <2>1. slots'[w] = slots[w]
    <3>1. ASSUME NEW v \in Slot, v # w,
                 \/ Poll(v) \/ HeartbeatAccepted(v) \/ HeartbeatRefused(v)
                 \/ HeartbeatLost(v) \/ Timeout(v) \/ Compute(v)
                 \/ Report(v) \/ ReportStopped(v) \/ GiveUp(v)
          PROVE  slots'[w] = slots[w]
      <4>1. OthersKept(v)
        BY <3>1, PollSlots, WorkingSlots, EndingSlots, SMTT(20)
      <4> QED
        BY <3>1, <4>1, SMTT(20) DEF OthersKept
    <3> QED
      BY <1>4, <3>1, SMTT(20) DEF AgentNext, agentVars
  <2>2. slots[w].phase = "working" /\ Fresh(w)
    BY <2>1, SMTT(20) DEF Fresh
  <2>3. CASE Covered(w)
    <3>1. \A v \in Slot : (\/ HeartbeatAccepted(v) \/ HeartbeatLost(v)
                           \/ Report(v) \/ ReportStopped(v)) => v # w
      BY <1>4, SMTT(20)
    <3> QED
      BY <1>4, <2>1, <2>2, <2>3, <3>1, KeptByOthers, ZenonT(30) DEF Safe
  <2> QED
    BY <1>2, <2>1, <2>2, <2>3, SMTT(20) DEF KeptInv
<1> QED
  BY <1>1, <1>3, <1>4, SMTT(20)

-----------------------------------------------------------------------------
(* Theorems                                                                *)

(* TypeOK: the tables, SlotInv: the leases the slots have, LeaseNotShared  *)
(* and KeptInv: whose they are and how long they last.                     *)
AgentInv == TypeOK /\ SlotInv /\ LeaseNotShared /\ KeptInv

(* Nobody works at first. *)
LEMMA AgentInvInit == AgentInit => AgentInv
<1> SUFFICES ASSUME AgentInit PROVE AgentInv
  OBVIOUS
<1>1. TypeOK
  BY TypeInit DEF AgentInit
<1>2. \A w \in Slot : slots[w] = Polling
  BY DEF AgentInit
<1>3. slots \in [Slot -> SlotRow]
  BY SlotRows DEF AgentInit
<1> QED
  BY <1>1, <1>2, <1>3, SlotRows
     DEF AgentInv, SlotInv, Issued, LeaseNotShared, KeptInv

(* Every step of agents, users and time keeps the invariant. *)
LEMMA AgentInvStep == AgentInv /\ [AgentNext]_agentVars => AgentInv'
BY AgentCalls, TypeStep, SlotInvStep, NotSharedStep, KeptStep, SMTT(20) DEF AgentInv

(* The invariant holds always. *)
LEMMA AgentInvariant == AgentSpec => []AgentInv
BY AgentInvInit, AgentInvStep, PTL DEF AgentSpec

(* The agents use the queue as it allows: what is proved of DefenseQueue   *)
(* for arbitrary calls holds for the calls that agents make.               *)
THEOREM AgentsUseQueue == AgentSpec => Spec
<1>1. AgentInit => Init
  BY DEF AgentInit
<1>2. AgentInv /\ [AgentNext]_agentVars => [Next]_vars
  BY AgentCalls DEF AgentInv
<1> QED
  BY <1>1, <1>2, AgentInvariant, PTL DEF AgentSpec, Spec

(* Two slots never work under the same lease: the token of a lease is      *)
(* returned by Lease to one caller, and never again.                       *)
THEOREM LeaseNotSharedCorrect == AgentSpec => []LeaseNotShared
<1>1. AgentInv => LeaseNotShared
  BY SMTT(20) DEF AgentInv
<1> QED
  BY <1>1, AgentInvariant, PTL

(* A slot whose missed heartbeats leave a tick of the lease keeps it,      *)
(* whatever the other slots, the users and the clocks do: the reaper of    *)
(* Lease does not take it and no other heartbeat or completion fits it.    *)
THEOREM LeaseKeptCorrect == AgentSpec => []LeaseKept
<1>1. ASSUME AgentInv PROVE LeaseKept
  BY <1>1, CoveredHolds DEF AgentInv, KeptInv, Fresh, LeaseKept
<1>2. AgentInv => LeaseKept
  BY <1>1
<1> QED
  BY <1>2, AgentInvariant, PTL
=============================================================================
