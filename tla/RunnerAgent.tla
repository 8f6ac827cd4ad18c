---------------------------- MODULE RunnerAgent -----------------------------
(***************************************************************************)
(* The runner agents (backend/internal/runner/agent.go, backend_client.go) *)
(* on top of the queue they lease from.                                    *)
(*                                                                         *)
(* An agent runs one worker loop per slot.  A slot polls for a lease, then *)
(* works on the job with a heartbeat loop beside it, and reports a result  *)
(* at most once.  The unit of time is the 30 seconds of the heartbeat      *)
(* ticker; a lease of two minutes is 4 ticks and the job timeout of five   *)
(* minutes is 10.  A live agent reacts within a tick: time does not pass a *)
(* heartbeat or a timeout that is due.                                     *)
(*                                                                         *)
(* Faults: the answer to a lease request is lost, a heartbeat request      *)
(* fails or hangs, the backend answers a heartbeat with an error although  *)
(* the lease is good, a slot gives up without reporting, an agent dies.    *)
(***************************************************************************)
EXTENDS DefenseQueue

CONSTANTS
    Slot,         \* worker loops of all agents
    RunnerOf,     \* the runner id a slot's agent leases with
    JobTimeout    \* config.Timeout, in ticks

ASSUME SlotAssumption == RunnerOf \in [Slot -> Runner]
ASSUME TimeoutAssumption == JobTimeout \in Nat \ {0}

VARIABLE slots

agentVars == <<defenses, check_attempts, runner_jobs, job_leases, appliedBy,
               slots>>

-----------------------------------------------------------------------------

(* A slot is stopped when the context of its job is done.  done: the       *)
(* result is computed, the context matters no more; left, beat: ticks      *)
(* until the context times out and until the heartbeat loop acts again;    *)
(* lost: heartbeats missed since the last that arrived.                    *)
Polling == [phase |-> "polling", job |-> None, token |-> 0, done |-> FALSE,
            left |-> 0, beat |-> 0, lost |-> 0]

Working(j, t) == [phase |-> "working", job |-> j, token |-> t, done |-> FALSE,
                  left |-> JobTimeout, beat |-> 1, lost |-> 0]

AgentInit == Init /\ slots = [w \in Slot |-> Polling]

Become(w, state) == slots' = [slots EXCEPT ![w] = state]

PollMutant(w) ==
    /\ slots[w].phase = "polling"
    /\ \/ \E j \in JobId, skew \in Skew :
            /\ LeaseJob(RunnerOf[w], j, skew)
            /\ Become(w, Working(j, 1))
       \/ LeaseNothing /\ UNCHANGED slots

(* The answer to the lease request may be lost once the lease is taken.    *)
Poll(w) ==
    /\ slots[w].phase = "polling"
    /\ \/ \E j \in JobId, skew \in Skew :
            /\ LeaseJob(RunnerOf[w], j, skew)
            /\ \/ Become(w, Working(j, Len(job_leases[j]) + 1))
               \/ UNCHANGED slots
       \/ LeaseNothing /\ UNCHANGED slots

Due(w) == slots[w].phase = "working" /\ slots[w].beat = 0 /\ slots[w].left > 0

HeartbeatAccepted(w) ==
    /\ Due(w)
    /\ Heartbeat(slots[w].job, slots[w].token)
    /\ Become(w, [slots[w] EXCEPT !.beat = 1, !.lost = 0])

(* Any answer but 204 cancels the job's context.  The backend answers so   *)
(* when the lease is lost, and also when the update itself fails.          *)
HeartbeatRefused(w) ==
    /\ Due(w)
    /\ Become(w, [slots[w] EXCEPT !.phase = "stopped"])
    /\ UNCHANGED vars

(* A request that fails is ignored, even if the backend has served it.     *)
(* The loop waits for it, so one that hangs for n periods costs n beats.   *)
HeartbeatLost(w) ==
    /\ Due(w)
    /\ \E n \in 1 .. slots[w].left :
            Become(w, [slots[w] EXCEPT !.beat = n, !.lost = @ + n])
    /\ UNCHANGED vars \/ Heartbeat(slots[w].job, slots[w].token)

HeartbeatLoop(w) ==
    HeartbeatAccepted(w) \/ HeartbeatRefused(w) \/ HeartbeatLost(w)

Timeout(w) ==
    /\ slots[w].phase = "working" /\ slots[w].left = 0
    /\ Become(w, [slots[w] EXCEPT !.phase = "stopped"])
    /\ UNCHANGED vars

(* The job is through.  The report is sent with the agent's own context,   *)
(* so it goes out even if the context of the job ends before it.           *)
Compute(w) ==
    /\ slots[w].phase = "working" /\ ~ slots[w].done
    /\ Become(w, [slots[w] EXCEPT !.done = TRUE])
    /\ UNCHANGED vars

(* The only report: served, refused or lost, the slot polls again. *)
Report(w) ==
    /\ slots[w].phase # "polling" /\ slots[w].done
    /\ Complete(slots[w].job, slots[w].token) \/ UNCHANGED vars
    /\ Become(w, Polling)

(* What is left to report when the context ended first: the worker was     *)
(* killed, or the sandbox stopped before all three stages were through,    *)
(* which counts as a timeout of the student's code.                        *)
ReportStopped(w) ==
    LET j == slots[w].job
        t == slots[w].token IN
    /\ slots[w].phase = "stopped" /\ ~ slots[w].done
    /\ \/ CompleteHide(j, t, FALSE)
       \/ CompletePrepareError(j, t)
       \/ \E outcome \in {"failed", "error"} : CompleteCheck(j, t, outcome)
       \/ UNCHANGED vars
    /\ Become(w, Polling)

(* An error before the job starts, a shutdown or a crash and restart: the  *)
(* slot polls again without a report and the lease runs out.               *)
GiveUp(w) ==
    /\ slots[w].phase # "polling"
    /\ Become(w, Polling)
    /\ UNCHANGED vars

AgentTick ==
    /\ \/ \E d \in DefenseId : Counting(defenses[d])
       \/ \E j \in JobId : Running(runner_jobs[j])
       \/ \E w \in Slot : slots[w].phase = "working"
    /\ \A w \in Slot : slots[w].phase = "working"
                          => slots[w].beat > 0 /\ slots[w].left > 0
    /\ Pass
    /\ slots' = [w \in Slot |->
            IF slots[w].phase = "working"
            THEN [slots[w] EXCEPT !.beat = @ - 1, !.left = @ - 1]
            ELSE slots[w]]

User ==
    \/ \E s \in Submission, k \in Key : Create(s, k)
    \/ \E d \in DefenseId : Get(d) \/ Cancel(d)
    \/ \E d \in DefenseId, l \in Limit : Configure(d, l) \/ ConfigureHide(d, l)
    \/ \E d \in DefenseId, k \in Key : Attempt(d, k)

AgentNext ==
    \/ User /\ UNCHANGED slots
    \/ \E w \in Slot : \/ Poll(w) \/ HeartbeatAccepted(w) \/ HeartbeatRefused(w)
                       \/ HeartbeatLost(w) \/ Timeout(w) \/ Compute(w)
                       \/ Report(w) \/ ReportStopped(w) \/ GiveUp(w)
    \/ AgentTick

(* Agents are restarted and keep polling, a live one beats, times out and  *)
(* reports, and time passes.  Nobody has to finish a job in time.          *)
Fairness ==
    /\ WF_agentVars(AgentTick)
    /\ \A w \in Slot :
          /\ WF_agentVars(Poll(w))
          /\ WF_agentVars(HeartbeatLoop(w))
          /\ WF_agentVars(Timeout(w))
          /\ WF_agentVars(Report(w))
          /\ WF_agentVars(ReportStopped(w))

AgentSpec == AgentInit /\ [][AgentNext]_agentVars
FairAgentSpec == AgentSpec /\ Fairness

-----------------------------------------------------------------------------
(* Properties                                                              *)

(* Two slots never work under the same lease, although they may work on    *)
(* the same job after a lease ran out.                                     *)
LeaseNotShared ==
    \A v, w \in Slot :
        /\ slots[v].phase # "polling" /\ slots[w].phase # "polling"
        /\ slots[v].job = slots[w].job /\ slots[v].token = slots[w].token
        => v = w

(* A working slot keeps its lease through lost heartbeats, as long as the  *)
(* ones missed in a row and the one before leave a tick of the two minutes *)
(* (and of the clock skew the lease started with).  Only a cancellation    *)
(* takes the job from it earlier.                                          *)
LeaseKept ==
    \A w \in Slot :
        /\ slots[w].phase = "working"
        /\ \A skew \in Skew \cup {0} : slots[w].lost + 1 < LeaseTTL + skew
        => \/ Holds(slots[w].job, slots[w].token)
           \/ runner_jobs[slots[w].job].state = "cancelled"

(* Whatever the agents do, work ends: a preparation with a result or, once *)
(* the retries of its job are used up, with an error; and every accepted   *)
(* attempt with a verdict.                                                 *)
WorkEnds ==
    /\ \A d \in DefenseId :
          defenses[d].status = "preparing" ~> defenses[d].status # "preparing"
    /\ \A a \in AttemptId :
          check_attempts[a].outcome = "pending" ~> check_attempts[a].outcome # "pending"
=============================================================================
