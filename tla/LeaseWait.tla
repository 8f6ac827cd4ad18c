----------------------------- MODULE LeaseWait ------------------------------
(***************************************************************************)
(* The long poll for jobs (backend/internal/infrastructure/postgres/       *)
(* runner_wait.go) and the trigger that wakes it (migrations/000015).      *)
(*                                                                         *)
(* A waiter is one call of LeaseWaiting.  It subscribes on a connection of *)
(* its own, then alternates between a lease transaction and waiting for a  *)
(* notification, for a second at most.  The transaction is two steps here: *)
(* what it locks, and its commit or rollback, because FOR UPDATE SKIP      *)
(* LOCKED lets another waiter look past a job that then stays queued.      *)
(* What a lease writes, and the end of the retries, are DefenseQueue's.    *)
(***************************************************************************)
EXTENDS Integers

CONSTANTS
    Waiter,
    JobId,
    Nobody,
    MaxPending,  \* bound on buffered notifications
    MaxFaults    \* bound on rollbacks, lost connections and expired leases

ASSUME WaitAssumption == MaxPending \in Nat \ {0} /\ MaxFaults \in Nat
ASSUME NobodyAssumption == Nobody \notin JobId \cup Waiter

VARIABLES
    phase,      \* where each waiter is
    listening,  \* waiters whose connection has executed LISTEN
    pending,    \* notifications buffered on that connection
    picked,     \* the job a waiter's open transaction has selected
    queue,      \* state of each job
    lock,       \* the waiter whose open transaction holds a job's row
    unannounced,\* history: jobs put back by a rollback, which notifies nobody
    faults

waitVars == <<phase, listening, pending, picked, queue, lock, unannounced, faults>>

Phase == {"idle", "connect", "query", "once", "commit", "wait"}

WaitInit ==
    /\ phase = [w \in Waiter |-> "idle"]
    /\ listening = {}
    /\ pending = [w \in Waiter |-> 0]
    /\ picked = [w \in Waiter |-> Nobody]
    /\ queue = [j \in JobId |-> "none"]
    /\ lock = [j \in JobId |-> Nobody]
    /\ unannounced = {}
    /\ faults = 0

(* pg_notify reaches the sessions that listen when the transaction commits *)
Notify == pending' = [w \in Waiter |-> IF w \in listening /\ pending[w] < MaxPending
                                       THEN pending[w] + 1 ELSE pending[w]]

Goto(w, p) == phase' = [phase EXCEPT ![w] = p]

(* The call is over: its connection and what is buffered on it are gone. *)
Return(w) ==
    /\ Goto(w, "idle")
    /\ listening' = listening \ {w}

Fault == faults < MaxFaults /\ faults' = faults + 1

(* A defense needs a job. *)
Insert(j) ==
    /\ queue[j] = "none"
    /\ queue' = [queue EXCEPT ![j] = "queued"]
    /\ Notify
    /\ UNCHANGED <<phase, listening, picked, lock, unannounced, faults>>

(* Nobody is told that a lease has run out. *)
Expire(j) ==
    /\ queue[j] = "leased" /\ lock[j] = Nobody
    /\ queue' = [queue EXCEPT ![j] = "overdue"]
    /\ Fault
    /\ UNCHANGED <<phase, listening, pending, picked, lock, unannounced>>

(* With no time to wait the call makes one lease query and no connection.  *)
Call(w) ==
    /\ phase[w] = "idle"
    /\ Goto(w, "connect") \/ Goto(w, "once")
    /\ pending' = [pending EXCEPT ![w] = 0]
    /\ UNCHANGED <<listening, picked, queue, lock, unannounced, faults>>

ListenMutant(w) ==
    /\ phase[w] = "connect"
    /\ Goto(w, "wait")
    /\ listening' = listening \cup {w}
    /\ UNCHANGED <<pending, picked, queue, lock, unannounced, faults>>

Listen(w) ==
    /\ phase[w] = "connect"
    /\ Goto(w, "query")
    /\ listening' = listening \cup {w}
    /\ UNCHANGED <<pending, picked, queue, lock, unannounced, faults>>

(* Without a subscription, too, the call makes one lease query. *)
ListenFails(w) ==
    /\ phase[w] = "connect"
    /\ Goto(w, "once")
    /\ Fault
    /\ UNCHANGED <<listening, pending, picked, queue, lock, unannounced>>

OverdueMutant == {}

Overdue == {j \in JobId : queue[j] = "overdue"}

Free == {j \in JobId : (queue[j] = "queued" \/ j \in Overdue) /\ lock[j] = Nobody}

(* The reaping update waits for rows another transaction is reaping; then  *)
(* the select takes a job that is queued, or was just reaped, and free.    *)
Select(w) ==
    /\ phase[w] \in {"query", "once"}
    /\ \A j \in Overdue : lock[j] = Nobody
    /\ \E j \in Free :
        /\ picked' = [picked EXCEPT ![w] = j]
        /\ lock' = [i \in JobId |-> IF i = j \/ i \in Overdue THEN w ELSE lock[i]]
    /\ Goto(w, "commit")
    /\ UNCHANGED <<listening, pending, queue, unannounced, faults>>

(* Nothing to lease: wait, or answer 204 if the call does not listen. *)
SelectNothing(w) ==
    /\ phase[w] \in {"query", "once"}
    /\ Overdue = {}
    /\ Free = {}
    /\ IF phase[w] = "once" THEN Return(w)
                            ELSE Goto(w, "wait") /\ UNCHANGED listening
    /\ UNCHANGED <<pending, picked, queue, lock, unannounced, faults>>

Held(w) == {j \in JobId : lock[j] = w}

(* Reaped jobs that were not selected are announced by the trigger, and so *)
(* is a selected one that was reaped in the same transaction.              *)
Commit(w) ==
    /\ phase[w] = "commit"
    /\ queue' = [j \in JobId |-> IF j = picked[w] THEN "leased"
                                 ELSE IF lock[j] = w THEN "queued" ELSE queue[j]]
    /\ lock' = [j \in JobId |-> IF lock[j] = w THEN Nobody ELSE lock[j]]
    /\ picked' = [picked EXCEPT ![w] = Nobody]
    /\ unannounced' = unannounced \ Held(w)
    /\ IF Held(w) \cap Overdue # {} THEN Notify ELSE UNCHANGED pending
    /\ Return(w)
    /\ UNCHANGED faults

(* A statement or the commit fails: everything is as before, silently.     *)
Rollback(w) ==
    /\ phase[w] = "commit"
    /\ lock' = [j \in JobId |-> IF lock[j] = w THEN Nobody ELSE lock[j]]
    /\ picked' = [picked EXCEPT ![w] = Nobody]
    /\ unannounced' = unannounced \cup {j \in Held(w) : queue[j] = "queued"}
    /\ Fault
    /\ Return(w)
    /\ UNCHANGED <<pending, queue>>

Wake(w) ==
    /\ phase[w] = "wait" /\ pending[w] > 0
    /\ pending' = [pending EXCEPT ![w] = @ - 1]
    /\ Goto(w, "query")
    /\ UNCHANGED <<listening, picked, queue, lock, unannounced, faults>>

(* Once a second the query is repeated without a notification. *)
Reconcile(w) ==
    /\ phase[w] = "wait"
    /\ Goto(w, "query")
    /\ UNCHANGED <<listening, pending, picked, queue, lock, unannounced, faults>>

(* The wait is over, or the connection: no lease, and the agent calls again. *)
WaitOver(w) ==
    /\ phase[w] = "wait"
    /\ Return(w)
    /\ UNCHANGED <<pending, picked, queue, lock, unannounced, faults>>

WaitNext ==
    \/ \E j \in JobId : Insert(j) \/ Expire(j)
    \/ \E w \in Waiter :
          \/ Call(w) \/ Listen(w) \/ ListenFails(w)
          \/ Select(w) \/ SelectNothing(w) \/ Commit(w) \/ Rollback(w)
          \/ Wake(w) \/ Reconcile(w) \/ WaitOver(w)

WaitSpec == WaitInit /\ [][WaitNext]_waitVars

(* Agents call again, statements finish, the one-second timer fires. *)
WaitFairSpec ==
    /\ WaitSpec
    /\ \A w \in Waiter :
          /\ WF_waitVars(Call(w)) /\ WF_waitVars(Listen(w))
          /\ WF_waitVars(Select(w) \/ SelectNothing(w))
          /\ WF_waitVars(Commit(w)) /\ WF_waitVars(Reconcile(w) \/ WaitOver(w))
-----------------------------------------------------------------------------
(* Properties                                                              *)

(* Every waiter, buffer, row lock and job is in a state of its type.       *)
TypeOK ==
    /\ phase \in [Waiter -> Phase]
    /\ listening \subseteq Waiter
    /\ pending \in [Waiter -> 0 .. MaxPending]
    /\ picked \in [Waiter -> JobId \cup {Nobody}]
    /\ queue \in [JobId -> {"none", "queued", "leased", "overdue"}]
    /\ lock \in [JobId -> Waiter \cup {Nobody}]
    /\ unannounced \subseteq JobId
    /\ faults \in 0 .. MaxFaults

(* A committed insertion is never lost between querying and subscribing:   *)
(* while a job lies free in the queue, no waiter sleeps without a          *)
(* notification, unless a rollback put the job back without one.           *)
NoLostWakeup ==
    \A w \in Waiter, j \in JobId :
        /\ phase[w] = "wait" /\ pending[w] = 0
        /\ queue[j] = "queued" /\ lock[j] = Nobody
        => j \in unannounced

(* The row of a job is locked by exactly the transactions that are open:   *)
(* no lease is given out twice and no lock outlives its call.              *)
LocksAccounted ==
    /\ \A j \in JobId : lock[j] # Nobody => phase[lock[j]] = "commit"
    /\ \A w \in Waiter :
          phase[w] = "commit" => /\ picked[w] # Nobody
                                 /\ lock[picked[w]] = w
                                 /\ queue[picked[w]] \in {"queued", "overdue"}

(* The periodic query finds what no notification announces: every queued   *)
(* or overdue job is leased eventually, for as long as faults are finite.  *)
PickedUp ==
    \A j \in JobId : queue[j] \in {"queued", "overdue"} ~> queue[j] = "leased"
=============================================================================
