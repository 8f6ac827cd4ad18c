-------------------------- MODULE DefenseContract ---------------------------
(***************************************************************************)
(* What the backend promises about defenses and attempts, without jobs,    *)
(* leases, retries or clocks: the state diagram of docs/ARCHITECTURE.md    *)
(* and the rules next to it.  Every attempt gets exactly one verdict, a    *)
(* submission has one open defense at a time, a defense has one pending    *)
(* attempt at a time, and what has ended does not change.  DefenseQueue    *)
(* implements it.                                                          *)
(***************************************************************************)
CONSTANTS Submission, DefenseId, AttemptId, None

VARIABLES
    status,      \* status of each defense
    submission,  \* the submission version a defense is bound to
    verdict,     \* outcome of each attempt
    target       \* the defense an attempt belongs to

vars == <<status, submission, verdict, target>>

Open == {"preparing", "ready", "active"}

Pending(d) == {a \in AttemptId : target[a] = d /\ verdict[a] = "pending"}

Init ==
    /\ status = [d \in DefenseId |-> "none"]
    /\ submission = [d \in DefenseId |-> None]
    /\ verdict = [a \in AttemptId |-> "none"]
    /\ target = [a \in AttemptId |-> None]

(* A student starts a defense of a submission that has none open. *)
Begin(d, s) ==
    /\ status[d] = "none"
    /\ \A e \in DefenseId : submission[e] = s => status[e] \notin Open
    /\ status' = [status EXCEPT ![d] = "preparing"]
    /\ submission' = [submission EXCEPT ![d] = s]
    /\ UNCHANGED <<verdict, target>>

(* Preparation ends: candidates found, challenge ready, or failed. *)
Prepared(d, to) ==
    /\ status[d] = "preparing"
    /\ status' = [status EXCEPT ![d] = to]
    /\ UNCHANGED <<submission, verdict, target>>

Configured(d) ==
    /\ status[d] = "ready"
    /\ status' = [status EXCEPT ![d] = "preparing"]
    /\ UNCHANGED <<submission, verdict, target>>

Submit(a, d) ==
    /\ status[d] = "active"
    /\ Pending(d) = {}
    /\ verdict[a] = "none"
    /\ verdict' = [verdict EXCEPT ![a] = "pending"]
    /\ target' = [target EXCEPT ![a] = d]
    /\ UNCHANGED <<status, submission>>

(* The one verdict of an attempt; success passes an active defense. *)
Judge(a, v) ==
    /\ verdict[a] = "pending"
    /\ verdict' = [verdict EXCEPT ![a] = v]
    /\ status' = [status EXCEPT ![target[a]] =
                    IF v = "passed" /\ @ = "active" THEN "passed" ELSE @]
    /\ UNCHANGED <<submission, target>>

Expired(d) ==
    /\ status[d] = "active"
    /\ status' = [status EXCEPT ![d] = "expired"]
    /\ UNCHANGED <<submission, verdict, target>>

Cancelled(d) ==
    /\ status[d] \in Open
    /\ status' = [status EXCEPT ![d] = "cancelled"]
    /\ verdict' = [a \in AttemptId |->
                    IF a \in Pending(d) THEN "error" ELSE verdict[a]]
    /\ UNCHANGED <<submission, target>>

(* The infrastructure gives up on some preparations and some checks. *)
GiveUp(D, A) ==
    /\ \A d \in D : status[d] = "preparing"
    /\ \A a \in A : verdict[a] = "pending"
    /\ status' = [d \in DefenseId |-> IF d \in D THEN "error" ELSE status[d]]
    /\ verdict' = [a \in AttemptId |-> IF a \in A THEN "error" ELSE verdict[a]]
    /\ UNCHANGED <<submission, target>>

Next ==
    \/ \E d \in DefenseId, s \in Submission : Begin(d, s)
    \/ \E d \in DefenseId, to \in {"ready", "active", "error"} : Prepared(d, to)
    \/ \E d \in DefenseId : Configured(d) \/ Expired(d) \/ Cancelled(d)
    \/ \E a \in AttemptId, d \in DefenseId : Submit(a, d)
    \/ \E a \in AttemptId, v \in {"passed", "failed", "error"} : Judge(a, v)
    \/ \E D \in SUBSET DefenseId, A \in SUBSET AttemptId : GiveUp(D, A)

Spec == Init /\ [][Next]_vars
=============================================================================
