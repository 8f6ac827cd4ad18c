--------------------------- MODULE MCRunnerAgent ----------------------------
(* Instances of RunnerAgent for TLC.                                       *)
EXTENDS RunnerAgent

(* Every slot belongs to the one runner. *)
OneAgent == [w \in Slot |-> CHOOSE r \in Runner : TRUE]

(* A backend clock in step with the database, or a tick behind it. *)
Behind == -1 .. 0
=============================================================================
