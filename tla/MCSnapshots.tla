---------------------------- MODULE MCSnapshots -----------------------------
EXTENDS Snapshots, TLC

CONSTANTS s1, s2, a1, a2, k1, k2

(* Both slots in one process, which share its proofs, or one in each of    *)
(* two processes, which fail alone.                                        *)
MCPlacement == {s1 :> a1 @@ s2 :> a1, s1 :> a1 @@ s2 :> a2}

(* The jobs of one defense, beside the preparation of another.  A match    *)
(* verifies the original as a preparation does.                            *)
MCTask == ({"match", "attempt", "hide"} \X {k1}) \cup {<<"prepare", k2>>}
=============================================================================
