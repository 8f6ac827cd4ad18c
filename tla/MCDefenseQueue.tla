--------------------------- MODULE MCDefenseQueue ---------------------------
(* Instances of DefenseQueue for TLC.                                      *)
EXTENDS DefenseQueue, TLC

(* Keys, submissions and runners are interchangeable; ids are created in   *)
(* order.                                                                  *)
Symmetry == Permutations(Key) \cup Permutations(Submission)
                \cup Permutations(Runner)

(* From a clock so far behind that a lease would start out expired to one  *)
(* that is ahead.                                                          *)
ClockSkew == -2 .. 1
=============================================================================
