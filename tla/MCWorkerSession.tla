-------------------------- MODULE MCWorkerSession ---------------------------
(***************************************************************************)
(* Processes with every combination of requests in one session, for a      *)
(* project that has two contents.                                          *)
(***************************************************************************)
EXTENDS WorkerSession, TLC

Symmetry == Permutations(Call)
=============================================================================
