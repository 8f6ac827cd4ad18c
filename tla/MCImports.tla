----------------------------- MODULE MCImports ------------------------------
(* Instances of Imports for TLC.                                           *)
EXTENDS Imports, TLC

CONSTANTS t1, t2, d1, d2

(* A lab of one student in two contents, and an archive with two labs. *)
Archives == {t1 :> d1, t1 :> d2, t1 :> d1 @@ t2 :> d1}
=============================================================================
