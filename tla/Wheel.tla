------------------------------- MODULE Wheel --------------------------------
(***************************************************************************)
(* The wheel of a defense (postgres/defense.go): which candidates of the   *)
(* catalog are put on it, and which one the student has to restore.        *)
(*                                                                         *)
(* A candidate has an id, a number of lines, its rank in the catalog and a *)
(* mark if it is in a test file.  The digest of the seed and an id gives   *)
(* an order of the ids (score), that of the seed with "/wheel" another     *)
(* (spin).                                                                 *)
(***************************************************************************)
EXTENDS Naturals, Sequences, SequencesExt

NoWheel == [wheel |-> <<>>, selected |-> 0]

bySizeThenRank(a, b) == a.lines > b.lines \/ (a.lines = b.lines /\ a.rank < b.rank)

InOrder(s, order) == SortSeq(s, LAMBDA a, b : order[a.id] < order[b.id])

(* How many of the candidates on a wheel are drawn by the seed.            *)
randomCount(count) == IF count = 1 THEN 0 ELSE (count + 1) \div 3

(* The largest candidates, and some of the others as the seed has it.      *)
mixedCandidates(candidates, count, score) ==
    LET bySize == SortSeq(candidates, bySizeThenRank)
        largest == count - randomCount(count)
        rest == InOrder(SubSeq(bySize, largest + 1, Len(bySize)), score)
    IN SubSeq(bySize, 1, largest) \o SubSeq(rest, 1, randomCount(count))

buildWheelMutant(catalog, manual, size, score, spin) ==
    LET eligible == SelectSeq(catalog, LAMBDA c : ~c.test)
        chosen == SelectSeq(catalog, LAMBDA c : c.id = manual)
        count == IF manual = 0 THEN size ELSE size - 1
        wheel == InOrder(mixedCandidates(eligible, count, score) \o chosen, spin)
    IN
    IF (manual # 0 /\ chosen = <<>>) \/ Len(eligible) < count THEN NoWheel
    ELSE [wheel |-> wheel, selected |-> IF manual = 0 THEN wheel[1].id ELSE manual]

(* A candidate chosen by the teacher (manual, else 0) may be in a test     *)
(* file; the others may not.                                               *)
buildWheel(catalog, manual, size, score, spin) ==
    LET eligible == SelectSeq(catalog, LAMBDA c : ~c.test)
        chosen == SelectSeq(catalog, LAMBDA c : c.id = manual)
        pool == SelectSeq(eligible, LAMBDA c : c.id # manual)
        count == IF manual = 0 THEN size ELSE size - 1
        wheel == InOrder(mixedCandidates(pool, count, score) \o chosen, spin)
    IN
    IF (manual # 0 /\ chosen = <<>>) \/ Len(pool) < count THEN NoWheel
    ELSE [wheel |-> wheel, selected |-> IF manual = 0 THEN wheel[1].id ELSE manual]
=============================================================================
