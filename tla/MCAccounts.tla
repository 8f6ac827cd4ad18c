----------------------------- MODULE MCAccounts -----------------------------
EXTENDS Accounts, TLC

CONSTANTS adm, tom, ann, bob, l1, g1, g2, r1, r2, k1

MCStaff == <<[user |-> adm, role |-> "admin"], [user |-> tom, role |-> "teacher"]>>

(* A request with everything it may carry.                                 *)
Plain(a, op) == [by |-> a, op |-> op, user |-> Nobody, record |-> Nobody,
                 key |-> Nobody, role |-> Nobody, group |-> Nobody,
                 login |-> Nobody]

(* Ann and bob sign in with the same login, one after the other has given  *)
(* it up; a teacher and an administrator decide about ann.                 *)
MCCall ==
    {[Plain(a, "login") EXCEPT !.login = l1] : a \in {ann, bob}}
    \cup {[Plain(a, "approve") EXCEPT !.user = ann, !.record = r1, !.key = k1] :
              a \in {adm, tom}}
    \cup {[Plain(tom, "reject") EXCEPT !.user = ann, !.key = k1],
          [Plain(tom, "roster") EXCEPT !.group = g1, !.login = l1],
          [Plain(adm, "role") EXCEPT !.user = ann, !.role = "student"],
          [Plain(adm, "block") EXCEPT !.user = ann],
          [Plain(adm, "assign") EXCEPT !.user = tom, !.group = g2],
          Plain(adm, "view"), Plain(tom, "logout")}

MCImported == {<<g2, l1>>}

MCSymmetry == Permutations(Handler)
=============================================================================
