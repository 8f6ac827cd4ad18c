--------------------------- MODULE AccountsProofs ---------------------------
(***************************************************************************)
(* Accounts, for every number of accounts, records, handlers and requests: *)
(* the audit chain is linear, browsers hold audited sessions, owners of    *)
(* records are admitted, and claims are what Claims promises.              *)
(***************************************************************************)
EXTENDS Accounts, SequenceTheorems, TLAPS

SessionRow == [user : Account, live : BOOLEAN, view : BOOLEAN, audited : BOOLEAN]
Pc == {"idle", "auth", "consume", "tx", "session", "audit", "append", "conflict"}
HandlerState == [pc : Pc, call : Call \cup {Nobody}, session : Nat,
                 fresh : Nat, prev : Nat]

(* The tables and the handlers keep their types; a handler that is not     *)
(* idle has a call.                                                        *)
TypeOK ==
    /\ users \in [Account -> UserRow \cup {Nobody}]
    /\ records \in [Record -> RecordRow \cup {Nobody}]
    /\ sessions \in Seq(SessionRow)
    /\ cookies \in [Account -> Nat]
    /\ handlers \in [Handler -> HandlerState]
    /\ chain \in Seq(Nat)
    /\ \A h \in Handler : ~At(h, "idle") => CallOf(h) \in Call

(* The handler that appends has the lock and has read the last event.      *)
Appending ==
    \A h \in Handler : At(h, "append") => auditLock = h /\ handlers[h].prev = Len(chain)

(* Sessions that a browser or a handler knows of exist.                    *)
SessionsExist ==
    /\ \A a \in Account : cookies[a] # 0 => cookies[a] \in DOMAIN sessions
    /\ \A h \in Handler : handlers[h].fresh # 0 => handlers[h].fresh \in DOMAIN sessions

-----------------------------------------------------------------------------
(* Types                                                                   *)

(* An idle handler has the type of handlers. *)
LEMMA IdleState == Idle \in HandlerState /\ Idle.pc = "idle" /\ Idle.fresh = 0
BY DEF Idle, HandlerState, Pc

(* A handler takes a step that neither begins nor ends an append.          *)
Moved(h, fresh) ==
    \E s \in HandlerState :
        /\ handlers' = [handlers EXCEPT ![h] = s]
        /\ s.pc # "append" /\ (s.pc # "idle" => s.call \in Call)
        /\ s.fresh \in {0, fresh}

(* To go on and to stop are such steps. *)
LEMMA GoesOn ==
    ASSUME TypeOK, NEW h \in Handler, NEW pc \in Pc \ {"append"}, ~At(h, "idle"),
           Goto(h, pc) \/ Stop(h)
    PROVE  Moved(h, handlers[h].fresh)
<1>1. CASE Stop(h)
  BY <1>1, IdleState, Zenon DEF Stop, Moved
<1>2. CASE Goto(h, pc)
  <2> DEFINE moved == [handlers[h] EXCEPT !.pc = pc]
  <2>1. /\ moved \in HandlerState /\ moved.call = handlers[h].call
        /\ moved.pc = pc /\ moved.fresh = handlers[h].fresh
    BY Zenon DEF TypeOK, HandlerState
  <2>2. handlers' = [handlers EXCEPT ![h] = moved]
    BY <1>2 DEF Goto
  <2>3. handlers[h].call \in Call
    BY DEF TypeOK, CallOf
  <2> HIDE DEF moved
  <2> QED
    BY <2>1, <2>2, <2>3, Zenon DEF Moved
<1> QED
  BY <1>1, <1>2

(* Every step of a handler outside the audit is one, and leaves browsers   *)
(* and the chain alone.                                                    *)
LEMMA WorkMoves ==
    ASSUME TypeOK, NEW h \in Handler,
           Authenticate(h) \/ AuthHandlers(h) \/ AdminHandlers(h)
    PROVE  /\ UNCHANGED rest
           /\ CreateSession(h) \/ Moved(h, handlers[h].fresh)
<1> USE DEF Pc, At, Refuse
<1>1. CASE Authenticate(h)
  BY <1>1, GoesOn DEF Authenticate
<1>2. CASE Consume(h)
  BY <1>2, GoesOn DEF Consume
<1>3. CASE LoginGitHub(h)
  BY <1>3, GoesOn DEF LoginGitHub
<1>4. CASE CreateSession(h)
  BY <1>4, Zenon DEF CreateSession
<1>5. CASE ApproveStudent(h)
  BY <1>5, GoesOn, Zenon DEF ApproveStudent, Decide
<1>6. CASE RejectUser(h)
  BY <1>6, GoesOn DEF RejectUser, Decide
<1>7. CASE ApplyRoster(h)
  BY <1>7, GoesOn DEF ApplyRoster
<1>8. CASE SetRole(h)
  BY <1>8, GoesOn DEF SetRole
<1>9. CASE Block(h)
  BY <1>9, GoesOn DEF Block
<1>10. CASE AssignTeacher(h)
  BY <1>10, GoesOn DEF AssignTeacher
<1>11. CASE ChangeSession(h)
  BY <1>11, GoesOn DEF ChangeSession
<1> QED
  BY <1>1, <1>2, <1>3, <1>4, <1>5, <1>6, <1>7, <1>8, <1>9, <1>10, <1>11
  DEF AuthHandlers, AdminHandlers

(* Rows that are written to users and records have their types. *)
LEMMA Rows ==
    /\ Admin \in UserRow /\ Student \in UserRow
    /\ Admin.status = "active" /\ Admin.role = "admin"
    /\ Student.status = "active" /\ Student.role = "student"
    /\ \A a \in Account : NewSession(a) \in SessionRow
BY DEF Admin, Student, UserRow, Role, NewSession, SessionRow

(* A claim writes the owner to a record that exists. *)
LEMMA OwnedRecords ==
    ASSUME TypeOK, NEW r \in Record, NEW a \in Account, records[r] # Nobody
    PROVE  \E row \in RecordRow :
              row.owner = a /\ Owned(r, a) = [records EXCEPT ![r] = row]
<1>1. records[r] \in RecordRow
  BY DEF TypeOK
<1>2. [records[r] EXCEPT !.owner = a] \in RecordRow
  BY <1>1 DEF RecordRow
<1>3. [records[r] EXCEPT !.owner = a].owner = a
  BY <1>1 DEF RecordRow
<1>4. Owned(r, a) = [records EXCEPT ![r] = [records[r] EXCEPT !.owner = a]]
  BY DEF Owned
<1> QED
  BY <1>2, <1>3, <1>4, Zenon

-----------------------------------------------------------------------------
(* Sessions                                                                *)

(* No session disappears, or is no longer audited. *)
SessionsKept ==
    /\ sessions' \in Seq(SessionRow) /\ Len(sessions') \in {Len(sessions), Len(sessions) + 1}
    /\ \A i \in DOMAIN sessions : sessions[i].audited => sessions'[i].audited

(* An update of one session that keeps it audited. *)
LEMMA SessionUpdate ==
    ASSUME NEW old \in Seq(SessionRow), NEW s, NEW row,
           s \in DOMAIN old => row \in SessionRow /\ (old[s].audited => row.audited)
    PROVE  /\ [old EXCEPT ![s] = row] \in Seq(SessionRow)
           /\ Len([old EXCEPT ![s] = row]) = Len(old)
           /\ \A i \in DOMAIN old : old[i].audited => [old EXCEPT ![s] = row][i].audited
<1>1. CASE s \in DOMAIN old
  <2>1. row \in SessionRow /\ s \in 1 .. Len(old) /\ DOMAIN old = 1 .. Len(old)
    BY <1>1, LenProperties
  <2>2. /\ [old EXCEPT ![s] = row] \in Seq(SessionRow)
        /\ Len([old EXCEPT ![s] = row]) = Len(old)
        /\ \A i \in 1 .. Len(old) :
              [old EXCEPT ![s] = row][i] = IF i = s THEN row ELSE old[i]
    BY <2>1, ExceptSeq
  <2> QED
    BY <1>1, <2>1, <2>2, Zenon
<1>2. CASE s \notin DOMAIN old
  <2>1. [old EXCEPT ![s] = row] = old
    BY <1>2, Zenon, LenProperties
  <2> QED
    BY <2>1, Zenon
<1> QED
  BY <1>1, <1>2

(* What the steps write to a session. *)
LEMMA SessionRows ==
    ASSUME NEW row \in SessionRow, NEW b \in BOOLEAN
    PROVE  /\ [row EXCEPT !.live = b] \in SessionRow
           /\ [row EXCEPT !.live = b].audited = row.audited
           /\ [row EXCEPT !.view = b] \in SessionRow
           /\ [row EXCEPT !.view = b].audited = row.audited
           /\ [row EXCEPT !.audited = TRUE] \in SessionRow
           /\ [row EXCEPT !.audited = TRUE].audited
BY Zenon DEF SessionRow

(* Every step keeps the sessions. *)
LEMMA SessionsStep ==
    ASSUME TypeOK, [Next]_vars
    PROVE  SessionsKept
<1>1. CASE UNCHANGED sessions
  BY <1>1 DEF SessionsKept, TypeOK
<1>2. ASSUME NEW h \in Handler, CreateSession(h) PROVE SessionsKept
  <2> DEFINE made == Append(sessions, NewSession(By(h)))
             s == handlers[h].session
  <2>1. By(h) \in Account
    BY <1>2, CallAssumption DEF CreateSession, TypeOK, At, CallOf, By
  <2>2. /\ made \in Seq(SessionRow) /\ Len(made) = Len(sessions) + 1
        /\ \A i \in DOMAIN sessions : made[i] = sessions[i]
    BY <2>1, Rows DEF TypeOK
  <2>3. [made EXCEPT ![s].live = FALSE] = [made EXCEPT ![s] = [made[s] EXCEPT !.live = FALSE]]
    OBVIOUS
  <2>4. s \in DOMAIN made => /\ [made[s] EXCEPT !.live = FALSE] \in SessionRow
                             /\ [made[s] EXCEPT !.live = FALSE].audited = made[s].audited
    BY <2>2, SessionRows, ElementOfSeq, LenProperties, ZenonT(30)
  <2>5. sessions' = made \/ sessions' = [made EXCEPT ![s] = [made[s] EXCEPT !.live = FALSE]]
    BY <1>2, <2>3, Zenon DEF CreateSession
  <2> HIDE DEF made, s
  <2>6. /\ sessions' \in Seq(SessionRow) /\ Len(sessions') = Len(made)
        /\ \A i \in DOMAIN made : made[i].audited => sessions'[i].audited
    <3> DEFINE ended == [made[s] EXCEPT !.live = FALSE]
    <3>1. s \in DOMAIN made => ended \in SessionRow /\ (made[s].audited => ended.audited)
      BY <2>4, Zenon
    <3>2. CASE sessions' = made
      BY <2>2, <3>2
    <3>3. CASE sessions' = [made EXCEPT ![s] = ended]
      <4> HIDE DEF ended
      <4> QED
        BY <2>2, <3>1, <3>3, SessionUpdate
    <3> QED
      BY <2>5, <3>2, <3>3
  <2> QED
    BY <2>2, <2>6 DEF SessionsKept, TypeOK
<1>3. ASSUME NEW h \in Handler, Block(h) PROVE SessionsKept
  <2> DEFINE ended(u, i) == [sessions[i] EXCEPT !.live = @ /\ sessions[i].user # u]
  <2>1. ASSUME NEW u, NEW i \in DOMAIN sessions
        PROVE  ended(u, i) \in SessionRow /\ ended(u, i).audited = sessions[i].audited
    <3>1. sessions[i] \in SessionRow
      BY DEF TypeOK
    <3>2. ended(u, i) = [sessions[i] EXCEPT !.live = sessions[i].live /\ sessions[i].user # u]
      OBVIOUS
    <3> QED
      BY <3>1, <3>2, SessionRows, Zenon
  <2>2. CASE sessions' = [i \in DOMAIN sessions |-> ended(CallOf(h).user, i)]
    <3> HIDE DEF ended
    <3> QED
      <4>1. sessions \in Seq(SessionRow)
        BY DEF TypeOK
      <4>2. Len(sessions) \in Nat /\ DOMAIN sessions = 1 .. Len(sessions)
        BY <4>1, LenProperties
      <4>3. sessions' \in [1 .. Len(sessions) -> SessionRow]
        BY <2>1, <2>2, <4>2
      <4>4. sessions' \in Seq(SessionRow) /\ Len(sessions') = Len(sessions)
        BY <4>2, <4>3
      <4>5. \A i \in DOMAIN sessions : sessions'[i].audited = sessions[i].audited
        BY <2>1, <2>2, Zenon
      <4> QED
        BY <4>4, <4>5, Zenon DEF SessionsKept
  <2> QED
    BY <1>1, <1>3, <2>2 DEF Block
<1>4. ASSUME NEW h \in Handler, ChangeSession(h) PROVE SessionsKept
  <2> DEFINE s == handlers[h].session
             row == IF CallOf(h).op = "logout" THEN [sessions[s] EXCEPT !.live = FALSE]
                    ELSE IF sessions[s].live
                         THEN [sessions[s] EXCEPT !.view = CallOf(h).op = "view"]
                    ELSE sessions[s]
  <2>1. s \in DOMAIN sessions => row \in SessionRow /\ row.audited = sessions[s].audited
    <3> SUFFICES ASSUME s \in DOMAIN sessions
                 PROVE  row \in SessionRow /\ row.audited = sessions[s].audited
      OBVIOUS
    <3>1. sessions[s] \in SessionRow /\ (CallOf(h).op = "view") \in BOOLEAN
      BY DEF TypeOK
    <3>2. /\ [sessions[s] EXCEPT !.live = FALSE] \in SessionRow
          /\ [sessions[s] EXCEPT !.live = FALSE].audited = sessions[s].audited
          /\ [sessions[s] EXCEPT !.view = CallOf(h).op = "view"] \in SessionRow
          /\ [sessions[s] EXCEPT !.view = CallOf(h).op = "view"].audited = sessions[s].audited
      BY <3>1, SessionRows, Zenon
    <3> QED
      BY <3>1, <3>2, Zenon
  <2>2. sessions' = [sessions EXCEPT ![s] = row]
    BY <1>4 DEF ChangeSession
  <2> HIDE DEF row, s
  <2> QED
    BY <2>1, <2>2, SessionUpdate, Zenon DEF SessionsKept, TypeOK
<1>5. ASSUME NEW h \in Handler, AuditCommit(h) \/ AuditFails(h) PROVE SessionsKept
  <2> DEFINE s == handlers[h].fresh
  <2>1. \/ UNCHANGED sessions
        \/ sessions' = [sessions EXCEPT ![s] = [sessions[s] EXCEPT !.audited = TRUE]]
        \/ sessions' = [sessions EXCEPT ![s] = [sessions[s] EXCEPT !.live = FALSE]]
    BY <1>5 DEF AuditCommit, AuditFails
  <2>2. s \in DOMAIN sessions => sessions[s] \in SessionRow
    BY DEF TypeOK
  <2>3. ASSUME NEW row, row \in {[sessions[s] EXCEPT !.audited = TRUE],
                                 [sessions[s] EXCEPT !.live = FALSE]},
               sessions' = [sessions EXCEPT ![s] = row]
        PROVE  SessionsKept
    <3>1. s \in DOMAIN sessions => row \in SessionRow /\ (sessions[s].audited => row.audited)
      BY <2>2, <2>3, SessionRows, Zenon
    <3> HIDE DEF s
    <3> QED
      BY <2>3, <3>1, SessionUpdate, Zenon DEF SessionsKept, TypeOK
  <2> QED
    BY <1>1, <2>1, <2>3
<1> QED
  BY <1>1, <1>2, <1>3, <1>4, <1>5, ZenonT(30)
  DEF Next, vars, Handle, AuthHandlers, AdminHandlers, Authenticate, Consume, LoginGitHub,
      ApproveStudent, RejectUser, Decide, ApplyRoster, SetRole, AssignTeacher,
      AuditBegin, Ends, Begin, StartFlow, ImportRecord, tables
-----------------------------------------------------------------------------
(* Records and their owners                                                *)

(* The refinement mapping. *)
OwnerOf == [r \in Record |-> IF records[r] = Nobody THEN Nobody ELSE records[r].owner]

AdmittedRow(row) == row.status \in {"active", "blocked"} /\ row.role # Nobody

(* OwnersAdmitted is not inductive: a roster gives records to active users *)
(* and leaves their rows alone, so these have a role.                      *)
Admitted ==
    /\ \A r \in Record : OwnerOf[r] # Nobody =>
          Known(OwnerOf[r]) /\ AdmittedRow(users[OwnerOf[r]])
    /\ \A a \in Account : Known(a) /\ users[a].status = "active" => users[a].role # Nobody

(* What a step may do to the owners, and what it keeps of the rows. *)
ClaimStep ==
    \/ OwnerOf' = OwnerOf
    \/ \E r \in Record, a \in Account : Promise!Claim(r, a)

(* To write one record, for the same owner or a new one. *)
LEMMA RecordWritten ==
    ASSUME TypeOK, NEW r \in Record, NEW row \in RecordRow,
           records' = [records EXCEPT ![r] = row],
           \/ row.owner = OwnerOf[r]
           \/ OwnerOf[r] = Nobody /\ row.owner \in Account /\ ~Linked(row.owner)
    PROVE  /\ records' \in [Record -> RecordRow \cup {Nobody}]
           /\ OwnerOf' = [OwnerOf EXCEPT ![r] = row.owner]
           /\ ClaimStep
<1>1. records' \in [Record -> RecordRow \cup {Nobody}]
  BY DEF TypeOK
<1>2. OwnerOf' = [OwnerOf EXCEPT ![r] = row.owner]
  BY NobodyAssumption, Zenon DEF OwnerOf, TypeOK
<1>3. CASE row.owner = OwnerOf[r]
  BY <1>1, <1>2, <1>3 DEF ClaimStep, OwnerOf
<1>4. CASE OwnerOf[r] = Nobody /\ row.owner \in Account /\ ~Linked(row.owner)
  <2>1. \A x \in Record : OwnerOf[x] # row.owner
    BY <1>4, NobodyAssumption DEF OwnerOf, Linked
  <2>2. Promise!Claim(r, row.owner)
    BY <1>2, <1>4, <2>1 DEF Promise!Claim, OwnerOf
  <2> QED
    BY <1>1, <1>2, <1>4, <2>2 DEF ClaimStep
<1> QED
  BY <1>3, <1>4

(* To write one user, who may have become the owner of a record. *)
LEMMA UserWritten ==
    ASSUME TypeOK, Admitted, NEW u \in Account, NEW row \in UserRow,
           users' = [users EXCEPT ![u] = row],
           row.status = "active" => row.role # Nobody,
           (\E r \in Record : OwnerOf'[r] = u) => AdmittedRow(row),
           \A r \in Record : OwnerOf'[r] \in {OwnerOf[r], u}
    PROVE  users' \in [Account -> UserRow \cup {Nobody}] /\ Admitted'
<1>1. users' \in [Account -> UserRow \cup {Nobody}]
  BY DEF TypeOK
<1>2. users'[u] = row /\ row # Nobody /\ \A a \in Account \ {u} : users'[a] = users[a]
  BY NobodyAssumption DEF TypeOK
<1>3. \A r \in Record : OwnerOf[r] \in Account \cup {Nobody}
  BY DEF TypeOK, OwnerOf, RecordRow
<1>4. ASSUME NEW r \in Record, OwnerOf'[r] # Nobody
      PROVE  users'[OwnerOf'[r]] # Nobody /\ AdmittedRow(users'[OwnerOf'[r]])
  <2>1. CASE OwnerOf'[r] = u
    BY <1>2, <2>1
  <2>2. CASE OwnerOf'[r] # u
    BY <1>2, <1>3, <1>4, <2>2 DEF Admitted, Known
  <2> QED
    BY <2>1, <2>2
<1>5. \A a \in Account : users'[a] # Nobody /\ users'[a].status = "active" => users'[a].role # Nobody
  BY <1>2 DEF Admitted, Known
<1> QED
  BY <1>1, <1>4, <1>5 DEF Admitted, Known, AdmittedRow

(* What every step has to keep. *)
OwnersKept ==
    /\ users' \in [Account -> UserRow \cup {Nobody}]
    /\ records' \in [Record -> RecordRow \cup {Nobody}]
    /\ Admitted' /\ ClaimStep

(* A step that writes neither users nor records keeps the owners. *)
LEMMA OwnersUnchanged ==
    ASSUME TypeOK, Admitted, UNCHANGED <<users, records>>
    PROVE  OwnersKept
BY DEF OwnersKept, ClaimStep, TypeOK, Admitted, OwnerOf, Known

(* A step that leaves the records alone and writes one user. *)
LEMMA OnlyUserWritten ==
    ASSUME TypeOK, Admitted, NEW u \in Account, NEW row \in UserRow,
           UNCHANGED records, users' = [users EXCEPT ![u] = row],
           row.status = "active" => row.role # Nobody,
           Known(u) /\ AdmittedRow(users[u]) => AdmittedRow(row)
    PROVE  OwnersKept
<1>1. OwnerOf' = OwnerOf
  BY DEF OwnerOf
<1>2. (\E r \in Record : OwnerOf'[r] = u) => AdmittedRow(row)
  BY <1>1, NobodyAssumption DEF Admitted
<1>3. users' \in [Account -> UserRow \cup {Nobody}] /\ Admitted'
  BY <1>1, <1>2, UserWritten, Zenon
<1> QED
  BY <1>1, <1>3 DEF OwnersKept, ClaimStep, TypeOK

(* A step that gives a record to an owner, who is or becomes a student. *)
LEMMA ClaimWritten ==
    ASSUME TypeOK, Admitted, NEW r \in Record, NEW a \in Account,
           NEW row \in RecordRow, row.owner = a,
           records' = [records EXCEPT ![r] = row],
           users' = [users EXCEPT ![a] = Student],
           OwnerOf[r] = a \/ (OwnerOf[r] = Nobody /\ ~Linked(a))
    PROVE  OwnersKept
<1>1. /\ records' \in [Record -> RecordRow \cup {Nobody}]
      /\ OwnerOf' = [OwnerOf EXCEPT ![r] = a]
      /\ ClaimStep
  BY RecordWritten, Zenon
<1>2. \A x \in Record : OwnerOf'[x] \in {OwnerOf[x], a}
  BY <1>1 DEF OwnerOf
<1>3. AdmittedRow(Student)
  BY Rows, NobodyAssumption DEF AdmittedRow, Role
<1>4. users' \in [Account -> UserRow \cup {Nobody}] /\ Admitted'
  BY <1>2, <1>3, Rows, UserWritten, Zenon DEF AdmittedRow
<1> QED
  BY <1>1, <1>4 DEF OwnersKept

(* A login and an approval give an unclaimed record to a student. *)
LEMMA OwnedWritten ==
    ASSUME TypeOK, Admitted, NEW r \in Record, NEW a \in Account,
           Unclaimed(r), ~Linked(a),
           records' = Owned(r, a), users' = [users EXCEPT ![a] = Student]
    PROVE  OwnersKept
<1>1. PICK row \in RecordRow : row.owner = a /\ Owned(r, a) = [records EXCEPT ![r] = row]
  BY OwnedRecords DEF Unclaimed
<1>2. OwnerOf[r] = Nobody
  BY DEF OwnerOf, Unclaimed
<1> QED
  BY <1>1, <1>2, ClaimWritten, Zenon

(* A first login claims for an account that has no user, and so owns       *)
(* nothing.                                                                *)
LEMMA LoginOwners ==
    ASSUME TypeOK, Admitted, NEW h \in Handler, LoginGitHub(h)
    PROVE  OwnersKept
<1> DEFINE a == By(h)
           candidates == {r \in Record : Unclaimed(r) /\ records[r].login = CallOf(h).login}
           one == a # Bootstrap /\ \E r \in candidates : candidates = {r}
           pending == [status |-> "pending", role |-> Nobody]
<1>1. a \in Account
  BY CallAssumption DEF LoginGitHub, TypeOK, At, CallOf, By
<1>2. pending \in UserRow /\ pending.status = "pending"
  BY SMTT(20) DEF UserRow
<1>3. CASE Known(a)
  <2>1. CASE users' = [users EXCEPT ![a] = Admin] /\ UNCHANGED records
    BY <1>1, <2>1, Rows, OnlyUserWritten, NobodyAssumption, Zenon DEF AdmittedRow, Role
  <2> QED
    BY <1>3, <2>1, OwnersUnchanged DEF LoginGitHub
<1>4. CASE ~Known(a) /\ ~one
  <2>1. PICK row \in {Admin, pending} : users' = [users EXCEPT ![a] = row]
    BY <1>4 DEF LoginGitHub
  <2>2. UNCHANGED records
    BY <1>4 DEF LoginGitHub
  <2> HIDE DEF a, pending
  <2> QED
    BY <1>1, <1>2, <1>4, <2>1, <2>2, Rows, OnlyUserWritten, NobodyAssumption, Zenon DEF Role
<1>5. CASE ~Known(a) /\ one
  <2>1. PICK r \in candidates : records' = Owned(r, a)
    BY <1>5 DEF LoginGitHub
  <2>2. users' = [users EXCEPT ![a] = Student]
    BY <1>5 DEF LoginGitHub
  <2>3. ~Linked(a)
    BY <1>1, <1>5, NobodyAssumption DEF Linked, Admitted, OwnerOf
  <2> QED
    BY <1>1, <2>1, <2>2, <2>3, OwnedWritten, Zenon
<1> QED
  BY <1>3, <1>4, <1>5

(* A decision is about a user who owns nothing, or who waits and so owns   *)
(* nothing.                                                                *)
LEMMA DecisionOwners ==
    ASSUME TypeOK, Admitted, NEW h \in Handler, ApproveStudent(h) \/ RejectUser(h)
    PROVE  OwnersKept
<1> DEFINE u == CallOf(h).user
           r == CallOf(h).record
           rejected == [status |-> "rejected", role |-> Nobody]
<1>1. CallOf(h) \in Call
  BY Zenon DEF ApproveStudent, RejectUser, TypeOK, At
<1>2. CASE ApproveStudent(h)
  <2>1. u \in Account /\ r \in Record
    BY <1>1, <1>2, CallAssumption, Zenon DEF ApproveStudent, Op, CallOf
  <2>2. CASE UNCHANGED <<users, records>>
    BY <2>2, OwnersUnchanged
  <2>3. CASE ~UNCHANGED <<users, records>>
    <3>1. /\ users' = [users EXCEPT ![u] = Student] /\ records' = Owned(r, u)
          /\ Unclaimed(r) /\ ~Linked(u)
      BY <1>2, <2>3 DEF ApproveStudent, Verdict
    <3> QED
      BY <2>1, <3>1, OwnedWritten, ZenonT(30)
  <2> QED
    BY <2>2, <2>3
<1>3. CASE RejectUser(h)
  <2>1. u \in Account
    BY <1>1, <1>3, CallAssumption, ZenonT(30) DEF RejectUser, Op, CallOf
  <2>2. CASE UNCHANGED users
    BY <1>3, <2>2, OwnersUnchanged DEF RejectUser
  <2>3. CASE ~UNCHANGED users
    <3>1. /\ users' = [users EXCEPT ![u] = rejected] /\ UNCHANGED records
          /\ users[u].status = "pending"
      BY <1>3, <2>3 DEF RejectUser, Verdict
    <3>2. rejected \in UserRow /\ rejected.status = "rejected"
      BY DEF UserRow
    <3>3. ~AdmittedRow(users[u])
      BY <3>1 DEF AdmittedRow
    <3> HIDE DEF rejected
    <3> QED
      BY <2>1, <3>1, <3>2, <3>3, OnlyUserWritten, Zenon
  <2> QED
    BY <2>2, <2>3
<1> QED
  BY <1>2, <1>3

(* Administrators give users a role, or block them. *)
LEMMA AdminOwners ==
    ASSUME TypeOK, Admitted, NEW h \in Handler, SetRole(h) \/ Block(h)
    PROVE  OwnersKept
<1> DEFINE u == CallOf(h).user
<1>1. CallOf(h) \in Call
  BY SMTT(20) DEF SetRole, Block, TypeOK, At
<1>2. u \in Account /\ UNCHANGED records
  BY <1>1, CallAssumption DEF SetRole, Block, Op, CallOf
<1>3. CASE SetRole(h)
  <2> DEFINE row == [status |-> "active", role |-> CallOf(h).role]
  <2>1. row \in UserRow /\ AdmittedRow(row) /\ row.role # Nobody
    BY <1>1, <1>3, CallAssumption, NobodyAssumption
    DEF SetRole, Op, CallOf, UserRow, AdmittedRow
  <2>2. UNCHANGED users \/ users' = [users EXCEPT ![u] = row]
    BY <1>3 DEF SetRole
  <2> HIDE DEF row, u
  <2> QED
    BY <1>2, <2>1, <2>2, OnlyUserWritten, OwnersUnchanged, SMTT(20)
<1>4. CASE Block(h)
  <2>1. CASE UNCHANGED users
    BY <1>2, <2>1, OwnersUnchanged
  <2>2. CASE ~UNCHANGED users
    <3> DEFINE row == [users[u] EXCEPT !.status = "blocked"]
    <3>1. users' = [users EXCEPT ![u] = row] /\ users[u] # Nobody
      BY <1>4, <2>2 DEF Block, Known
    <3>2. users[u] \in UserRow
      BY <1>2, <3>1 DEF TypeOK
    <3>3. row \in UserRow /\ row.status = "blocked" /\ row.role = users[u].role
      BY <3>2 DEF UserRow
    <3>4. AdmittedRow(users[u]) => AdmittedRow(row)
      BY <3>3 DEF AdmittedRow
    <3> HIDE DEF row, u
    <3> QED
      BY <1>2, <3>1, <3>3, <3>4, OnlyUserWritten, ZenonT(30)
  <2> QED
    BY <2>1, <2>2
<1> QED
  BY <1>3, <1>4

(* A roster keeps the owner of a record, or gives it to a claimant. *)
LEMMA RosterOwners ==
    ASSUME TypeOK, Admitted, NEW h \in Handler, ApplyRoster(h)
    PROVE  OwnersKept
<1> DEFINE g == CallOf(h).group
           l == CallOf(h).login
           expecting == {r \in Record : records[r] # Nobody /\ records[r].login = l}
<1>1. g \in Group /\ l \in Login
  BY CallAssumption, SMTT(20) DEF ApplyRoster, TypeOK, At, Op, CallOf
<1>2. PICK r \in IF expecting = {} THEN New ELSE expecting, a \in Account \cup {Nobody} :
        LET kept == IF r \in expecting THEN records[r].owner ELSE Nobody
            ends == a # Nobody /\ (users[a].status = "pending" \/ users[a].role = "student")
        IN  /\ IF kept # Nobody THEN a = kept
               ELSE IF Claimants(l) = {} THEN a = Nobody ELSE a \in Claimants(l)
            /\ \/ UNCHANGED <<users, records>>
               \/ /\ records' = [records EXCEPT ![r] = [group |-> g, login |-> l, owner |-> a]]
                  /\ users' = IF ends THEN [users EXCEPT ![a] = Student] ELSE users
  BY Zenon DEF ApplyRoster
<1> DEFINE kept == IF r \in expecting THEN records[r].owner ELSE Nobody
           ends == a # Nobody /\ (users[a].status = "pending" \/ users[a].role = "student")
           row == [group |-> g, login |-> l, owner |-> a]
<1>3. r \in Record /\ kept = OwnerOf[r]
  BY DEF New, OwnerOf
<1>4. row \in RecordRow /\ row.owner = a
  BY <1>1 DEF RecordRow
<1>5. CASE UNCHANGED <<users, records>>
  BY <1>5, OwnersUnchanged
<1>6. CASE ~UNCHANGED <<users, records>>
  <2>1. records' = [records EXCEPT ![r] = row]
    BY <1>2, <1>6, SMTT(20)
  <2>2. a = OwnerOf[r] \/ (OwnerOf[r] = Nobody /\ a \in Claimants(l))
    BY <1>2, <1>3
  <2>3. a \in Claimants(l) => a \in Account /\ ~Linked(a) /\ Known(a)
    BY DEF Claimants
  <2>4. CASE ends
    <3>1. users' = [users EXCEPT ![a] = Student] /\ a \in Account
      BY <1>2, <1>6, <2>4
    <3>2. OwnerOf[r] = a \/ (OwnerOf[r] = Nobody /\ ~Linked(a))
      BY <2>2, <2>3
    <3>3. r \in Record
      BY <1>3
    <3> HIDE DEF row, expecting, l, g, kept, ends
    <3> QED
      BY <1>4, <2>1, <3>1, <3>2, <3>3, ClaimWritten, Zenon
  <2>5. CASE ~ends
    <3>1. UNCHANGED users
      BY <1>2, <1>6, <2>5, SMTT(20)
    <3>2. a # Nobody => Known(a) /\ AdmittedRow(users[a])
      <4>1. CASE a \in Claimants(l)
        BY <2>5, <4>1, NobodyAssumption, SMTT(20) DEF Claimants, AdmittedRow, Admitted
      <4>2. CASE a = OwnerOf[r]
        BY <1>3, <4>2 DEF Admitted
      <4> QED
        BY <2>2, <4>1, <4>2
    <3>3. /\ records' \in [Record -> RecordRow \cup {Nobody}]
          /\ OwnerOf' = [OwnerOf EXCEPT ![r] = a]
          /\ ClaimStep
      <4> HIDE DEF row, expecting, l
      <4> QED
        BY <1>3, <1>4, <2>1, <2>2, <2>3, RecordWritten, Zenon
    <3>4. Admitted'
      <4>1. \A x \in Record : OwnerOf'[x] = IF x = r THEN a ELSE OwnerOf[x]
        BY <1>3, <3>3, Zenon DEF OwnerOf
      <4>2. \A x \in Record : OwnerOf'[x] # Nobody =>
                Known(OwnerOf'[x]) /\ AdmittedRow(users[OwnerOf'[x]])
        BY <3>2, <4>1 DEF Admitted
      <4> QED
        BY <3>1, <4>2 DEF Admitted, Known, AdmittedRow
    <3> QED
      BY <3>1, <3>3, <3>4, SMTT(20) DEF OwnersKept, TypeOK
  <2> QED
    BY <2>4, <2>5
<1> QED
  BY <1>5, <1>6, SMTT(20)

(* An import makes a record that nobody owns. *)
LEMMA ImportOwners ==
    ASSUME TypeOK, Admitted, NEW g \in Group, NEW l \in Login, ImportRecord(g, l)
    PROVE  OwnersKept
<1>1. PICK r \in New : records' = [records EXCEPT ![r] =
                                    [group |-> g, login |-> l, owner |-> Nobody]]
  BY Zenon DEF ImportRecord
<1> DEFINE row == [group |-> g, login |-> l, owner |-> Nobody]
<1>2. r \in Record /\ OwnerOf[r] = Nobody
  BY DEF New, OwnerOf
<1>3. row \in RecordRow /\ row.owner = Nobody
  BY DEF RecordRow
<1> HIDE DEF row
<1>4. /\ records' \in [Record -> RecordRow \cup {Nobody}]
      /\ OwnerOf' = [OwnerOf EXCEPT ![r] = Nobody]
      /\ ClaimStep
  BY <1>1, <1>2, <1>3, RecordWritten, Zenon DEF row
<1>5. OwnerOf' = OwnerOf /\ UNCHANGED users
  BY <1>2, <1>4, ZenonT(30) DEF OwnerOf, ImportRecord
<1> QED
  BY <1>4, <1>5 DEF OwnersKept, TypeOK, Admitted, Known

(* Every step keeps the owners. *)
LEMMA OwnersStep ==
    ASSUME TypeOK, Admitted, [Next]_vars
    PROVE  OwnersKept
<1>1. ASSUME NEW h \in Handler, Handle(h) PROVE OwnersKept
  <2>1. CASE UNCHANGED <<users, records>>
    BY <2>1, OwnersUnchanged
  <2> QED
    BY <1>1, <2>1, LoginOwners, DecisionOwners, AdminOwners, RosterOwners, Zenon
    DEF Handle, AuthHandlers, AdminHandlers, Authenticate, Consume, CreateSession,
        AssignTeacher, ChangeSession, AuditBegin, AuditCommit, AuditFails, Ends, tables
<1>2. ASSUME NEW i \in Imported, ImportRecord(i[1], i[2]) PROVE OwnersKept
  <2>1. i[1] \in Group /\ i[2] \in Login
    BY ImportedAssumption
  <2> QED
    BY <1>2, <2>1, ImportOwners
<1> QED
  BY <1>1, <1>2, OwnersUnchanged, Zenon DEF Next, vars, Begin, StartFlow, tables

-----------------------------------------------------------------------------
(* Handlers and the audit chain                                            *)

(* What the handlers, browsers and the chain keep. *)
AuditInv == Appending /\ SessionsExist /\ ChainLinear /\ SessionsAudited

AuditKept ==
    /\ cookies' \in [Account -> Nat]
    /\ handlers' \in [Handler -> HandlerState]
    /\ chain' \in Seq(Nat)
    /\ \A h \in Handler : ~At(h, "idle")' => CallOf(h)' \in Call
    /\ AuditInv'

(* A step of one handler that neither audits nor changes browsers. *)
LEMMA MovedKept ==
    ASSUME TypeOK, AuditInv, SessionsKept, NEW h \in Handler, NEW fresh,
           Moved(h, fresh), fresh # 0 => fresh \in DOMAIN sessions',
           UNCHANGED <<cookies, chain>>,
           auditLock' \in {auditLock, Nobody}, auditLock' # auditLock => auditLock = h
    PROVE  AuditKept
<1>1. PICK s \in HandlerState :
        /\ handlers' = [handlers EXCEPT ![h] = s]
        /\ s.pc # "append" /\ (s.pc # "idle" => s.call \in Call)
        /\ s.fresh \in {0, fresh}
  BY Zenon DEF Moved
<1>2. DOMAIN sessions \subseteq DOMAIN sessions'
  BY DEF SessionsKept, TypeOK
<1>3. /\ cookies' \in [Account -> Nat] /\ handlers' \in [Handler -> HandlerState]
      /\ chain' \in Seq(Nat)
      /\ \A k \in Handler : ~At(k, "idle")' => CallOf(k)' \in Call
  BY <1>1 DEF TypeOK, At, CallOf
<1>4. Appending'
  BY <1>1 DEF TypeOK, AuditInv, Appending, At
<1>5. SessionsExist'
  BY <1>1, <1>2 DEF TypeOK, AuditInv, SessionsExist
<1>6. ChainLinear' /\ SessionsAudited'
  BY DEF AuditInv, ChainLinear, SessionsAudited, SessionsExist, SessionsKept
<1> QED
  BY <1>3, <1>4, <1>5, <1>6 DEF AuditKept, AuditInv

(* The event that is appended carries the hash of the last one, and the    *)
(* browser is handed a session that is audited with it.                    *)
LEMMA CommitKept ==
    ASSUME TypeOK, AuditInv, SessionsKept, NEW h \in Handler, AuditCommit(h)
    PROVE  AuditKept
<1> DEFINE s == handlers[h].fresh
<1>1. /\ At(h, "append") /\ auditLock = h /\ handlers[h].prev = Len(chain)
      /\ chain' = Append(chain, Len(chain)) /\ auditLock' = Nobody
      /\ handlers' = [handlers EXCEPT ![h] = Idle]
  BY DEF AuditCommit, AuditInv, Appending, Stop
<1>2. DOMAIN sessions \subseteq DOMAIN sessions'
  BY DEF SessionsKept, TypeOK
<1>3. s \in Nat /\ CallOf(h) \in Call /\ By(h) \in Account
  BY <1>1, CallAssumption DEF TypeOK, HandlerState, At, CallOf, By
<1>4. s # 0 => s \in DOMAIN sessions /\ sessions'[s].audited
  <2> SUFFICES ASSUME s # 0 PROVE s \in DOMAIN sessions /\ sessions'[s].audited
    OBVIOUS
  <2>1. s \in DOMAIN sessions
    BY DEF AuditInv, SessionsExist
  <2>2. sessions' = [sessions EXCEPT ![s] = [sessions[s] EXCEPT !.audited = TRUE]]
    BY DEF AuditCommit
  <2>3. sessions[s] \in SessionRow
    BY <2>1 DEF TypeOK
  <2>4. sessions'[s] = [sessions[s] EXCEPT !.audited = TRUE]
    BY <2>1, <2>2, LenProperties, ExceptSeq DEF TypeOK
  <2> QED
    BY <2>1, <2>3, <2>4, SessionRows
<1>5. /\ handlers' \in [Handler -> HandlerState] /\ chain' \in Seq(Nat)
      /\ \A k \in Handler : ~At(k, "idle")' => CallOf(k)' \in Call
  BY <1>1, IdleState DEF TypeOK, At, CallOf
<1>6. \A a \in Account : cookies'[a] \in {cookies[a], s, 0}
  BY <1>3 DEF AuditCommit, Cookies, TypeOK
<1>7. cookies' \in [Account -> Nat]
  BY <1>3 DEF AuditCommit, Cookies, TypeOK
<1>8. Appending'
  BY <1>1, IdleState DEF TypeOK, AuditInv, Appending, At
<1>9. SessionsExist'
  BY <1>1, <1>2, <1>4, <1>6, IdleState DEF TypeOK, AuditInv, SessionsExist
<1>10. ChainLinear'
  BY <1>1, SMTT(20) DEF TypeOK, AuditInv, ChainLinear
<1>11. SessionsAudited'
  BY <1>4, <1>6 DEF AuditInv, SessionsAudited, SessionsExist, SessionsKept
<1> QED
  BY <1>5, <1>7, <1>8, <1>9, <1>10, <1>11 DEF AuditKept, AuditInv

(* Whoever begins to append finds no one else there. *)
LEMMA BeginKept ==
    ASSUME TypeOK, AuditInv, NEW h \in Handler, AuditBegin(h)
    PROVE  AuditKept
<1> DEFINE s == [handlers[h] EXCEPT !.pc = "append", !.prev = Len(chain)]
<1>1. handlers[h] \in HandlerState /\ Len(chain) \in Nat /\ CallOf(h) \in Call
  BY DEF TypeOK, AuditBegin, At
<1>2. /\ s \in HandlerState /\ s.call = handlers[h].call /\ s.prev = Len(chain)
      /\ s.fresh = handlers[h].fresh /\ s.pc = "append"
  BY <1>1, Zenon DEF HandlerState, Pc
<1>3. handlers' = [handlers EXCEPT ![h] = s]
  BY Zenon DEF AuditBegin
<1>4. /\ auditLock = Nobody /\ auditLock' = h
      /\ UNCHANGED <<cookies, chain, sessions>>
  BY DEF AuditBegin, tables
<1> HIDE DEF s
<1>5. /\ handlers' \in [Handler -> HandlerState]
      /\ \A k \in Handler : ~At(k, "idle")' => CallOf(k)' \in Call
  BY <1>1, <1>2, <1>3 DEF TypeOK, At, CallOf
<1>6. Appending'
  BY <1>2, <1>3, <1>4, NobodyAssumption DEF TypeOK, AuditInv, Appending, At
<1>7. SessionsExist' /\ ChainLinear' /\ SessionsAudited'
  BY <1>2, <1>3, <1>4, SMTT(20) DEF TypeOK, AuditInv, SessionsExist, ChainLinear, SessionsAudited
<1> QED
  BY <1>4, <1>5, <1>6, <1>7 DEF AuditKept, AuditInv, TypeOK

(* Every step keeps the handlers, the browsers and the chain. *)
LEMMA AuditStep ==
    ASSUME TypeOK, AuditInv, [Next]_vars
    PROVE  AuditKept
<1>1. SessionsKept
  BY SessionsStep
<1>2. /\ DOMAIN sessions \subseteq DOMAIN sessions'
      /\ \A h \in Handler : handlers[h].fresh # 0 => handlers[h].fresh \in DOMAIN sessions'
  BY <1>1 DEF SessionsKept, TypeOK, AuditInv, SessionsExist
<1>3. ASSUME UNCHANGED <<cookies, handlers, chain, auditLock>> PROVE AuditKept
  BY <1>1, <1>2, <1>3
  DEF AuditKept, TypeOK, AuditInv, Appending, SessionsExist, ChainLinear, SessionsAudited,
      SessionsKept, At, CallOf
<1>4. ASSUME NEW h \in Handler, CreateSession(h) PROVE AuditKept
  <2> DEFINE made == Append(sessions, NewSession(By(h)))
             s == [handlers[h] EXCEPT !.pc = "audit", !.fresh = Len(made)]
  <2>1. By(h) \in Account /\ handlers[h] \in HandlerState /\ handlers[h].call \in Call
    BY <1>4, CallAssumption DEF CreateSession, TypeOK, At, CallOf, By
  <2>2. Len(made) = Len(sessions) + 1 /\ made \in Seq(SessionRow)
    BY <2>1, Rows DEF TypeOK
  <2>3. Len(made) \in Nat /\ Len(made) \in DOMAIN made /\ DOMAIN sessions' = DOMAIN made
    BY <1>4, <2>2 DEF CreateSession, TypeOK
  <2>4. s \in HandlerState /\ s.pc = "audit" /\ s.call = handlers[h].call /\ s.fresh = Len(made)
    BY <2>1, <2>3, Zenon DEF HandlerState, Pc
  <2>5. handlers' = [handlers EXCEPT ![h] = s] /\ UNCHANGED rest
    BY <1>4, Zenon DEF CreateSession
  <2> HIDE DEF s, made
  <2>6. Moved(h, Len(made))
    BY <2>1, <2>4, <2>5, Zenon DEF Moved
  <2> QED
    BY <1>1, <2>3, <2>5, <2>6, MovedKept DEF rest
<1>5. ASSUME NEW h \in Handler, Authenticate(h) \/ AuthHandlers(h) \/ AdminHandlers(h)
      PROVE  AuditKept
  <2>1. CASE Moved(h, handlers[h].fresh)
    BY <1>1, <1>2, <1>5, <2>1, WorkMoves, MovedKept DEF rest
  <2> QED
    BY <1>4, <1>5, <2>1, WorkMoves, SMTT(20)
<1>6. ASSUME NEW h \in Handler, AuditFails(h) \/ Ends(h) PROVE AuditKept
  <2>1. Moved(h, handlers[h].fresh)
    BY <1>6, GoesOn DEF AuditFails, Ends, At, Pc
  <2>2. UNCHANGED <<cookies, chain>> /\ auditLock' = IF auditLock = h THEN Nobody ELSE auditLock
    BY <1>6 DEF AuditFails, Ends
  <2> QED
    BY <1>1, <1>2, <2>1, <2>2, MovedKept
<1>7. ASSUME NEW h \in Handler, NEW call \in Call, Begin(h, call) PROVE AuditKept
  <2> DEFINE s == [Idle EXCEPT !.call = call, !.session = cookies[call.by],
                               !.pc = IF call.op = "login" THEN "consume" ELSE "auth"]
  <2>1. cookies[call.by] \in Nat
    BY CallAssumption DEF TypeOK
  <2>2. s \in HandlerState /\ s.pc \in {"consume", "auth"} /\ s.call = call /\ s.fresh = 0
    BY <2>1, Zenon DEF Idle, HandlerState, Pc
  <2>3. handlers' = [handlers EXCEPT ![h] = s] /\ UNCHANGED <<cookies, auditLock, chain>>
    BY <1>7 DEF Begin
  <2> HIDE DEF s
  <2>4. Moved(h, 0)
    BY <2>2, <2>3, Zenon DEF Moved
  <2> QED
    BY <1>1, <2>3, <2>4, MovedKept
<1> QED
  BY <1>1, <1>3, <1>5, <1>6, <1>7, CommitKept, BeginKept
  DEF Next, vars, Handle, StartFlow, ImportRecord, rest
-----------------------------------------------------------------------------
(* The invariant                                                           *)

AccountsInv == TypeOK /\ Admitted /\ AuditInv

(* The invariant holds at the start, and nobody owns a record. *)
LEMMA AccountsInit == Init => AccountsInv /\ Promise!Init
<1> SUFFICES ASSUME Init PROVE AccountsInv /\ Promise!Init
  OBVIOUS
<1> DEFINE first(s) == [NewSession(Staff[s].user) EXCEPT !.audited = TRUE]
           of(a) == CHOOSE s \in DOMAIN Staff : Staff[s].user = a
<1>1. /\ Len(Staff) \in Nat /\ DOMAIN Staff = 1 .. Len(Staff)
      /\ \A s \in DOMAIN Staff : Staff[s] \in [user : Account, role : Role]
  BY StaffAssumption, LenProperties, ElementOfSeq, Zenon
<1>2. \A a \in Account : (\E s \in DOMAIN Staff : Staff[s].user = a) =>
          of(a) \in DOMAIN Staff /\ Staff[of(a)].role \in Role
  BY <1>1
<1>3. /\ users \in [Account -> UserRow \cup {Nobody}]
      /\ \A a \in Account : Known(a) => /\ \E s \in DOMAIN Staff : Staff[s].user = a
                                        /\ users[a].role \in Role
  BY <1>2 DEF Init, UserRow, Known
<1>4. \A s \in DOMAIN Staff : first(s) \in SessionRow /\ first(s).audited
  BY <1>1, Rows, SessionRows, Zenon
<1>5. /\ sessions \in Seq(SessionRow) /\ DOMAIN sessions = DOMAIN Staff
      /\ \A s \in DOMAIN Staff : sessions[s].audited
  <2>1. sessions = [s \in DOMAIN Staff |-> first(s)]
    BY DEF Init
  <2> HIDE DEF first
  <2>2. sessions \in [1 .. Len(Staff) -> SessionRow]
    BY <1>1, <1>4, <2>1
  <2>3. sessions \in Seq(SessionRow)
    BY <1>1, <2>2
  <2>4. \A s \in DOMAIN Staff : sessions[s].audited
    BY <1>4, <2>1, Zenon
  <2> QED
    BY <1>1, <2>1, <2>3, <2>4
<1>6. chain \in Seq(Nat) /\ ChainLinear
  <2>1. chain \in [1 .. Len(Staff) -> Nat]
    BY <1>1 DEF Init
  <2> QED
    BY <1>1, <2>1 DEF Init, ChainLinear
<1>7. /\ cookies \in [Account -> Nat]
      /\ \A a \in Account : cookies[a] # 0 => cookies[a] \in DOMAIN Staff
  <2>1. cookies = [a \in Account |-> IF Known(a) THEN of(a) ELSE 0]
    BY DEF Init
  <2>2. \A a \in Account : Known(a) => of(a) \in DOMAIN Staff
    BY <1>2, <1>3
  <2> HIDE DEF of
  <2> QED
    BY <1>1, <2>1, <2>2
<1>8. records = [r \in Record |-> Nobody] /\ handlers = [h \in Handler |-> Idle]
  BY DEF Init
<1>9. /\ handlers \in [Handler -> HandlerState]
      /\ \A h \in Handler : At(h, "idle") /\ handlers[h].fresh = 0
  BY <1>8, IdleState DEF At
<1>10. TypeOK
  BY <1>3, <1>5, <1>6, <1>7, <1>8, <1>9 DEF TypeOK
<1>11. Admitted /\ Promise!Init
  BY <1>3, <1>8, NobodyAssumption DEF Admitted, OwnerOf, Promise!Init
<1>12. AuditInv
  BY <1>5, <1>6, <1>7, <1>9, SMTT(20) DEF AuditInv, Appending, SessionsExist, SessionsAudited, At
<1> QED
  BY <1>10, <1>11, <1>12 DEF AccountsInv

(* The invariant is inductive. *)
LEMMA AccountsStep == AccountsInv /\ [Next]_vars => AccountsInv'
<1> SUFFICES ASSUME AccountsInv, [Next]_vars PROVE AccountsInv'
  OBVIOUS
<1>1. OwnersKept /\ AuditKept /\ SessionsKept
  BY OwnersStep, AuditStep, SessionsStep DEF AccountsInv
<1> QED
  BY <1>1 DEF AccountsInv, TypeOK, OwnersKept, AuditKept, SessionsKept

(* The invariant holds of every behaviour. *)
LEMMA AccountsInvariant == Spec => []AccountsInv
BY AccountsInit, AccountsStep, PTL DEF Spec

-----------------------------------------------------------------------------

(* The audit chain is linear: Append, whatever the handlers that hold and  *)
(* wait for its lock do, and however many there are.                       *)
THEOREM ChainLinearCorrect == Spec => []ChainLinear
<1>1. AccountsInv => ChainLinear
  BY DEF AccountsInv, AuditInv
<1> QED
  BY AccountsInvariant, <1>1, PTL

(* No browser holds a session whose login is not audited (callback).       *)
THEOREM SessionsAuditedCorrect == Spec => []SessionsAudited
<1>1. AccountsInv => SessionsAudited
  BY SMTT(20) DEF AccountsInv, AuditInv
<1> QED
  BY AccountsInvariant, <1>1, PTL

(* The owner of a record is an admitted user, after any sequence of        *)
(* logins, decisions, rosters, role changes and blocks.                    *)
THEOREM OwnersAdmittedCorrect == Spec => []OwnersAdmitted
<1>1. AccountsInv => OwnersAdmitted
  BY DEF AccountsInv, Admitted, AdmittedRow, OwnersAdmitted, OwnerOf
<1> QED
  BY AccountsInvariant, <1>1, PTL

(* Logins, approvals and rosters claim records as Claims promises: each at *)
(* most once and for good, and never two for one user.                     *)
THEOREM ClaimsImplemented == Spec => ImplementsClaims
<1>1. Init => Promise!Init
  BY AccountsInit
<1>2. AccountsInv /\ [Next]_vars => [Promise!Next]_OwnerOf
  <2> SUFFICES ASSUME AccountsInv, [Next]_vars PROVE [Promise!Next]_OwnerOf
    OBVIOUS
  <2>1. ClaimStep
    BY OwnersStep DEF AccountsInv, OwnersKept
  <2> QED
    BY <2>1 DEF ClaimStep, Promise!Next
<1> QED
  BY <1>1, <1>2, AccountsInvariant, PTL DEF Spec, ImplementsClaims, Promise!Spec, OwnerOf

(* The retry of a decision that was made is not a conflict                 *)
(* (beginIdempotency).                                                     *)
THEOREM ReplayCorrect == Spec => ReplayNeverConflicts
<1>1. ASSUME TypeOK, [Next]_vars, NEW h \in Handler, At(h, "tx"),
             CallOf(h).op \in {"approve", "reject"}, CallOf(h) \in idem
      PROVE  handlers'[h].pc # "conflict"
  <2>1. CASE handlers'[h] = handlers[h]
    BY <1>1, <2>1 DEF At
  <2>2. CASE Stop(h)
    BY <1>1, <2>2, IdleState DEF TypeOK, Stop
  <2>3. CASE Goto(h, "audit")
    BY <1>1, <2>3 DEF TypeOK, Goto, HandlerState
  <2>4. CallOf(h) \in SameKey(h)
    BY <1>1 DEF SameKey, CallOf, By
  <2>5. CASE ApproveStudent(h) \/ RejectUser(h)
    <3>1. ASSUME NEW allowed, NEW permitted PROVE Verdict(h, allowed, permitted) \in {"refused", "replay"}
      BY <2>4, SMTT(20) DEF Verdict
    <3>2. PICK verdict \in {"refused", "replay"} : Decide(h, verdict)
      BY <2>5, <3>1, ZenonT(30) DEF ApproveStudent, RejectUser
    <3> QED
      BY <2>2, <2>3, <3>2 DEF Decide, Refuse
  <2>6. ASSUME NEW k \in Handler, Handle(k), k # h PROVE handlers'[h] = handlers[h]
    <3>1. CreateSession(k) \/ Moved(k, handlers[k].fresh) => handlers'[h] = handlers[h]
      BY <1>1, <2>6 DEF CreateSession, Moved, TypeOK
    <3>2. AuditBegin(k) \/ AuditCommit(k) \/ AuditFails(k) \/ Ends(k) => handlers'[h] = handlers[h]
      BY <1>1, <2>6 DEF AuditBegin, AuditCommit, AuditFails, Ends, Stop, TypeOK
    <3> QED
      BY <1>1, <2>6, <3>1, <3>2, WorkMoves, Zenon DEF Handle
  <2>7. ASSUME NEW k \in Handler, NEW call \in Call, Begin(k, call)
        PROVE  handlers'[h] = handlers[h]
    BY <1>1, <2>7, SMTT(20) DEF Begin, At, TypeOK
  <2>8. CASE Handle(h)
    BY <1>1, <2>2, <2>5, <2>8, Zenon
    DEF Handle, AuthHandlers, AdminHandlers, Authenticate, Consume, LoginGitHub, CreateSession,
        ApplyRoster, SetRole, Block, AssignTeacher, ChangeSession, AuditBegin, AuditCommit,
        AuditFails, Ends, At, Op, CallOf
  <2> QED
    BY <1>1, <2>1, <2>6, <2>7, <2>8 DEF Next, vars, StartFlow, ImportRecord
<1>2. AccountsInv /\ [Next]_vars =>
        [\A h \in Handler :
            At(h, "tx") /\ CallOf(h).op \in {"approve", "reject"} /\ CallOf(h) \in idem
            => handlers'[h].pc # "conflict"]_vars
  BY <1>1 DEF AccountsInv
<1> QED
  BY <1>2, AccountsInvariant, PTL DEF Spec, ReplayNeverConflicts
=============================================================================
