------------------------------ MODULE Accounts ------------------------------
(***************************************************************************)
(* Accounts, student records and sessions (postgres/auth.go, session.go,   *)
(* admin.go, rosters.go), the requests that change them (httpapi/auth.go,  *)
(* admin.go) and the audit chain they write (postgres/audit.go).           *)
(*                                                                         *)
(* A request is handled in steps: it is authenticated, the right to it is  *)
(* checked, a transaction makes the change, a second transaction appends   *)
(* to the audit chain, and the answer goes out.  Other requests, and the   *)
(* death of the handler, come between any two.  A serializable transaction *)
(* or a single statement is one step.                                      *)
(*                                                                         *)
(* The user of a GitHub account is named by the account.  The login of an  *)
(* account is not unique and changes at GitHub, so every login brings one. *)
(***************************************************************************)
EXTENDS Naturals, Sequences

CONSTANTS
    Account, Bootstrap,   \* GitHub accounts; the one of the first administrator
    Staff,                \* administrators and teachers at the start: who, role
    Login, Group, Record,
    Call,                 \* the requests that may come in, with their senders
    Imported,             \* groups and logins that submissions arrive for
    Handler,
    Nobody,
    MaxRequests, MaxSessions  \* bounds of the model

Role == {"student", "teacher", "admin"}
UserRow == [status : {"pending", "active", "blocked", "rejected"},
            role : Role \cup {Nobody}]
RecordRow == [group : Group, login : Login, owner : Account \cup {Nobody}]

(* What the decoding of a request lets through.                            *)
ASSUME CallAssumption ==
    \A c \in Call :
        /\ c.by \in Account
        /\ c.op \in {"approve", "reject", "role", "block"} => c.user \in Account
        /\ c.op = "approve" => c.record \in Record
        /\ c.op = "role" => c.role \in Role
        /\ c.op \in {"login", "roster"} => c.login \in Login
        /\ c.op = "roster" => c.group \in Group
ASSUME StaffAssumption == Staff \in Seq([user : Account, role : Role])
ASSUME ImportedAssumption == Imported \subseteq Group \X Login
ASSUME NobodyAssumption ==
    /\ Nobody \notin Account /\ Nobody \notin Handler /\ Nobody \notin Role
    /\ Nobody \notin Call /\ Nobody \notin UserRow /\ Nobody \notin RecordRow

VARIABLES
    users,      \* status and role of the user of every account, or Nobody
    logins,     \* github_identities.login
    records,    \* group, login and owner of every student record, or Nobody
    teaches,    \* group_teachers
    idem,       \* idempotency_records: what a key of an actor was used for
    flows,      \* auth_flows: the accounts with a login under way
    sessions,   \* web_sessions, in the order of their creation
    cookies,    \* the session in the browser of every account, 0 without one
    handlers, auditLock,
    chain,      \* audit_events: for every event the one whose hash it carries
    requests    \* requests so far

vars == <<users, logins, records, teaches, idem, flows, sessions, cookies,
          handlers, auditLock, chain, requests>>

(* The tables, and what a step that only changes tables leaves alone.       *)
tables == <<users, logins, records, teaches, idem, flows, sessions>>
rest == <<cookies, auditLock, chain, requests>>

-----------------------------------------------------------------------------

Idle == [pc |-> "idle", call |-> Nobody, session |-> 0, fresh |-> 0, prev |-> 0]

NewSession(a) == [user |-> a, live |-> TRUE, view |-> FALSE, audited |-> FALSE]
Admin == [status |-> "active", role |-> "admin"]
Student == [status |-> "active", role |-> "student"]

Known(a) == users[a] # Nobody

(* The administrators and teachers have logged in, and everything else is  *)
(* to come.  Their logins are in no roster.                                *)
Init ==
    /\ users = [a \in Account |->
          IF \E s \in DOMAIN Staff : Staff[s].user = a
          THEN [status |-> "active",
                role |-> Staff[CHOOSE s \in DOMAIN Staff : Staff[s].user = a].role]
          ELSE Nobody]
    /\ logins = [a \in Account |-> Nobody]
    /\ records = [r \in Record |-> Nobody]
    /\ teaches = {} /\ idem = {} /\ flows = {}
    /\ sessions = [s \in DOMAIN Staff |->
                      [NewSession(Staff[s].user) EXCEPT !.audited = TRUE]]
    /\ cookies = [a \in Account |->
          IF Known(a) THEN CHOOSE s \in DOMAIN Staff : Staff[s].user = a ELSE 0]
    /\ chain = [s \in DOMAIN Staff |-> s - 1]
    /\ handlers = [h \in Handler |-> Idle]
    /\ auditLock = Nobody
    /\ requests = 0

At(h, pc) == handlers[h].pc = pc
Op(h, op) == handlers[h].call # Nobody /\ handlers[h].call.op = op
CallOf(h) == handlers[h].call
By(h) == handlers[h].call.by
Goto(h, pc) == handlers' = [handlers EXCEPT ![h].pc = pc]
Stop(h) == handlers' = [handlers EXCEPT ![h] = Idle]

(* A conflict is told from other refusals for the sake of a property.      *)
Refuse(h, why) == IF why = "conflict" THEN Goto(h, "conflict") ELSE Stop(h)

Active(a, roles) == Known(a) /\ users[a].status = "active" /\ users[a].role \in roles
Unclaimed(r) == records[r] # Nobody /\ records[r].owner = Nobody
New == IF \A r \in Record : records[r] # Nobody THEN {}
       ELSE {CHOOSE r \in Record : records[r] = Nobody}
Linked(a) == \E r \in Record : records[r] # Nobody /\ records[r].owner = a
Owned(r, a) == [records EXCEPT ![r].owner = a]

-----------------------------------------------------------------------------
(* Requests come in and are authenticated.                                 *)

(* GET /auth/github/start: the state of a login is stored.                 *)
StartFlow(call) ==
    /\ call.op = "login" /\ call.by \notin flows /\ requests < MaxRequests
    /\ flows' = flows \cup {call.by}
    /\ UNCHANGED <<users, logins, records, teaches, idem, sessions, handlers>>
    /\ UNCHANGED rest

Begin(h, call) ==
    /\ At(h, "idle") /\ requests < MaxRequests
    /\ call.op = "login" => call.by \in flows
    /\ requests' = requests + 1
    /\ handlers' = [handlers EXCEPT ![h] =
          [Idle EXCEPT !.call = call, !.session = cookies[call.by],
                       !.pc = IF call.op = "login" THEN "consume" ELSE "auth"]]
    /\ UNCHANGED tables /\ UNCHANGED <<cookies, auditLock, chain>>

(* The session must not have ended and its user not be blocked; a session  *)
(* that looks at the site in another role may only stop that, or end.      *)
(* What is left to administrators (isAdmin) or to them and teachers        *)
(* (canManageRosters) is checked here, before the transaction.             *)
Authenticate(h) ==
    LET s == handlers[h].session
        op == CallOf(h).op
        known == s # 0 /\ sessions[s].live
                 /\ users[sessions[s].user].status # "blocked"
        view == sessions[s].view /\ op \notin {"logout", "clear"}
        entitled == CASE op \in {"role", "block", "assign", "view"} ->
                            /\ Active(By(h), {"admin"})
                            /\ op = "block" => CallOf(h).user # By(h)
                      [] op = "roster" -> Active(By(h), {"teacher", "admin"})
                      [] OTHER -> TRUE
    IN
    /\ At(h, "auth")
    /\ IF known /\ ~view /\ entitled THEN Goto(h, "tx") ELSE Stop(h)
    /\ UNCHANGED tables /\ UNCHANGED rest

-----------------------------------------------------------------------------
(* Login.                                                                  *)

Consume(h) ==
    /\ At(h, "consume")
    /\ flows' = flows \ {By(h)}
    /\ IF By(h) \in flows THEN Goto(h, "tx") ELSE Stop(h)
    /\ UNCHANGED <<users, logins, records, teaches, idem, sessions>>
    /\ UNCHANGED rest

(* A known account keeps its user; a new one claims the one record that    *)
(* expects its login, or waits for a decision.                             *)
LoginGitHub(h) ==
    LET a == By(h)
        l == CallOf(h).login
        candidates == {r \in Record : Unclaimed(r) /\ records[r].login = l}
        one == a # Bootstrap /\ \E r \in candidates : candidates = {r}
    IN
    /\ At(h, "tx") /\ Op(h, "login")
    /\ logins' = [logins EXCEPT ![a] = l]
    /\ IF Known(a)
       THEN /\ UNCHANGED records
            /\ IF a = Bootstrap /\ users[a].status # "blocked"
               THEN users' = [users EXCEPT ![a] = Admin]
               ELSE UNCHANGED users
       ELSE /\ users' = [users EXCEPT ![a] =
                  IF a = Bootstrap THEN Admin
                  ELSE IF one THEN Student
                  ELSE [status |-> "pending", role |-> Nobody]]
            /\ records' = IF one THEN Owned(CHOOSE r \in candidates : TRUE, a)
                          ELSE records
    /\ IF users'[a].status = "blocked" THEN Stop(h)
       ELSE Goto(h, "session")
    /\ UNCHANGED <<teaches, idem, flows, sessions>> /\ UNCHANGED rest

(* A session is made, and the one the browser still holds is ended; an     *)
(* error of that is ignored.                                               *)
CreateSession(h) ==
    LET s == handlers[h].session
        made == Append(sessions, NewSession(By(h)))
    IN
    /\ At(h, "session") /\ Len(sessions) < MaxSessions
    /\ sessions' \in {made, IF s = 0 THEN made ELSE [made EXCEPT ![s].live = FALSE]}
    /\ handlers' = [handlers EXCEPT ![h].pc = "audit", ![h].fresh = Len(made)]
    /\ UNCHANGED <<users, logins, records, teaches, idem, flows>>
    /\ UNCHANGED rest

-----------------------------------------------------------------------------
(* Decisions on pending users.                                             *)

(* The key was used by this actor for this route.                          *)
SameKey(h) ==
    {c \in idem : c.by = By(h) /\ c.op = CallOf(h).op /\ c.key = CallOf(h).key}

VerdictMutant(h, allowed, permitted) ==
    IF ~Active(By(h), {"teacher", "admin"}) THEN "refused"
    ELSE IF ~allowed THEN "conflict"
    ELSE IF ~permitted THEN "refused"
    ELSE IF SameKey(h) # {}
         THEN IF CallOf(h) \in SameKey(h) THEN "replay" ELSE "conflict"
    ELSE "do"

(* The order of the checks: the actor, the key, the state of the user and  *)
(* the record, the rights of a teacher.                                    *)
Verdict(h, allowed, permitted) ==
    IF ~Active(By(h), {"teacher", "admin"}) THEN "refused"
    ELSE IF SameKey(h) # {}
         THEN IF CallOf(h) \in SameKey(h) THEN "replay" ELSE "conflict"
    ELSE IF ~allowed THEN "conflict"
    ELSE IF ~permitted THEN "refused"
    ELSE "do"

Decide(h, verdict) ==
    /\ idem' = IF verdict = "do" THEN idem \cup {CallOf(h)} ELSE idem
    /\ IF verdict \in {"do", "replay"} THEN Goto(h, "audit") ELSE Refuse(h, verdict)
    /\ UNCHANGED <<logins, teaches, flows, sessions>> /\ UNCHANGED rest

ApproveStudent(h) ==
    LET u == CallOf(h).user
        r == CallOf(h).record
        allowed == /\ Known(u)
                   /\ users[u].status = "pending" \/ users[u] = Student
                   /\ Unclaimed(r) /\ records[r].login = logins[u]
                   /\ ~Linked(u)
        permitted == users[By(h)].role = "teacher" =>
                         <<records[r].group, By(h)>> \in teaches
        verdict == Verdict(h, allowed, permitted)
    IN
    /\ At(h, "tx") /\ Op(h, "approve")
    /\ IF verdict = "do"
       THEN users' = [users EXCEPT ![u] = Student] /\ records' = Owned(r, u)
       ELSE UNCHANGED <<users, records>>
    /\ Decide(h, verdict)

RejectUserMutant(h) ==
    LET u == CallOf(h).user
        verdict == Verdict(h, Known(u), TRUE)
    IN
    /\ At(h, "tx") /\ Op(h, "reject")
    /\ users' = IF verdict = "do"
                THEN [users EXCEPT ![u] = [status |-> "rejected", role |-> Nobody]]
                ELSE users
    /\ UNCHANGED records
    /\ Decide(h, verdict)

RejectUser(h) ==
    LET u == CallOf(h).user
        allowed == Known(u) /\ users[u].status = "pending"
        permitted == users[By(h)].role = "teacher" =>
                         \E r \in Record : /\ records[r] # Nobody
                                           /\ records[r].login = logins[u]
                                           /\ <<records[r].group, By(h)>> \in teaches
        verdict == Verdict(h, allowed, permitted)
    IN
    /\ At(h, "tx") /\ Op(h, "reject")
    /\ users' = IF verdict = "do"
                THEN [users EXCEPT ![u] = [status |-> "rejected", role |-> Nobody]]
                ELSE users
    /\ UNCHANGED records
    /\ Decide(h, verdict)

-----------------------------------------------------------------------------
(* Administration.                                                         *)

(* Everybody may be given a role but a rejected user, whom the table does  *)
(* not let become active.                                                  *)
SetRole(h) ==
    LET u == CallOf(h).user
        able == Known(u) /\ users[u].status # "rejected"
    IN
    /\ At(h, "tx") /\ Op(h, "role")
    /\ users' = IF able
                THEN [users EXCEPT ![u] = [status |-> "active", role |-> CallOf(h).role]]
                ELSE users
    /\ IF able THEN Goto(h, "audit") ELSE Stop(h)
    /\ UNCHANGED <<logins, records, teaches, idem, flows, sessions>>
    /\ UNCHANGED rest

(* The user is blocked and all sessions of the user end.                   *)
Block(h) ==
    LET u == CallOf(h).user
        able == Known(u) /\ users[u].status # "blocked"
    IN
    /\ At(h, "tx") /\ Op(h, "block")
    /\ IF able
       THEN /\ users' = [users EXCEPT ![u].status = "blocked"]
            /\ sessions' = [s \in DOMAIN sessions |->
                  [sessions[s] EXCEPT !.live = @ /\ sessions[s].user # u]]
            /\ Goto(h, "audit")
       ELSE Refuse(h, "conflict") /\ UNCHANGED <<users, sessions>>
    /\ UNCHANGED <<logins, records, teaches, idem, flows>> /\ UNCHANGED rest

AssignTeacher(h) ==
    LET pair == <<CallOf(h).group, CallOf(h).user>>
        able == Active(CallOf(h).user, {"teacher", "admin"}) /\ pair \notin teaches
    IN
    /\ At(h, "tx") /\ Op(h, "assign")
    /\ teaches' = IF able THEN teaches \cup {pair} ELSE teaches
    /\ IF able THEN Goto(h, "audit") ELSE Refuse(h, "conflict")
    /\ UNCHANGED <<users, logins, records, idem, flows, sessions>>
    /\ UNCHANGED rest

(* SetViewAs, ClearViewAs and the end of a session.                        *)
ChangeSession(h) ==
    LET s == handlers[h].session IN
    /\ At(h, "tx") /\ CallOf(h).op \in {"view", "clear", "logout"}
    /\ sessions' = [sessions EXCEPT
          ![s] = IF CallOf(h).op = "logout" THEN [@ EXCEPT !.live = FALSE]
                 ELSE IF @.live THEN [@ EXCEPT !.view = CallOf(h).op = "view"]
                 ELSE @]
    /\ Goto(h, "audit")
    /\ UNCHANGED <<users, logins, records, teaches, idem, flows>>
    /\ UNCHANGED rest

-----------------------------------------------------------------------------
(* Rosters.                                                                *)

(* The accounts that an unclaimed record with this login may go to.        *)
Claimants(l) ==
    {a \in Account : /\ Known(a) /\ logins[a] = l
                     /\ users[a].status \in {"pending", "active"}
                     /\ users[a].role \in {Nobody, "student"}
                     /\ ~Linked(a)}

ApplyRosterMutant(h) ==
    LET g == CallOf(h).group
        l == CallOf(h).login
    IN
    /\ At(h, "tx") /\ Op(h, "roster")
    /\ \E r \in {x \in Record : records[x] # Nobody}, a \in Account \cup {Nobody} :
          /\ IF Claimants(l) = {} THEN a = Nobody ELSE a \in Claimants(l)
          /\ records' = [records EXCEPT ![r] = [group |-> g, login |-> l, owner |-> a]]
          /\ users' = IF a = Nobody THEN users ELSE [users EXCEPT ![a] = Student]
    /\ teaches' = teaches \cup {<<g, By(h)>>}
    /\ Goto(h, "audit")
    /\ UNCHANGED <<logins, idem, flows, sessions>> /\ UNCHANGED rest

(* A roster with one student: the record that expects the login is moved   *)
(* to the group or made; if it is unclaimed and somebody with the login    *)
(* has signed in, it is claimed, and its owner becomes an active student.  *)
(* The table refuses a second record of the login in a group, and an       *)
(* active user who is still marked as blocked: then nothing is applied.    *)
ApplyRoster(h) ==
    LET g == CallOf(h).group
        l == CallOf(h).login
        expecting == {r \in Record : records[r] # Nobody /\ records[r].login = l}
    IN
    /\ At(h, "tx") /\ Op(h, "roster")
    /\ \E r \in IF expecting = {} THEN New ELSE expecting :
       \E a \in Account \cup {Nobody} :
          LET kept == IF r \in expecting THEN records[r].owner ELSE Nobody
              taken == \E x \in expecting \ {r} : records[x].group = g
              ends == a # Nobody /\ (users[a].status = "pending"
                                     \/ users[a].role = "student")
          IN
          /\ IF kept # Nobody THEN a = kept
             ELSE IF Claimants(l) = {} THEN a = Nobody ELSE a \in Claimants(l)
          /\ IF taken \/ (ends /\ users[a].status = "blocked")
             THEN Stop(h) /\ UNCHANGED <<users, records, teaches>>
             ELSE /\ records' = [records EXCEPT ![r] =
                                    [group |-> g, login |-> l, owner |-> a]]
                  /\ users' = IF ends THEN [users EXCEPT ![a] = Student] ELSE users
                  /\ teaches' = teaches \cup {<<g, By(h)>>}
                  /\ Goto(h, "audit")
    /\ UNCHANGED <<logins, idem, flows, sessions>> /\ UNCHANGED rest

(* An import of submissions makes the records its students still lack.     *)
ImportRecord(g, l) ==
    /\ ~\E x \in Record : records[x] # Nobody /\ records[x].group = g
                          /\ records[x].login = l
    /\ \E r \in New :
          records' = [records EXCEPT ![r] = [group |-> g, login |-> l, owner |-> Nobody]]
    /\ UNCHANGED <<users, logins, teaches, idem, flows, sessions, handlers>>
    /\ UNCHANGED rest

-----------------------------------------------------------------------------
(* The audit chain, the answer, and failures.                              *)

AuditBeginMutant(h) ==
    /\ At(h, "audit")
    /\ auditLock' = h
    /\ handlers' = [handlers EXCEPT ![h].pc = "append", ![h].prev = Len(chain)]
    /\ UNCHANGED tables /\ UNCHANGED <<cookies, chain, requests>>

(* The chain is locked and its last event read.                            *)
AuditBegin(h) ==
    /\ At(h, "audit") /\ auditLock = Nobody
    /\ auditLock' = h
    /\ handlers' = [handlers EXCEPT ![h].pc = "append", ![h].prev = Len(chain)]
    /\ UNCHANGED tables /\ UNCHANGED <<cookies, chain, requests>>

(* What the browser of the sender holds once it has the answer.            *)
Cookies(h) ==
    CASE CallOf(h).op = "login" -> [cookies EXCEPT ![By(h)] = handlers[h].fresh]
      [] CallOf(h).op = "logout" -> [cookies EXCEPT ![By(h)] = 0]
      [] OTHER -> cookies

(* The event is written and the answer sent, which may be lost.            *)
AuditCommit(h) ==
    LET s == handlers[h].fresh IN
    /\ At(h, "append")
    /\ chain' = Append(chain, handlers[h].prev)
    /\ sessions' = IF s = 0 THEN sessions
                   ELSE [sessions EXCEPT ![s].audited = TRUE]
    /\ cookies' \in {cookies, Cookies(h)}
    /\ auditLock' = Nobody
    /\ Stop(h)
    /\ UNCHANGED <<users, logins, records, teaches, idem, flows, requests>>

AuditFailsMutant(h) ==
    /\ At(h, "append")
    /\ cookies' \in {cookies, Cookies(h)}
    /\ auditLock' = Nobody
    /\ Stop(h)
    /\ UNCHANGED tables /\ UNCHANGED <<chain, requests>>

(* The event cannot be written.  A login takes its session back, if it can.*)
AuditFails(h) ==
    LET s == handlers[h].fresh IN
    /\ At(h, "audit") \/ At(h, "append")
    /\ auditLock' = IF auditLock = h THEN Nobody ELSE auditLock
    /\ sessions' \in {sessions, IF s = 0 THEN sessions
                                ELSE [sessions EXCEPT ![s].live = FALSE]}
    /\ Stop(h)
    /\ UNCHANGED <<users, logins, records, teaches, idem, flows, cookies, chain,
                   requests>>

(* GitHub, a transaction or a read before it fails, the session has come   *)
(* to the end of its time, or the handler dies.  A conflict is answered.   *)
Ends(h) ==
    /\ ~At(h, "idle")
    /\ Stop(h)
    /\ auditLock' = IF auditLock = h THEN Nobody ELSE auditLock
    /\ UNCHANGED tables /\ UNCHANGED <<cookies, chain, requests>>

-----------------------------------------------------------------------------

(* callback, logout, approve, reject.                                      *)
AuthHandlers(h) ==
    \/ Consume(h) \/ LoginGitHub(h) \/ CreateSession(h)
    \/ ApproveStudent(h) \/ RejectUser(h)

(* applyRoster, setRole, block, assignTeacher, view, clearView.            *)
AdminHandlers(h) ==
    ApplyRoster(h) \/ SetRole(h) \/ Block(h) \/ AssignTeacher(h) \/ ChangeSession(h)

Handle(h) ==
    \/ Authenticate(h) \/ AuthHandlers(h) \/ AdminHandlers(h)
    \/ AuditBegin(h) \/ AuditCommit(h) \/ AuditFails(h) \/ Ends(h)

Next ==
    \/ \E h \in Handler : Handle(h)
    \/ \E h \in Handler, call \in Call : Begin(h, call)
    \/ \E call \in Call : StartFlow(call)
    \/ \E i \in Imported : ImportRecord(i[1], i[2])

Spec == Init /\ [][Next]_vars

-----------------------------------------------------------------------------

(* Every change to a record is a claim as Claims allows it, on each of the *)
(* three ways there are: a first login, an approval, a roster ("A claimed  *)
(* record is never reassigned to another user", rosters.go).               *)
Promise == INSTANCE Claims WITH
    owner <- [r \in Record |-> IF records[r] = Nobody THEN Nobody
                               ELSE records[r].owner]
ImplementsClaims == Promise!Spec

(* Who owns a record has been admitted: whatever administrators, rosters   *)
(* and logins did since the claim, the owner is not a user who waits for a *)
(* decision, was rejected or has no role (the lists of pending users and   *)
(* the decisions on them take that for granted).                           *)
OwnersAdmitted ==
    \A r \in Record : records[r] # Nobody /\ records[r].owner # Nobody =>
        /\ Known(records[r].owner)
        /\ users[records[r].owner].status \in {"active", "blocked"}
        /\ users[records[r].owner].role # Nobody

(* A browser only ever holds a session whose login is in the audit chain   *)
(* (callback takes the session back when the event cannot be written).     *)
SessionsAudited ==
    \A a \in Account : cookies[a] # 0 => sessions[cookies[a]].audited

(* A decision that was made is never answered with a conflict when it is   *)
(* asked for again with the same key, whoever else has changed the user or *)
(* the record since (beginIdempotency).                                    *)
ReplayNeverConflicts ==
    [][\A h \in Handler :
          At(h, "tx") /\ CallOf(h).op \in {"approve", "reject"} /\ CallOf(h) \in idem
          => handlers'[h].pc # "conflict"]_vars

(* Every audit event carries the hash of the one before it, in the order   *)
(* of their numbers, for any interleaving of handlers that append, fail    *)
(* and die (Append under its advisory lock).                               *)
ChainLinear == \A i \in DOMAIN chain : chain[i] = i - 1

=============================================================================
