---------------------------- MODULE SessionProofs ----------------------------
(***************************************************************************)
(* The two C++ programs.  WorkerSession, for any number of processes,      *)
(* contents and answers: what lies under a final name is whole, is         *)
(* published once and is what every successful process answered.           *)
(* CliSession, for all time limits and any number of builds: the verdict   *)
(* is in time and the report agrees with it.                               *)
(***************************************************************************)
EXTENDS WorkerSession, CliSession, FiniteSetTheorems, TLAPS

-----------------------------------------------------------------------------
(* The local session                                                       *)

(* A build runs while the session is checked, and neither a report nor a   *)
(* build that passed is there before the session is over.                  *)
OpenSession ==
    /\ building # "none" <=> status = "checking"
    /\ status \in {"active", "checking"} => selected /\ report = "none" /\ ~ passed

(* The inductive invariant. *)
CliInv ==
    /\ selected \in BOOLEAN /\ running \in BOOLEAN
    /\ passed \in BOOLEAN /\ unsaved \in BOOLEAN
    /\ answer \in AnswerFile
    /\ OpenSession /\ VerdictInTime /\ ReportAgrees

(* Nothing was started, so nothing is reported. *)
LEMMA CliStart == CliInit => CliInv
BY Zenon DEF CliInit, CliInv, OpenSession, VerdictInTime, ReportAgrees, Ended,
           AnswerFile

(* Every command, the timer and the end of the program keep it. *)
LEMMA CliStep == CliInv /\ [CliNext]_cliVars => CliInv'
<1> SUFFICES ASSUME CliInv, [CliNext]_cliVars PROVE CliInv'
  OBVIOUS
<1> USE DEF CliInv, OpenSession, VerdictInTime, ReportAgrees, Ended,
           AnswerFile
<1>1. ASSUME NEW limit \in Limit, Start(limit) PROVE CliInv'
  BY <1>1, Zenon DEF Start, Command, Prompt
<1>2. CASE StartFails
  <2>1. /\ status' = "error" /\ ~ selected' /\ ~ running' /\ building' = building
        /\ building = "none"
        /\ selected' \in BOOLEAN /\ running' \in BOOLEAN
    BY <1>2, Zenon DEF StartFails, Reset, Command, Prompt
  <2>2. \/ /\ report' \in {report, "none"} /\ answer' \in {answer, "unreadable"}
           /\ passed' = passed /\ unsaved' = unsaved
        \/ /\ report' = "none" /\ answer' \in {"unreadable", "wrong"}
           /\ ~ passed' /\ passed' \in BOOLEAN /\ unsaved' \in BOOLEAN
    BY <1>2, Zenon DEF StartFails, history
  <2> QED
    BY <2>1, <2>2
<1>3. CASE CheckBegins
  BY <1>3 DEF CheckBegins, Command, Prompt, files, history
<1>4. CASE CheckExpired
  BY <1>4, Zenon DEF CheckExpired, Save, Saved, NotSaved, session
<1>5. CASE CheckFails
  BY <1>5 DEF CheckFails, BuildDone, history
<1>6. CASE CheckTimesOut
  BY <1>6, Zenon DEF CheckTimesOut, BuildDone, Verdict, FinalizeStatus, Saved,
              NotSaved, Unnoticed
<1>7. CASE CheckPasses
  BY <1>7, Zenon DEF CheckPasses, BuildDone, Verdict, FinalizeStatus, Saved,
              NotSaved, Unnoticed
<1>8. CASE Expire
  BY <1>8, Zenon DEF Expire, Overdue, FinalizeStatus, Save, Saved,
              NotSaved
<1>9. CASE Quit
  BY <1>9, Zenon DEF Quit, Prompt, Finish, FinalizeStatus, Save,
              Saved, NotSaved, session
<1>10. CASE Killed
  BY <1>10 DEF Killed, session, files, history
<1>11. CASE Tick
  BY <1>11 DEF Tick, files, history
<1>12. ASSUME NEW a \in AnswerFile, Edit(a) PROVE CliInv'
  BY <1>12 DEF Edit, session, history
<1>13. CASE UNCHANGED cliVars
  BY <1>13 DEF cliVars, session, files, history
<1> QED
  BY <1>1, <1>2, <1>3, <1>4, <1>5, <1>6, <1>7, <1>8, <1>9, <1>10, <1>11, <1>12,
     <1>13, Zenon DEF CliNext

(* The inductive invariant holds of every session. *)
LEMMA CliInvariant == CliSpec => []CliInv
BY CliStart, CliStep, PTL DEF CliSpec

(* A defense is won only by a build that passed before the deadline, and   *)
(* expires only at it (DefenseSession::Check and ExpireIfNeeded), for all  *)
(* time limits and any number of builds.                                   *)
THEOREM VerdictInTimeCorrect == CliSpec => []VerdictInTime
<1>1. CliInv => VerdictInTime
  BY DEF CliInv
<1> QED
  BY CliInvariant, <1>1, PTL

(* The report beside a session tells its outcome (DefenseSession::Finish   *)
(* and DefenseResultWriter::Write), for all time limits and any number of  *)
(* builds.                                                                 *)
THEOREM ReportAgreesCorrect == CliSpec => []ReportAgrees
<1>1. CliInv => ReportAgrees
  BY DEF CliInv
<1> QED
  BY CliInvariant, <1>1, PTL

-----------------------------------------------------------------------------
(* The worker                                                              *)

(* The steps of a process that has the lock. *)
Locked == {"locked", "stage", "write", "check", "rename"}

CallRow == [request : Request, pc : Locked \cup {"start", "respond", "done"},
            temp : {"none", "empty", "whole"}, made : Document \cup {None},
            response : Response \cup {None}]

WorkerTypes ==
    /\ project \in Source /\ lock \in Call \cup {None}
    /\ state \in [Phase -> Document \cup {None}] /\ output \in Document \cup {None}
    /\ calls \in [Call -> CallRow]

(* At most one process is between taking and dropping the lock. *)
LockExclusive == \A c \in Call : calls[c].pc \in Locked <=> lock = c

Materializes(c) == calls[c].request.command = "materialize"

(* A process on its way to the rename found the final name free, and an    *)
(* attempt its source; what it renames is complete.                        *)
WayToRename(c) ==
    /\ calls[c].pc \in Locked \ {"locked"} => Published(c) = None
    /\ calls[c].pc \in Locked \ {"locked"} /\ Materializes(c) =>
          /\ project = calls[c].request.source
          /\ calls[c].request.input \notin Invalid
    /\ calls[c].pc = "rename" => calls[c].temp = "whole"
    /\ calls[c].pc = "check" /\ Materializes(c) => calls[c].temp = "whole"

(* Whoever made something published it, and an attempt is made once. *)
MadeIsPublished ==
    /\ \A c \in Call : calls[c].made # None => calls[c].made = Published(c)
    /\ \A c \in Call : calls[c].pc = "respond" \/ calls[c].response = "ok" =>
          calls[c].made # None
    /\ \A c, d \in Call :
          /\ Materializes(c) /\ calls[c].made # None
          /\ Materializes(d) /\ calls[d].made # None
          => c = d

(* The attempt's directory has the answer of a request. *)
OutputAnswers ==
    output # None => \E c \in Call :
        /\ Materializes(c)
        /\ output.key = <<calls[c].request.input, calls[c].request.source>>
        /\ calls[c].request.input \notin Invalid

(* The inductive invariant. *)
WorkerInv ==
    /\ WorkerTypes /\ LockExclusive /\ PublishedWhole
    /\ \A c \in Call : WayToRename(c)
    /\ MadeIsPublished /\ OutputAnswers

(* What a request carries. *)
LEMMA Requests ==
    ASSUME WorkerTypes, NEW c \in Call
    PROVE  LET r == calls[c].request IN
           /\ r.command \in {"catalog", "challenge", "materialize"}
           /\ r.input \in Answer
           /\ Preparing(c) <=> ~ Materializes(c)
           /\ Materializes(c) => r.source \in Source
           /\ Key(c) \in Answer \X Source /\ Made(c) \in Document
           /\ Made(c).key = Key(c) /\ Made(c).whole
           /\ Published(c) \in Document \cup {None}
<1>1. calls[c].request \in Request
  BY DEF WorkerTypes, CallRow
<1>2. LET r == calls[c].request IN
      /\ r.command \in {"catalog", "challenge", "materialize"}
      /\ r.input \in Answer
      /\ r.command = "materialize" => r.source \in Source
  BY <1>1 DEF Request, Phase
<1>3. Preparing(c) <=> ~ Materializes(c)
  BY <1>2 DEF Preparing, Phase, Materializes
<1>4. Key(c) \in Answer \X Source
  BY <1>2 DEF WorkerTypes, Key
<1>5. Made(c) \in Document /\ Made(c).key = Key(c) /\ Made(c).whole
  BY <1>4 DEF Made, Document
<1>6. Published(c) \in Document \cup {None}
  BY <1>2 DEF Published, Preparing, WorkerTypes
<1> QED
  BY <1>2, <1>3, <1>4, <1>5, <1>6 DEF Materializes

(* A process moves: the other ones and its request stay. *)
Moves(c) ==
    /\ calls' \in [Call -> CallRow]
    /\ \A d \in Call \ {c} : calls'[d] = calls[d]
    /\ calls'[c].request = calls[c].request

(* Go changes the place of one process only. *)
LEMMA Goes ==
    ASSUME WorkerTypes, NEW c \in Call,
           NEW pc \in Locked \cup {"start", "respond", "done"}, Go(c, pc)
    PROVE  /\ Moves(c) /\ calls'[c].pc = pc /\ calls'[c].temp = calls[c].temp
           /\ calls'[c].made = calls[c].made /\ calls'[c].response = calls[c].response
BY DEF Go, WorkerTypes, CallRow, Moves

(* Leave drops the lock and records the answer. *)
LEMMA Leaves ==
    ASSUME WorkerTypes, NEW c \in Call, NEW r \in Response,
           NEW doc \in Document \cup {None}, Leave(c, r, doc)
    PROVE  /\ Moves(c) /\ calls'[c].pc = "done" /\ calls'[c].made = doc
           /\ calls'[c].response = r /\ lock' = None
BY ZenonT(30) DEF Leave, WorkerTypes, CallRow, Moves

(* A step that publishes nothing concerns its process alone.               *)
LEMMA Quiet ==
    ASSUME WorkerInv, NEW c \in Call, Moves(c), UNCHANGED disk,
           lock' \in Call \cup {None}, LockExclusive', WayToRename(c)',
           calls'[c].made # None => calls'[c].made = Published(c),
           calls'[c].pc = "respond" \/ calls'[c].response = "ok" =>
               calls'[c].made # None,
           Materializes(c) => calls'[c].made \in {calls[c].made, None}
    PROVE  WorkerInv'
<1>1. WorkerTypes'
  BY DEF WorkerInv, WorkerTypes, Moves, disk
<1>2. \A d \in Call : /\ calls'[d].request = calls[d].request
                      /\ Materializes(d)' = Materializes(d)
                      /\ Preparing(d)' = Preparing(d)
                      /\ Published(d)' = Published(d)
  BY DEF Moves, disk, Materializes, Preparing, Published
<1>3. PublishedWhole'
  BY DEF WorkerInv, PublishedWhole, disk
<1>4. \A d \in Call : WayToRename(d)'
  <2> SUFFICES ASSUME NEW d \in Call \ {c} PROVE WayToRename(d)'
    OBVIOUS
  <2>1. calls'[d] = calls[d] /\ WayToRename(d) /\ project' = project
    BY DEF Moves, WorkerInv, disk
  <2> QED
    BY <1>2, <2>1 DEF WayToRename
<1>5. \A d \in Call \ {c} : calls'[d] = calls[d]
  BY DEF Moves
<1>6. MadeIsPublished'
  <2>1. MadeIsPublished
    BY DEF WorkerInv
  <2>2. \A d \in Call : calls'[d].made # None => calls'[d].made = Published(d)'
    BY <1>2, <1>5, <2>1 DEF MadeIsPublished
  <2>3. \A d \in Call : calls'[d].pc = "respond" \/ calls'[d].response = "ok" =>
            calls'[d].made # None
    BY <1>5, <2>1 DEF MadeIsPublished
  <2>4. \A d \in Call : Materializes(d) => calls'[d].made \in {calls[d].made, None}
    BY <1>5
  <2>5. \A d, e \in Call :
            /\ Materializes(d)' /\ calls'[d].made # None
            /\ Materializes(e)' /\ calls'[e].made # None
            => d = e
    BY <1>2, <2>1, <2>4 DEF MadeIsPublished
  <2> QED
    BY <2>2, <2>3, <2>5 DEF MadeIsPublished
<1>7. OutputAnswers'
  BY <1>2 DEF WorkerInv, OutputAnswers, disk
<1> QED
  BY <1>1, <1>3, <1>4, <1>6, <1>7 DEF WorkerInv

(* A process that is left has dropped the lock. *)
LEMMA LeaveStep ==
    ASSUME WorkerInv, NEW c \in Call, calls[c].pc \in Locked, NEW r \in Response,
           NEW doc \in Document \cup {None}, Leave(c, r, doc), UNCHANGED disk,
           Materializes(c) => doc = None,
           doc # None => doc = Published(c),
           r = "ok" => doc # None
    PROVE  WorkerInv'
<1>1. /\ Moves(c) /\ calls'[c].pc = "done" /\ calls'[c].made = doc
      /\ calls'[c].response = r /\ lock' = None
  BY Leaves DEF WorkerInv
<1>2. LockExclusive'
  BY <1>1, NoneWorkerAssumption DEF WorkerInv, LockExclusive, Moves, Locked
<1>3. WayToRename(c)'
  BY <1>1 DEF WayToRename, Locked
<1> QED
  BY <1>1, <1>2, <1>3, Quiet

(* A process that goes on keeps the lock. *)
LEMMA GoStep ==
    ASSUME WorkerInv, NEW c \in Call, calls[c].pc \in Locked,
           NEW pc \in Locked, Go(c, pc), UNCHANGED <<disk, lock>>,
           WayToRename(c)'
    PROVE  WorkerInv'
<1>1. /\ Moves(c) /\ calls'[c].pc = pc /\ calls'[c].temp = calls[c].temp
      /\ calls'[c].made = calls[c].made /\ calls'[c].response = calls[c].response
  BY Goes DEF WorkerInv
<1>2. LockExclusive'
  BY <1>1 DEF WorkerInv, LockExclusive, Moves
<1>3. pc # "respond"
  BY DEF Locked
<1>4. lock' \in Call \cup {None}
  BY DEF WorkerInv, WorkerTypes
<1>5. /\ calls'[c].made # None => calls'[c].made = Published(c)
      /\ calls'[c].response = "ok" => calls'[c].made # None
  BY <1>1 DEF WorkerInv, MadeIsPublished
<1> QED
  BY <1>1, <1>2, <1>3, <1>4, <1>5, Quiet

(* The steps of one process.                                               *)
LEMMA BeginStep ==
    ASSUME WorkerInv, NEW c \in Call, Begin(c)
    PROVE  WorkerInv'
<1>1. calls[c].pc = "start" /\ UNCHANGED disk
  BY DEF Begin, At
<1>2. CASE lock = None /\ lock' = c /\ Go(c, "locked")
  <2>1. lock' = c /\ Go(c, "locked")
    BY <1>2
  <2>2. /\ Moves(c) /\ calls'[c].pc = "locked" /\ calls'[c].made = calls[c].made
        /\ calls'[c].response = calls[c].response
    BY <2>1, Goes DEF WorkerInv, Locked
  <2>3. LockExclusive'
    BY <1>2, <2>1, <2>2, NoneWorkerAssumption
    DEF WorkerInv, LockExclusive, Moves, Locked
  <2>4. WayToRename(c)'
    BY <2>2 DEF WayToRename, Locked
  <2>5. /\ calls[c].made # None => calls[c].made = Published(c)
        /\ calls[c].response = "ok" => calls[c].made # None
    BY DEF WorkerInv, MadeIsPublished
  <2> QED
    BY <1>1, <2>1, <2>2, <2>3, <2>4, <2>5, Quiet
<1>3. ASSUME NEW r \in {"busy", "error"}, Refuse(c, r) PROVE WorkerInv'
  <2>1. /\ calls' = [calls EXCEPT ![c] = [@ EXCEPT !.pc = "done", !.response = r]]
        /\ lock' = lock
    BY <1>3 DEF Refuse
  <2>2. /\ Moves(c) /\ calls'[c].pc = "done" /\ calls'[c].made = calls[c].made
        /\ calls'[c].response = r /\ r # "ok"
    BY <2>1, Zenon DEF WorkerInv, WorkerTypes, CallRow, Moves, Response
  <2>3. LockExclusive'
    BY <1>1, <2>1, <2>2 DEF WorkerInv, LockExclusive, Moves, Locked
  <2>4. WayToRename(c)'
    BY <2>2 DEF WayToRename, Locked
  <2>5. /\ calls[c].made # None => calls[c].made = Published(c)
        /\ lock' \in Call \cup {None}
    BY <2>1 DEF WorkerInv, MadeIsPublished, WorkerTypes
  <2> QED
    BY <1>1, <2>2, <2>3, <2>4, <2>5, Quiet
<1> QED
  BY <1>2, <1>3 DEF Begin

(* A preparation that was saved is the answer, or a conflict.              *)
LEMMA AnalyzeStep ==
    ASSUME WorkerInv, NEW c \in Call, Analyze(c)
    PROVE  WorkerInv'
<1> DEFINE saved == state[calls[c].request.command]
<1>1. /\ calls[c].pc = "locked" /\ UNCHANGED disk /\ Preparing(c)
      /\ saved = Published(c) /\ calls[c].pc \in Locked /\ ~ Materializes(c)
      /\ saved \in Document \cup {None}
  BY Requests DEF Analyze, At, Published, Locked, WorkerInv
<1>2. CASE saved = None
  <2>1. Go(c, "check") /\ UNCHANGED lock
    BY <1>2 DEF Analyze
  <2>2. /\ Moves(c) /\ calls'[c].pc = "check"
    BY <2>1, Goes DEF WorkerInv, Locked
  <2>3. ~ Materializes(c)' /\ Published(c)' = None
    BY <1>1, <1>2, <2>2 DEF Moves, Materializes, disk, Published, Preparing
  <2>4. WayToRename(c)'
    BY <2>2, <2>3 DEF WayToRename
  <2> QED
    BY <1>1, <2>1, <2>4, GoStep DEF Locked
<1>3. CASE saved # None /\ saved = Made(c)
  <2>1. Leave(c, "ok", saved)
    BY <1>3 DEF Analyze
  <2> QED
    BY <1>1, <1>3, <2>1, LeaveStep, Zenon DEF Response
<1>4. CASE saved # None /\ saved # Made(c)
  <2>1. Leave(c, "conflict", None)
    BY <1>4 DEF Analyze
  <2> QED
    BY <1>1, <2>1, LeaveStep DEF Response
<1> QED
  BY <1>2, <1>3, <1>4

(* A refusal publishes nothing. *)
LEMMA RefuseStep ==
    ASSUME WorkerInv, NEW c \in Call, calls[c].pc \in Locked, UNCHANGED disk,
           NEW r \in Response \ {"ok"}, Leave(c, r, None)
    PROVE  WorkerInv'
BY LeaveStep

(* An attempt goes on with its own source and a valid answer. *)
LEMMA ValidateStep ==
    ASSUME WorkerInv, NEW c \in Call, Validate(c)
    PROVE  WorkerInv'
<1>1. /\ calls[c].pc = "locked" /\ UNCHANGED disk /\ ~ Preparing(c)
      /\ calls[c].pc \in Locked
  BY DEF Validate, At, Locked
<1>2. CASE output # None
  <2>1. Leave(c, "exists", None)
    BY <1>2 DEF Validate
  <2> QED
    BY <1>1, <2>1, RefuseStep DEF Response
<1>3. CASE output = None /\ project # calls[c].request.source
  <2>1. Leave(c, "conflict", None)
    BY <1>3 DEF Validate
  <2> QED
    BY <1>1, <2>1, RefuseStep DEF Response
<1>4. CASE /\ output = None /\ project = calls[c].request.source
           /\ calls[c].request.input \in Invalid
  <2>1. Leave(c, "error", None)
    BY <1>4 DEF Validate
  <2> QED
    BY <1>1, <2>1, RefuseStep DEF Response
<1>5. CASE /\ output = None /\ project = calls[c].request.source
           /\ calls[c].request.input \notin Invalid
  <2>1. Go(c, "stage") /\ UNCHANGED lock
    BY <1>5 DEF Validate
  <2>2. /\ Moves(c) /\ calls'[c].pc = "stage"
    BY <2>1, Goes DEF WorkerInv, Locked
  <2>3. /\ Published(c)' = None /\ project' = calls'[c].request.source
        /\ calls'[c].request.input \notin Invalid
    BY <1>1, <1>5, <2>2 DEF Moves, disk, Published, Preparing
  <2>4. WayToRename(c)'
    BY <2>2, <2>3 DEF WayToRename
  <2> QED
    BY <1>1, <2>1, <2>4, GoStep DEF Locked
<1> QED
  BY <1>2, <1>3, <1>4, <1>5

(* The final name is still free. *)
LEMMA CheckFreeStep ==
    ASSUME WorkerInv, NEW c \in Call, CheckFree(c)
    PROVE  WorkerInv'
<1>1. /\ calls[c].pc = "check" /\ UNCHANGED disk /\ calls[c].pc \in Locked
      /\ WayToRename(c) /\ (Preparing(c) <=> ~ Materializes(c))
  BY Requests DEF CheckFree, At, Locked, WorkerInv
<1>2. Published(c) = None
  BY <1>1 DEF WayToRename, Locked
<1>3. CASE Preparing(c)
  <2>1. Go(c, "stage") /\ UNCHANGED lock
    BY <1>2, <1>3 DEF CheckFree
  <2>2. /\ Moves(c) /\ calls'[c].pc = "stage"
    BY <2>1, Goes DEF WorkerInv, Locked
  <2>3. ~ Materializes(c)' /\ Published(c)' = None
    BY <1>1, <1>2, <1>3, <2>2 DEF Moves, Materializes, disk, Published, Preparing
  <2>4. WayToRename(c)'
    BY <2>2, <2>3 DEF WayToRename
  <2> QED
    BY <1>1, <2>1, <2>4, GoStep DEF Locked
<1>4. CASE ~ Preparing(c)
  <2>1. Go(c, "rename") /\ UNCHANGED lock
    BY <1>2, <1>4 DEF CheckFree
  <2>2. /\ Moves(c) /\ calls'[c].pc = "rename" /\ calls'[c].temp = calls[c].temp
    BY <2>1, Goes DEF WorkerInv, Locked
  <2>3. /\ Published(c)' = None /\ Materializes(c)' = Materializes(c)
        /\ project' = project /\ calls'[c].request = calls[c].request
    BY <1>1, <1>2, <1>4, <2>2 DEF Moves, Materializes, disk, Published, Preparing
  <2>4. WayToRename(c)'
    BY <1>1, <1>4, <2>2, <2>3 DEF WayToRename, Locked
  <2> QED
    BY <1>1, <2>1, <2>4, GoStep DEF Locked
<1> QED
  BY <1>3, <1>4

(* The temporary tree is made and filled. *)
LEMMA WriteStep ==
    ASSUME WorkerInv, NEW c \in Call, Stage(c) \/ WriteTemp(c)
    PROVE  WorkerInv'
<1> DEFINE pc == IF At(c, "stage") THEN "write"
                 ELSE IF Preparing(c) THEN "rename" ELSE "check"
           temp == IF At(c, "stage") THEN "empty" ELSE "whole"
<1>1. /\ calls[c].pc \in {"stage", "write"} /\ UNCHANGED <<disk, lock>>
      /\ calls' = [calls EXCEPT ![c] = [@ EXCEPT !.pc = pc, !.temp = temp]]
  <2>1. CASE Stage(c)
    BY <2>1, Zenon DEF Stage, At, disk
  <2>2. CASE WriteTemp(c)
    BY <2>2, Zenon DEF WriteTemp, At, disk
  <2> QED
    BY <2>1, <2>2
<1>2. pc \in Locked \ {"locked"} /\ temp \in {"empty", "whole"}
  BY DEF Locked
<1>3. /\ Moves(c) /\ calls'[c].pc = pc /\ calls'[c].temp = temp
      /\ calls'[c].made = calls[c].made /\ calls'[c].response = calls[c].response
  <2> HIDE DEF pc, temp
  <2> QED
    BY <1>1, <1>2, Zenon DEF WorkerInv, WorkerTypes, CallRow, Moves
<1>4. LockExclusive'
  BY <1>1, <1>2, <1>3 DEF WorkerInv, LockExclusive, Moves, Locked
<1>5. /\ Published(c)' = Published(c) /\ Materializes(c)' = Materializes(c)
      /\ project' = project /\ calls'[c].request = calls[c].request
      /\ (Preparing(c) <=> ~ Materializes(c)) /\ WayToRename(c)
  BY <1>1, <1>3, Requests
  DEF Moves, Materializes, disk, Published, Preparing, WorkerInv
<1>6. WayToRename(c)'
  BY <1>1, <1>3, <1>5 DEF WayToRename, Locked, At
<1>7. /\ lock' \in Call \cup {None}
      /\ calls'[c].made # None => calls'[c].made = Published(c)
      /\ calls'[c].pc # "respond"
      /\ calls'[c].response = "ok" => calls'[c].made # None
  BY <1>1, <1>2, <1>3 DEF WorkerInv, MadeIsPublished, WorkerTypes, Locked
<1> QED
  BY <1>1, <1>3, <1>4, <1>6, <1>7, Quiet

(* The answer is written, the process fails, or it dies. *)
LEMMA EndStep ==
    ASSUME WorkerInv, NEW c \in Call, Respond(c) \/ Fail(c) \/ Die(c)
    PROVE  WorkerInv'
<1>1. CASE Fail(c)
  <2>1. /\ calls[c].pc \in Locked /\ Leave(c, "error", None) /\ UNCHANGED disk
    BY <1>1 DEF Fail, At, Locked
  <2> QED
    BY <2>1, RefuseStep DEF Response
<1>2. CASE Respond(c)
  <2>1. PICK r \in {"ok", "error"} :
           calls' = [calls EXCEPT ![c] = [@ EXCEPT !.pc = "done", !.response = r]]
    BY <1>2, Zenon DEF Respond
  <2>2. calls[c].pc = "respond" /\ UNCHANGED <<disk, lock>>
    BY <1>2 DEF Respond, At
  <2>3. /\ Moves(c) /\ calls'[c].pc = "done" /\ calls'[c].made = calls[c].made
    BY <2>1, ZenonT(30) DEF WorkerInv, WorkerTypes, CallRow, Moves, Response
  <2>4. LockExclusive'
    BY <2>2, <2>3 DEF WorkerInv, LockExclusive, Moves, Locked
  <2>5. WayToRename(c)'
    BY <2>3 DEF WayToRename, Locked
  <2>6. /\ lock' \in Call \cup {None} /\ UNCHANGED disk
        /\ calls[c].made # None /\ calls[c].made = Published(c)
    BY <2>2 DEF WorkerInv, MadeIsPublished, WorkerTypes
  <2> QED
    BY <2>3, <2>4, <2>5, <2>6, Quiet
<1>3. CASE Die(c)
  <2>1. Go(c, "done") /\ UNCHANGED disk /\ lock' = IF lock = c THEN None ELSE lock
    BY <1>3 DEF Die
  <2>2. /\ Moves(c) /\ calls'[c].pc = "done" /\ calls'[c].made = calls[c].made
        /\ calls'[c].response = calls[c].response
    BY <2>1, Goes DEF WorkerInv, Locked
  <2>3. LockExclusive'
    BY <2>1, <2>2, NoneWorkerAssumption DEF WorkerInv, LockExclusive, Moves, Locked
  <2>4. WayToRename(c)'
    BY <2>2 DEF WayToRename, Locked
  <2>5. /\ lock' \in Call \cup {None}
        /\ calls[c].made # None => calls[c].made = Published(c)
        /\ calls[c].response = "ok" => calls[c].made # None
    BY <2>1 DEF WorkerInv, MadeIsPublished, WorkerTypes
  <2> QED
    BY <2>1, <2>2, <2>3, <2>4, <2>5, Quiet
<1> QED
  BY <1>1, <1>2, <1>3

(* The rename: the name was free, so nobody has published there before.    *)
LEMMA CommitStep ==
    ASSUME WorkerInv, NEW c \in Call, Commit(c)
    PROVE  WorkerInv'
<1> DEFINE doc == Made(c)
<1>1. /\ calls[c].pc = "rename" /\ WayToRename(c) /\ WorkerTypes
      /\ calls[c].temp = "whole" /\ Published(c) = None
      /\ lock' = None /\ project' = project
  BY DEF Commit, At, WorkerInv, WayToRename, Locked
<1>2. /\ doc \in Document /\ doc # None /\ doc.whole /\ doc.key = Key(c)
      /\ (Preparing(c) <=> ~ Materializes(c))
  BY <1>1, Requests, NoneWorkerAssumption
<1>3. [key |-> Key(c), whole |-> calls[c].temp = "whole"] = doc
  <2>1. (calls[c].temp = "whole") = TRUE
    BY <1>1
  <2> QED
    BY <2>1, Zenon DEF Made
<1>4. Publish(c, doc)
  BY <1>3 DEF Commit
<1>5. /\ Moves(c) /\ calls'[c].pc = "respond" /\ calls'[c].made = doc
      /\ calls'[c].response = calls[c].response
  <2>1. calls' = [calls EXCEPT ![c] = [@ EXCEPT !.pc = "respond", !.temp = "none",
                                                !.made = doc]]
    BY DEF Commit
  <2>2. calls \in [Call -> CallRow] /\ doc \in Document
    BY <1>1, <1>2 DEF WorkerTypes
  <2> HIDE DEF doc
  <2> QED
    BY <2>1, <2>2, ZenonT(30) DEF CallRow, Moves
<1> HIDE DEF doc
<1>6. \A d \in Call : /\ calls'[d].request = calls[d].request
                      /\ Materializes(d)' = Materializes(d)
                      /\ Preparing(d)' = Preparing(d)
  BY <1>5 DEF Moves, Materializes, Preparing
<1>7. LockExclusive'
  BY <1>1, <1>5, NoneWorkerAssumption DEF WorkerInv, LockExclusive, Moves, Locked
<1>8. /\ state' \in [Phase -> Document \cup {None}]
      /\ output' \in Document \cup {None}
      /\ \A p \in Phase : state'[p] \in {state[p], doc}
      /\ output' \in {output, doc}
      /\ Published(c)' = doc
      /\ Materializes(c) => output' = doc /\ output = None
      /\ ~ Materializes(c) => output' = output
  BY <1>1, <1>2, <1>4, <1>6 DEF Publish, WorkerTypes, Published, Preparing
<1>9. WorkerTypes'
  BY <1>1, <1>5, <1>8 DEF WorkerTypes, Moves
<1>10. PublishedWhole'
  BY <1>2, <1>8 DEF WorkerInv, PublishedWhole
<1>11. \A d \in Call : WayToRename(d)'
  <2> SUFFICES ASSUME NEW d \in Call PROVE WayToRename(d)'
    OBVIOUS
  <2>1. calls'[d].pc \notin Locked
    BY <1>1, <1>7, NoneWorkerAssumption, SMTT(20) DEF LockExclusive
  <2> QED
    BY <2>1 DEF WayToRename, Locked
<1>12. \A d \in Call : Published(d) # None => Published(d)' = Published(d)
  BY <1>1, <1>4, <1>6 DEF Publish, Published, Preparing, WorkerTypes
<1>13. MadeIsPublished'
  <2>1. MadeIsPublished
    BY DEF WorkerInv
  <2>2. \A d \in Call \ {c} : calls'[d] = calls[d]
    BY <1>5 DEF Moves
  <2>3. \A d \in Call : calls'[d].made # None => calls'[d].made = Published(d)'
    BY <1>5, <1>8, <1>12, <2>1, <2>2 DEF MadeIsPublished
  <2>4. \A d \in Call : calls'[d].pc = "respond" \/ calls'[d].response = "ok" =>
            calls'[d].made # None
    BY <1>2, <1>5, <2>1, <2>2 DEF MadeIsPublished
  <2>5. Materializes(c) => \A d \in Call : Materializes(d) => calls[d].made = None
    BY <1>1, <2>1 DEF MadeIsPublished, Published, Preparing, Materializes, Phase
  <2>6. \A d, e \in Call :
            /\ Materializes(d)' /\ calls'[d].made # None
            /\ Materializes(e)' /\ calls'[e].made # None
            => d = e
    BY <1>6, <2>1, <2>2, <2>5 DEF MadeIsPublished
  <2> QED
    BY <2>3, <2>4, <2>6 DEF MadeIsPublished
<1>14. OutputAnswers'
  <2>1. CASE Materializes(c)
    <3>1. /\ output' = doc /\ doc.key = <<calls[c].request.input, project>>
          /\ project = calls[c].request.source
          /\ calls[c].request.input \notin Invalid
      BY <1>1, <1>2, <1>8, <2>1, SMTT(20) DEF Key, WayToRename, Locked
    <3> QED
      BY <1>6, <2>1, <3>1 DEF OutputAnswers
  <2>2. CASE ~ Materializes(c)
    BY <1>6, <1>8, <2>2 DEF WorkerInv, OutputAnswers
  <2> QED
    BY <2>1, <2>2
<1> QED
  BY <1>7, <1>9, <1>10, <1>11, <1>13, <1>14 DEF WorkerInv

(* Another content may only be staged between two commands. *)
LEMMA RestageStep ==
    ASSUME WorkerInv, Restage
    PROVE  WorkerInv'
<1>1. lock = None /\ project' \in Source /\ UNCHANGED <<state, output, lock, calls>>
  BY DEF Restage
<1>2. WorkerTypes' /\ LockExclusive' /\ PublishedWhole' /\ OutputAnswers'
  BY <1>1 DEF WorkerInv, WorkerTypes, LockExclusive, PublishedWhole, OutputAnswers,
              Materializes
<1>3. MadeIsPublished'
  BY <1>1 DEF WorkerInv, MadeIsPublished, Materializes, Published, Preparing
<1>4. ASSUME NEW c \in Call PROVE WayToRename(c)'
  <2>1. calls'[c].pc \notin Locked
    BY <1>1, NoneWorkerAssumption, SMTT(20) DEF WorkerInv, LockExclusive
  <2> QED
    BY <2>1 DEF WayToRename, Locked
<1> QED
  BY <1>2, <1>3, <1>4 DEF WorkerInv

(* Before the first process starts nothing is published. *)
LEMMA WorkerInit == Init => WorkerInv
<1> SUFFICES ASSUME Init PROVE WorkerInv
  OBVIOUS
<1>1. ASSUME NEW c \in Call
      PROVE  /\ calls[c] \in CallRow /\ calls[c].pc = "start"
             /\ calls[c].made = None /\ calls[c].response = None
  <2>1. PICK r \in Request : calls[c] = Fresh(r)
    BY DEF Init
  <2> QED
    BY <2>1 DEF Fresh, CallRow
<1>2. calls \in [Call -> CallRow]
  BY <1>1 DEF Init
<1>3. None # "ok"
  BY NoneWorkerAssumption DEF Response
<1> QED
  BY <1>1, <1>2, <1>3, NoneWorkerAssumption
  DEF Init, WorkerInv, WorkerTypes, LockExclusive, PublishedWhole, WayToRename,
      MadeIsPublished, OutputAnswers, Locked

(* The inductive invariant holds whatever the processes do. *)
LEMMA WorkerInvariant == Spec => []WorkerInv
<1>1. WorkerInv /\ [Next]_vars => WorkerInv'
  <2> SUFFICES ASSUME WorkerInv, [Next]_vars PROVE WorkerInv'
    OBVIOUS
  <2>1. CASE UNCHANGED vars
    BY <2>1
    DEF vars, disk, WorkerInv, WorkerTypes, LockExclusive, PublishedWhole, WayToRename,
        MadeIsPublished, OutputAnswers, Materializes, Published, Preparing
  <2> QED
    BY <2>1, BeginStep, AnalyzeStep, ValidateStep, WriteStep, CheckFreeStep,
       CommitStep, EndStep, RestageStep, SMTT(20) DEF Next
<1> QED
  BY WorkerInit, <1>1, PTL DEF Spec

(* What lies under a final name was written to its end (TemporaryTree and  *)
(* its Commit), for any number of processes that fail or die anywhere.     *)
THEOREM PublishedWholeCorrect == Spec => []PublishedWhole
<1>1. WorkerInv => PublishedWhole
  BY DEF WorkerInv
<1> QED
  BY WorkerInvariant, <1>1, PTL

(* Whoever is told that a preparation succeeded is told what the session's *)
(* state says, for any number of processes, retries and contents.          *)
THEOREM PreparedOnceCorrect == Spec => []PreparedOnce
<1>1. WorkerInv => PreparedOnce
  BY DEF WorkerInv, MadeIsPublished, PreparedOnce
<1> QED
  BY WorkerInvariant, <1>1, PTL

(* The attempt's directory has the answer of its request in the source the *)
(* entity was selected in, and only one process is told that it made it,   *)
(* for any number of processes, contents and answers.                      *)
THEOREM AttemptFaithfulCorrect == Spec => []AttemptFaithful
<1>1. ASSUME WorkerInv PROVE AttemptFaithful
  <2> DEFINE told == {c \in Call : /\ calls[c].request.command = "materialize"
                                   /\ calls[c].response = "ok"}
  <2>1. \A c, d \in told : c = d
    BY <1>1 DEF WorkerInv, MadeIsPublished, Materializes
  <2>2. Cardinality(told) <= 1
    <3>1. CASE told = {}
      BY <3>1, FS_EmptySet
    <3>2. CASE told # {}
      <4>1. PICK c \in told : told = {c}
        BY <2>1, <3>2
      <4>2. Cardinality({c}) = 1
        BY FS_Singleton
      <4> QED
        BY <4>1, <4>2
    <3> QED
      BY <3>1, <3>2
  <2> QED
    BY <1>1, <2>2 DEF WorkerInv, OutputAnswers, Materializes, AttemptFaithful
<1> QED
  BY WorkerInvariant, <1>1, PTL
=============================================================================
