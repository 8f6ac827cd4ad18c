----------------------------- MODULE CliSession -----------------------------
(***************************************************************************)
(* The local command line program: src/application/defense_session.cpp     *)
(* with its timer, the workspace on disk, the build and the interactive    *)
(* loop of src/ui/cli_app.cpp.                                             *)
(*                                                                         *)
(* The program reads a command, runs it and reads the next; a check is two *)
(* steps because its build takes time, during which the student may edit   *)
(* the answer and the deadline may pass.  Any file operation may fail, and *)
(* the program may be killed.                                              *)
(***************************************************************************)
EXTENDS Integers

CONSTANTS
    Limit,       \* time limits a defense may have
    MaxAttempts  \* bound on the builds of one session

ASSUME CliAssumption == Limit \subseteq Nat \ {0} /\ MaxAttempts \in Nat \ {0}

VARIABLES
    status,    \* status_
    selected,  \* workspace_ and selected_entity_ are set
    attempts,  \* attempts_
    left,      \* time until the deadline of the timer
    running,   \* the timer runs
    building,  \* the answer the check in progress was given, or "none"
    workspace, \* the project in the session's directory
    answer,    \* result.txt
    report,    \* defense_result.txt
    exited,
    passed,    \* history: a build of this session passed before the deadline
    unsaved    \* history: a report of this session could not be written

session == <<status, selected, attempts, left, running>>
files == <<workspace, answer, report>>
history == <<passed, unsaved>>
cliVars == <<session, files, building, exited, history>>

-----------------------------------------------------------------------------

Ended == {"success", "failed", "expired"}
AnswerFile == {"unreadable", "misplaced", "wrong", "right"}

CliInit ==
    /\ status = "idle" /\ selected = FALSE /\ attempts = 0
    /\ left = 0 /\ running = FALSE
    /\ building = "none" /\ exited = FALSE
    /\ workspace = "none" /\ answer = "unreadable" /\ report = "none"
    /\ passed = FALSE /\ unsaved = FALSE

Overdue == status = "active" /\ running /\ left = 0

(* A command is read.  The loop first expires an overdue session. *)
Prompt == ~ exited /\ building = "none"
Command == Prompt /\ ~ Overdue

FinalizeStatus(s) ==
    /\ status' = s /\ running' = FALSE
    /\ UNCHANGED <<selected, attempts, left>>

(* DefenseResultWriter::Write.  A write that fails may have truncated what *)
(* was there.  The stream is tested before what it buffers is written out, *)
(* so a failure may also go unnoticed.                                     *)
Saved(s) == report' = s /\ UNCHANGED unsaved
NotSaved == report' \in {report, "broken"} /\ unsaved' = TRUE
Unnoticed == report' = "broken" /\ unsaved' = TRUE
Save(s) == Saved(s) \/ NotSaved

(* The end of a check: a session whose report was not written is in error. *)
Verdict(s) ==
    \/ FinalizeStatus(s) /\ (Saved(s) \/ Unnoticed)
    \/ FinalizeStatus("error") /\ NotSaved

-----------------------------------------------------------------------------
(* Start                                                                   *)

(* Nothing of the last session survives in memory. *)
Reset ==
    /\ selected' = FALSE /\ attempts' = 0 /\ running' = FALSE /\ left' = 0

(* Before the old workspace is removed, while it is, or later with a part  *)
(* of the new one.                                                         *)
StartFails ==
    /\ Command
    /\ Reset /\ status' = "error"
    /\ \/ UNCHANGED <<workspace, answer, report, history>>
       \/ /\ workspace' \in {workspace, "broken"}
          /\ answer' \in {answer, "unreadable"}
          /\ report' \in {report, "none"}
          /\ UNCHANGED history
       \/ /\ workspace' \in {"none", "copied", "broken"}
          /\ answer' \in {"unreadable", "wrong"}
          /\ report' = "none" /\ passed' = FALSE /\ unsaved' = FALSE
    /\ UNCHANGED <<building, exited>>

(* A fresh copy is masked, and only then the timer starts. *)
Start(limit) ==
    /\ Command
    /\ selected' = TRUE /\ attempts' = 0
    /\ status' = "active" /\ running' = TRUE /\ left' = limit
    /\ workspace' = "masked" /\ answer' = "wrong" /\ report' = "none"
    /\ passed' = FALSE /\ unsaved' = FALSE
    /\ UNCHANGED <<building, exited>>

-----------------------------------------------------------------------------
(* Check                                                                   *)

(* The answer is read, and a copy of the masked project patched with it.   *)
(* Until the build is started a failure leaves the session as it was.      *)
CheckBegins ==
    /\ Command /\ status = "active" /\ selected
    /\ answer \notin {"unreadable", "misplaced"}
    /\ attempts < MaxAttempts
    /\ status' = "checking" /\ attempts' = attempts + 1
    /\ building' = answer
    /\ UNCHANGED <<selected, left, running, files, exited, history>>

(* The report of an expired session is written once more. *)
CheckExpired ==
    /\ Command /\ status = "expired" /\ selected
    /\ Save("expired")
    /\ UNCHANGED <<session, workspace, answer, building, exited, passed>>

BuildDone == building' = "none" /\ UNCHANGED <<workspace, answer, exited>>

(* The build failed in time, or cmake could not be started or its log not  *)
(* be read, at any time: the session goes on.                              *)
CheckFails ==
    /\ building # "none" /\ ~ exited
    /\ BuildDone
    /\ status' = "active"
    /\ UNCHANGED <<selected, attempts, left, running, report, history>>

(* The build is stopped at the deadline, or ends after it. *)
CheckTimesOut ==
    /\ building # "none" /\ ~ exited /\ left = 0
    /\ BuildDone /\ Verdict("expired")
    /\ UNCHANGED passed

CheckPassesMutant ==
    /\ building = "right" /\ ~ exited
    /\ BuildDone
    /\ FinalizeStatus("success") /\ Saved("success")
    /\ passed' = (left > 0)

CheckPasses ==
    /\ building = "right" /\ ~ exited /\ left > 0
    /\ BuildDone /\ Verdict("success")
    /\ passed' = TRUE

-----------------------------------------------------------------------------
(* The loop                                                                *)

ExpireMutant ==
    /\ Prompt /\ Overdue
    /\ FinalizeStatus("expired")
    /\ UNCHANGED <<report, unsaved, workspace, answer, building, exited, passed>>

(* ExpireIfNeeded and Finish, before the command that was read. *)
Expire ==
    /\ Prompt /\ Overdue
    /\ FinalizeStatus("expired") /\ Save("expired")
    /\ UNCHANGED <<workspace, answer, building, exited, passed>>

Finish ==
    /\ IF status = "active" THEN FinalizeStatus("failed") ELSE UNCHANGED session
    /\ IF selected THEN Save(status') ELSE UNCHANGED <<report, unsaved>>

(* The quit command, before which an overdue session is expired, or the    *)
(* end of the input, at which it is not.                                   *)
Quit ==
    /\ Prompt
    /\ exited' = TRUE
    /\ Finish
    /\ UNCHANGED <<workspace, answer, building, passed>>

Killed ==
    /\ ~ exited /\ exited' = TRUE
    /\ UNCHANGED <<session, files, building, history>>

Edit(a) ==
    /\ selected /\ answer' = a
    /\ UNCHANGED <<session, workspace, report, building, exited, history>>

Tick ==
    /\ running /\ left > 0 /\ ~ exited
    /\ left' = left - 1
    /\ UNCHANGED <<status, selected, attempts, running, files, building, exited, history>>

CliNext ==
    \/ \E limit \in Limit : Start(limit)
    \/ StartFails \/ CheckBegins \/ CheckExpired \/ CheckFails \/ CheckTimesOut
    \/ CheckPasses \/ Expire \/ Quit \/ Killed \/ Tick
    \/ \E a \in AnswerFile : Edit(a)

CliSpec == CliInit /\ [][CliNext]_cliVars

-----------------------------------------------------------------------------
(* Properties                                                              *)

(* A defense is won only by a build that passed before the deadline, and   *)
(* expires only at it; the timer runs exactly while it is open.            *)
VerdictInTime ==
    /\ status = "success" => passed /\ left > 0
    /\ status = "expired" => left = 0 /\ ~ passed
    /\ running <=> status \in {"active", "checking"}

(* The report tells the outcome of the session it lies beside: unless a    *)
(* write failed, noticed or not, it is there as soon as the defense is     *)
(* over, and no report of success is left from an earlier session or a     *)
(* build that came late.                                                   *)
ReportAgrees ==
    /\ status \in Ended /\ ~ unsaved => report = status
    /\ report = "success" => passed
    /\ report \in Ended /\ selected => report = status \/ status = "error"
=============================================================================
