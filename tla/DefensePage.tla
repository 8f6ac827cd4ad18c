---------------------------- MODULE DefensePage -----------------------------
(***************************************************************************)
(* The page on which a student plays a defense (webassets/static/app.js),  *)
(* and the handlers it calls (httpapi/defense.go): start, read, save a     *)
(* draft, submit an answer, read its result, cancel.                       *)
(*                                                                         *)
(* A request is on its way, is handled in the steps of its handler, and    *)
(* its answer is on its way back; the page has one request of every kind   *)
(* under way at once, and answers arrive in any order.  JavaScript runs    *)
(* from one await to the next in one step.                                 *)
(*                                                                         *)
(* DefenseQueue has the defense in full.  Here it is one row, and the      *)
(* teacher, the runner and the other tabs of the student change it.  An    *)
(* answer is "text", the body of an entity, or "edits", the files of a     *)
(* hide-and-seek.                                                          *)
(*                                                                         *)
(* A page gets the identifier of one defense in its life: starting again   *)
(* on a page that has one is left out.  A button pressed before that calls *)
(* /defenses/undefined, which fails, and is no step.                       *)
(***************************************************************************)
EXTENDS Naturals, Sequences

CONSTANTS
    None,
    MaxVersion, MaxAttempts, MaxConfigurations, MaxLosses, \* bounds of the model
    MaxPolls        \* how often pollAttempt asks, 120 in the code

ASSUME NoneAssumption == None \notin {"text", "edits"}

VARIABLES
    defense,    \* status, mode, draft and draft_version of its row
    attempts,   \* check_attempts: the answers, with an outcome, in order
    page,       \* what the page shows and whether its poll timer is set
    get,        \* refreshDefense, at most one at a time (defenseRefreshInFlight)
    save, submit, other, \* the other requests of the page
    configurations, losses

vars == <<defense, attempts, page, get, save, submit, other, configurations, losses>>

-----------------------------------------------------------------------------

NoRequest == [pc |-> "no"]

(* The row of a defense that is made, and of one that is not there yet.    *)
New(status) == [status |-> status, mode |-> "restore", draft |-> None, version |-> 1]

Init ==
    /\ defense = New("none")
    /\ attempts = <<>>
    /\ page = [follows |-> FALSE, seen |-> "none", mode |-> "restore", version |-> 1,
               timer |-> FALSE, submits |-> TRUE, loaded |-> FALSE, cancelled |-> FALSE]
    /\ get = NoRequest /\ save = NoRequest /\ submit = NoRequest /\ other = NoRequest
    /\ configurations = 0 /\ losses = 0

(* defenseAnswer: what the page takes the mode to be decides what it sends. *)
Answer == IF page.mode = "hide_seek" THEN "edits" ELSE "text"

Fits(answer, mode) == (answer = "edits") <=> (mode = "hide_seek")

Open == {"preparing", "ready", "active"}

table == <<defense, attempts>>
bounds == <<configurations, losses>>

-----------------------------------------------------------------------------
(* refreshDefense and the poll loop around it.                             *)

(* The timer of the poll loop fires.  While a refresh is under way it is   *)
(* just set again.                                                         *)
Poll ==
    /\ page.timer /\ get.pc = "no"
    /\ page' = [page EXCEPT !.timer = FALSE]
    /\ get' = [pc |-> "sent", by |-> "poll"]
    /\ UNCHANGED <<save, submit, other>> /\ UNCHANGED table /\ UNCHANGED bounds

(* A refresh outside the loop, unless one is under way.                    *)
Refreshed(by) ==
    IF get.pc = "no" THEN [pc |-> "sent", by |-> by] ELSE get

GetMutant ==
    /\ get.pc \in {"sent", "read"}
    /\ get' = IF get.pc = "sent"
          THEN [pc |-> "read", by |-> get.by, mode |-> defense.mode]
          ELSE [pc |-> "answer", by |-> get.by, mode |-> get.mode,
                status |-> defense.status, version |-> defense.version]
    /\ UNCHANGED <<page, save, submit, other>> /\ UNCHANGED table /\ UNCHANGED bounds

(* GET /defenses/{id}: one query reads the row, a later one the mode       *)
(* (hideView).                                                             *)
Get ==
    /\ get.pc \in {"sent", "read"}
    /\ get' = IF get.pc = "sent"
          THEN [pc |-> "read", by |-> get.by,
                status |-> defense.status, version |-> defense.version]
          ELSE [pc |-> "answer", by |-> get.by, status |-> get.status,
                version |-> get.version, mode |-> defense.mode]
    /\ UNCHANGED <<page, save, submit, other>> /\ UNCHANGED table /\ UNCHANGED bounds

(* What follows a refresh: the loop sets its timer unless the defense is   *)
(* over, and a submission that waited for it is done.                      *)
Continue(shown, over) ==
    /\ get' = NoRequest
    /\ IF get.by = "submit"
       THEN /\ submit' = NoRequest
            /\ page' = [shown EXCEPT !.submits = TRUE]
       ELSE /\ UNCHANGED submit
            /\ page' = [shown EXCEPT !.timer = @ \/ (get.by = "poll" /\ ~over)]

ShowMutant(answer) ==
    [page EXCEPT !.seen = answer.status, !.mode = answer.mode,
                 !.submits = answer.status = "active"]

(* The page shows the status, takes the mode and the draft version over,   *)
(* and leaves its buttons enabled if the defense is active.                *)
Show(answer) ==
    [page EXCEPT !.seen = answer.status, !.mode = answer.mode,
                 !.version = answer.version, !.submits = answer.status = "active"]

(* The first time it is active, the refresh goes on to read the files.     *)
GetAnswered ==
    /\ get.pc = "answer"
    /\ IF get.status = "active" /\ ~page.loaded
       THEN /\ page' = Show(get)
            /\ get' = [pc |-> "files", by |-> get.by]
            /\ UNCHANGED submit
       ELSE Continue(Show(get), get.status = "ended")
    /\ UNCHANGED <<save, other>> /\ UNCHANGED table /\ UNCHANGED bounds

loadRepository ==
    /\ get.pc = "files"
    /\ Continue([page EXCEPT !.loaded = TRUE], FALSE)
    /\ UNCHANGED <<save, other>> /\ UNCHANGED table /\ UNCHANGED bounds

(* A request or its answer is lost, or the handler fails.  The list of     *)
(* files may have been read, and the file to open not.                     *)
GetFails ==
    /\ get.pc # "no" /\ losses < MaxLosses
    /\ losses' = losses + 1
    /\ \E listed \in {page.loaded, page.loaded \/ get.pc = "files"} :
          Continue([page EXCEPT !.loaded = listed], FALSE)
    /\ UNCHANGED <<save, other, configurations>> /\ UNCHANGED table

-----------------------------------------------------------------------------
(* Start and cancel.                                                       *)

StartClick ==
    /\ ~page.follows /\ other.pc = "no"
    /\ other' = [pc |-> "start"]
    /\ UNCHANGED <<page, get, save, submit>> /\ UNCHANGED table /\ UNCHANGED bounds

(* POST /defenses: an open defense of the submission is returned, else one *)
(* is made.  The page has no request for an earlier one, whose identifier  *)
(* did not reach it.                                                       *)
Create ==
    /\ other.pc = "start"
    /\ other' = [other EXCEPT !.pc = "started"]
    /\ IF defense.status \in Open THEN UNCHANGED <<table, configurations>>
       ELSE /\ defense' = New("preparing")
            /\ attempts' = <<>>
            /\ configurations' = 0
    /\ UNCHANGED <<page, get, save, submit, losses>>

Started ==
    /\ other.pc = "started"
    /\ other' = NoRequest
    /\ page' = [page EXCEPT !.follows = TRUE]
    /\ get' = Refreshed("poll")
    /\ UNCHANGED <<save, submit>> /\ UNCHANGED table /\ UNCHANGED bounds

CancelClick ==
    /\ page.follows /\ other.pc = "no" /\ ~page.cancelled
    /\ other' = [pc |-> "cancel"]
    /\ UNCHANGED <<page, get, save, submit>> /\ UNCHANGED table /\ UNCHANGED bounds

(* POST /defenses/{id}/cancel.  A defense that is over is a conflict.      *)
Cancel ==
    /\ other.pc = "cancel"
    /\ IF defense.status \in Open
       THEN /\ defense' = [defense EXCEPT !.status = "ended"]
            /\ attempts' = [i \in DOMAIN attempts |-> [attempts[i] EXCEPT !.pending = FALSE]]
            /\ other' = [other EXCEPT !.pc = "cancelled"]
       ELSE UNCHANGED table /\ other' = NoRequest
    /\ UNCHANGED <<page, get, save, submit>> /\ UNCHANGED bounds

(* The poll loop is stopped and the page refreshed once more.              *)
Cancelled ==
    /\ other.pc = "cancelled"
    /\ other' = NoRequest
    /\ page' = [page EXCEPT !.timer = FALSE, !.cancelled = TRUE]
    /\ get' = Refreshed("cancel")
    /\ UNCHANGED <<save, submit>> /\ UNCHANGED table /\ UNCHANGED bounds

(* The answer of either is lost, or its audit event cannot be written.     *)
OtherFails ==
    /\ other.pc # "no" /\ losses < MaxLosses
    /\ losses' = losses + 1
    /\ other' = NoRequest
    /\ UNCHANGED <<page, get, save, submit, configurations>> /\ UNCHANGED table

-----------------------------------------------------------------------------
(* Drafts.                                                                 *)

(* The button is enabled until a refresh disables it.  (The bound is one   *)
(* more for a hide-and-seek, which begins with a later version.)           *)
SaveClick ==
    /\ page.follows /\ page.seen \in {"none", "active"} /\ save.pc = "no"
    /\ defense.version < IF defense.mode = "hide_seek" THEN MaxVersion + 1 ELSE MaxVersion
    /\ save' = [pc |-> "sent", answer |-> Answer, version |-> page.version]
    /\ UNCHANGED <<page, get, submit, other>> /\ UNCHANGED table /\ UNCHANGED bounds

(* validateAnswer: a hide-and-seek takes edits only, and its archive is    *)
(* open to the student from the time it is active.  Any answer to a        *)
(* restoration will do.  The mode is read before the answer is stored.     *)
Valid(answer) ==
    defense.mode = "hide_seek" =>
        answer = "edits" /\ defense.status \in {"active", "ended"}

ValidateDraft ==
    /\ save.pc = "sent"
    /\ save' = IF Valid(save.answer) THEN [save EXCEPT !.pc = "valid"] ELSE NoRequest
    /\ UNCHANGED <<page, get, submit, other>> /\ UNCHANGED table /\ UNCHANGED bounds

(* One update, which the version must match while the defense is active.   *)
SaveDraft ==
    /\ save.pc = "valid"
    /\ IF defense.status = "active" /\ defense.version = save.version
       THEN /\ defense' = [defense EXCEPT !.version = @ + 1, !.draft = save.answer]
            /\ save' = [pc |-> "saved", version |-> defense.version + 1]
       ELSE UNCHANGED defense /\ save' = NoRequest
    /\ UNCHANGED <<attempts, page, get, submit, other>> /\ UNCHANGED bounds

Saved ==
    /\ save.pc = "saved"
    /\ page' = [page EXCEPT !.version = save.version]
    /\ save' = NoRequest
    /\ UNCHANGED <<get, submit, other>> /\ UNCHANGED table /\ UNCHANGED bounds

(* A save of another tab of the student, with the version it has to have.  *)
SaveElsewhere ==
    /\ defense.status = "active" /\ defense.version < MaxVersion
    /\ defense' = [defense EXCEPT !.version = @ + 1,
                      !.draft = IF defense.mode = "hide_seek" THEN "edits" ELSE "text"]
    /\ UNCHANGED <<attempts, page, get, save, submit, other>> /\ UNCHANGED bounds

SaveFails ==
    /\ save.pc # "no" /\ losses < MaxLosses
    /\ losses' = losses + 1
    /\ save' = NoRequest
    /\ UNCHANGED <<page, get, submit, other, configurations>> /\ UNCHANGED table

-----------------------------------------------------------------------------
(* Answers.                                                                *)

(* The button is enabled until a refresh or a submission disables it.      *)
(* "shown" is history: whether the page showed the defense as active.      *)
SubmitClick ==
    /\ page.follows /\ page.submits /\ submit.pc = "no"
    /\ Len(attempts) < MaxAttempts
    /\ page' = [page EXCEPT !.submits = FALSE]
    /\ submit' = [pc |-> "sent", answer |-> Answer, shown |-> page.seen = "active"]
    /\ UNCHANGED <<get, save, other>> /\ UNCHANGED table /\ UNCHANGED bounds

(* A submission is over, with a message, and another can be made.          *)
Done ==
    /\ submit' = NoRequest
    /\ page' = [page EXCEPT !.submits = TRUE]

ValidateAttempt ==
    /\ submit.pc = "sent"
    /\ IF Valid(submit.answer)
       THEN submit' = [submit EXCEPT !.pc = "valid"] /\ UNCHANGED page
       ELSE Done
    /\ UNCHANGED <<get, save, other>> /\ UNCHANGED table /\ UNCHANGED bounds

Attempt ==
    /\ submit.pc = "valid"
    /\ IF defense.status = "active"
       THEN /\ attempts' = Append(attempts, [answer |-> submit.answer,
                                              shown |-> submit.shown, pending |-> TRUE])
            /\ submit' = [pc |-> "stored", id |-> Len(attempts) + 1, polls |-> 0]
            /\ UNCHANGED page
       ELSE Done /\ UNCHANGED attempts
    /\ UNCHANGED <<defense, get, save, other>> /\ UNCHANGED bounds

PollAttemptMutant ==
    /\ submit.pc = "stored" /\ UNCHANGED <<save, other>>
    /\ UNCHANGED table /\ UNCHANGED bounds
    /\ ~attempts[submit.id].pending
    /\ get' = Refreshed("submit")
    /\ IF get.pc # "no" THEN Done
       ELSE submit' = [pc |-> "refresh"] /\ UNCHANGED page

(* pollAttempt: GET /attempts/{id} until it has an outcome, and a refresh  *)
(* of the page then; after so many times it gives up.                      *)
PollAttempt ==
    /\ submit.pc = "stored"
    /\ UNCHANGED <<save, other>> /\ UNCHANGED table /\ UNCHANGED bounds
    /\ IF ~attempts[submit.id].pending
       THEN /\ get' = Refreshed("submit")
            /\ IF get.pc # "no" THEN Done
               ELSE submit' = [pc |-> "refresh"] /\ UNCHANGED page
       ELSE /\ UNCHANGED get
            /\ IF submit.polls + 1 = MaxPolls THEN Done
               ELSE submit' = [submit EXCEPT !.polls = @ + 1] /\ UNCHANGED page

SubmitFails ==
    /\ submit.pc \notin {"no", "refresh"} /\ losses < MaxLosses
    /\ losses' = losses + 1
    /\ Done
    /\ UNCHANGED <<get, save, other, configurations>> /\ UNCHANGED table

-----------------------------------------------------------------------------
(* The teacher, the runner and the clock.                                  *)

(* Configure and ConfigureHide, which also empties the draft.              *)
Configure(mode) ==
    /\ defense.status = "ready" /\ configurations < MaxConfigurations
    /\ configurations' = configurations + 1
    /\ defense' = [status |-> "preparing", mode |-> mode,
                   draft |-> IF mode = "hide_seek" THEN None ELSE defense.draft,
                   version |-> IF mode = "hide_seek" THEN defense.version + 1
                               ELSE defense.version]
    /\ UNCHANGED <<attempts, page, get, save, submit, other, losses>>

(* A preparation ends: the first one with a catalog, a later one with a    *)
(* task, or with a report that sends the defense back to the teacher.      *)
Prepared ==
    /\ defense.status = "preparing"
    /\ \E s \in {"ready", "active"} :
          /\ s = "active" => configurations > 0
          /\ defense' = [defense EXCEPT !.status = s]
    /\ UNCHANGED <<attempts, page, get, save, submit, other>> /\ UNCHANGED bounds

(* The deadline, a verdict that passes, a cancellation by a teacher or a   *)
(* preparation that fails.                                                 *)
Finish ==
    /\ defense.status \in Open
    /\ defense' = [defense EXCEPT !.status = "ended"]
    /\ UNCHANGED <<attempts, page, get, save, submit, other>> /\ UNCHANGED bounds

Judge(i) ==
    /\ attempts[i].pending
    /\ attempts' = [attempts EXCEPT ![i].pending = FALSE]
    /\ UNCHANGED <<defense, page, get, save, submit, other>> /\ UNCHANGED bounds

-----------------------------------------------------------------------------

Click == StartClick \/ CancelClick \/ SaveClick \/ SubmitClick

Fails == GetFails \/ OtherFails \/ SaveFails \/ SubmitFails

Refresh == Poll \/ Get \/ GetAnswered \/ loadRepository
StartOrCancel == Create \/ Started \/ Cancel \/ Cancelled
Draft == ValidateDraft \/ SaveDraft \/ Saved
Submission == ValidateAttempt \/ Attempt \/ PollAttempt

Next ==
    \/ Click \/ Fails \/ Refresh \/ StartOrCancel \/ Draft \/ Submission
    \/ \E mode \in {"restore", "hide_seek"} : Configure(mode)
    \/ Prepared \/ Finish \/ SaveElsewhere
    \/ \E i \in DOMAIN attempts : Judge(i)

Spec == Init /\ [][Next]_vars

(* A refresh and a submission go on: requests are handled, and answered or *)
(* lost, as the server has time limits and the browser reports a broken    *)
(* connection, and timers fire.  Saves and cancellations may hang.         *)
Fairness == WF_vars(Refresh) /\ WF_vars(Submission)

FairSpec == Spec /\ Fairness

-----------------------------------------------------------------------------

(* Every draft is of the kind the mode of its defense takes, and so is     *)
(* every attempt sent from a page that showed the defense as active,       *)
(* although the page sends what the mode was when it last looked, and the  *)
(* handler checks it against the mode it read before it stores it.  A      *)
(* draft sent before the page showed anything has version 1, which no      *)
(* hide-and-seek has; an attempt has no version, and one sent before may   *)
(* be stored after a reconfiguration that its check did not see.           *)
AnswersFitMode ==
    /\ defense.draft # None => Fits(defense.draft, defense.mode)
    /\ \A i \in DOMAIN attempts :
          attempts[i].shown => Fits(attempts[i].answer, defense.mode)

(* However answers to polls and saves overtake each other and the saves of *)
(* other tabs, the page ends up with the draft version of the server while *)
(* the defense is active, so a save that was refused can be repeated.      *)
VersionsConverge ==
    <>[](page.seen = "active" /\ defense.status = "active"
         => page.version = defense.version)

(* A page that follows a defense comes to show that it is over, unless the *)
(* student has cancelled it there, and no submission keeps waiting.        *)
PageSettles ==
    /\ page.follows /\ defense.status = "ended"
           ~> page.seen = "ended" \/ page.cancelled
    /\ submit.pc # "no" ~> submit.pc = "no"
=============================================================================
