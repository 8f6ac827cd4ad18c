--------------------------- MODULE WaitingProofs ----------------------------
(***************************************************************************)
(* The two sides that wait on the queue of defenses.                       *)
(*                                                                         *)
(* LeaseWait, for any number of waiters, jobs, notifications and faults:   *)
(* no sleeping runner misses a job.  NoLostWakeup is not inductive by      *)
(* itself: that a notification reaches the sleeping waiter needs its       *)
(* subscription, and that a commit announces what it puts back needs to    *)
(* know what a transaction can hold.                                       *)
(*                                                                         *)
(* DefensePage, for any number of answers, configurations, polls and lost  *)
(* requests: drafts fit the mode of the defense, and so do attempts of a   *)
(* page that has shown it as active.                                       *)
(***************************************************************************)
EXTENDS LeaseWait, DefensePage, SequenceTheorems, TLAPS

-----------------------------------------------------------------------------
(* Runners in LeaseWaiting                                                 *)

(* A waiter that sleeps, or will if it finds nothing, has subscribed. *)
SleepersListen ==
    \A w \in Waiter : phase[w] \in {"query", "wait"} => w \in listening

(* A transaction holds the job it selected and the overdue ones it reaps. *)
HeldByLease ==
    \A j \in JobId : \A w \in Waiter :
        lock[j] = w => j = picked[w] \/ queue[j] = "overdue"

(* The inductive invariant. *)
WakeupInv ==
    TypeOK /\ LocksAccounted /\ SleepersListen /\ HeldByLease /\ NoLostWakeup

(* Nobody sleeps and nothing is locked in the empty queue. *)
LEMMA WakeupInit == WaitInit => WakeupInv
  BY WaitAssumption, NobodyAssumption
  DEF WaitInit, WakeupInv, TypeOK, SleepersListen, HeldByLease, NoLostWakeup,
      LocksAccounted, Phase

(* A notification leaves no listening waiter without one. *)
LEMMA NotifyReaches ==
  ASSUME TypeOK, Notify
  PROVE  /\ pending' \in [Waiter -> 0 .. MaxPending]
         /\ \A w \in Waiter : w \in listening => pending'[w] > 0
  BY WaitAssumption DEF TypeOK, Notify

(* Every step of the queue and of the waiters preserves the types. *)
LEMMA TypeStep == TypeOK /\ [WaitNext]_waitVars => TypeOK'
<1> SUFFICES ASSUME TypeOK, [WaitNext]_waitVars PROVE TypeOK'
  OBVIOUS
<1> USE WaitAssumption, NobodyAssumption
<1>1. ASSUME NEW j \in JobId, Insert(j) PROVE TypeOK'
  BY <1>1, NotifyReaches DEF Insert, TypeOK
<1>2. ASSUME NEW j \in JobId, Expire(j) PROVE TypeOK'
  BY <1>2 DEF Expire, Fault, TypeOK
<1>3. ASSUME NEW w \in Waiter, Call(w) PROVE TypeOK'
  BY <1>3 DEF Call, Goto, TypeOK, Phase
<1>4. ASSUME NEW w \in Waiter, Listen(w) PROVE TypeOK'
  BY <1>4 DEF Listen, Goto, TypeOK, Phase
<1>5. ASSUME NEW w \in Waiter, ListenFails(w) PROVE TypeOK'
  BY <1>5 DEF ListenFails, Goto, Fault, TypeOK, Phase
<1>6. ASSUME NEW w \in Waiter, Select(w) PROVE TypeOK'
  BY <1>6 DEF Select, Free, Goto, TypeOK, Phase
<1>7. ASSUME NEW w \in Waiter, SelectNothing(w) PROVE TypeOK'
  BY <1>7 DEF SelectNothing, Return, Goto, TypeOK, Phase
<1>8. ASSUME NEW w \in Waiter, Commit(w) PROVE TypeOK'
  <2>1. pending' \in [Waiter -> 0 .. MaxPending]
    BY <1>8, NotifyReaches DEF Commit, TypeOK
  <2> QED
    BY <1>8, <2>1, Zenon DEF Commit, Return, Goto, TypeOK, Phase
<1>9. ASSUME NEW w \in Waiter, Rollback(w) PROVE TypeOK'
  BY <1>9 DEF Rollback, Held, Return, Goto, Fault, TypeOK, Phase
<1>10. ASSUME NEW w \in Waiter, Wake(w) PROVE TypeOK'
  BY <1>10 DEF Wake, Goto, TypeOK, Phase
<1>11. ASSUME NEW w \in Waiter, Reconcile(w) PROVE TypeOK'
  BY <1>11 DEF Reconcile, Goto, TypeOK, Phase
<1>12. ASSUME NEW w \in Waiter, WaitOver(w) PROVE TypeOK'
  BY <1>12 DEF WaitOver, Return, Goto, TypeOK, Phase
<1>13. CASE UNCHANGED waitVars
  BY <1>13, SMTT(20) DEF waitVars, TypeOK
<1> QED
  BY <1>1, <1>2, <1>3, <1>4, <1>5, <1>6, <1>7, <1>8, <1>9, <1>10, <1>11,
     <1>12, <1>13 DEF WaitNext

(* Row locks are taken by a lease transaction and go with it. *)
LEMMA LockStep ==
  TypeOK /\ LocksAccounted /\ HeldByLease /\ [WaitNext]_waitVars
    => (LocksAccounted /\ HeldByLease)'
<1> SUFFICES ASSUME TypeOK, LocksAccounted, HeldByLease, [WaitNext]_waitVars
             PROVE  (LocksAccounted /\ HeldByLease)'
  OBVIOUS
<1> USE NobodyAssumption DEF LocksAccounted, HeldByLease, TypeOK
<1> DEFINE Locks == LocksAccounted /\ HeldByLease
<1>1. ASSUME NEW j \in JobId, Insert(j) PROVE Locks'
  BY <1>1 DEF Insert
<1>2. ASSUME NEW j \in JobId, Expire(j) PROVE Locks'
  BY <1>2 DEF Expire
<1>3. ASSUME NEW w \in Waiter, Call(w) PROVE Locks'
  BY <1>3 DEF Call, Goto
<1>4. ASSUME NEW w \in Waiter, Listen(w) \/ ListenFails(w) PROVE Locks'
  BY <1>4 DEF Listen, ListenFails, Goto
<1>5. ASSUME NEW w \in Waiter, Select(w) PROVE Locks'
  <2>1. PICK j \in Free :
           /\ picked' = [picked EXCEPT ![w] = j]
           /\ lock' = [i \in JobId |-> IF i = j \/ i \in Overdue THEN w
                                                               ELSE lock[i]]
    BY <1>5, Zenon DEF Select
  <2>2. /\ phase[w] # "commit" /\ phase' = [phase EXCEPT ![w] = "commit"]
        /\ \A i \in Overdue : lock[i] = Nobody
        /\ queue' = queue
    BY <1>5 DEF Select, Goto
  <2>3. LocksAccounted'
    BY <2>1, <2>2 DEF Free, Overdue
  <2>4. HeldByLease'
    BY <2>1, <2>2 DEF Free, Overdue
  <2> QED
    BY <2>3, <2>4
<1>6. ASSUME NEW w \in Waiter, SelectNothing(w) PROVE Locks'
  BY <1>6 DEF SelectNothing, Return, Goto
<1>7. ASSUME NEW w \in Waiter, Commit(w) PROVE Locks'
  BY <1>7 DEF Commit, Return, Goto
<1>8. ASSUME NEW w \in Waiter, Rollback(w) PROVE Locks'
  BY <1>8 DEF Rollback, Return, Goto
<1>9. ASSUME NEW w \in Waiter, Wake(w) \/ Reconcile(w) \/ WaitOver(w)
      PROVE  Locks'
  BY <1>9 DEF Wake, Reconcile, WaitOver, Return, Goto
<1>10. CASE UNCHANGED waitVars
  BY <1>10 DEF waitVars
<1> QED
  BY <1>1, <1>2, <1>3, <1>4, <1>5, <1>6, <1>7, <1>8, <1>9, <1>10 DEF WaitNext

(* Whoever puts a job into the queue wakes those who sleep. *)
LEMMA SleepStep ==
  WakeupInv /\ [WaitNext]_waitVars => (SleepersListen /\ NoLostWakeup)'
<1> SUFFICES ASSUME TypeOK, SleepersListen, HeldByLease, NoLostWakeup, [WaitNext]_waitVars
             PROVE  (SleepersListen /\ NoLostWakeup)'
  BY DEF WakeupInv
<1> USE NobodyAssumption DEF SleepersListen, HeldByLease, NoLostWakeup, TypeOK
<1> DEFINE Sleep == SleepersListen /\ NoLostWakeup
<1>1. ASSUME NEW j \in JobId, Insert(j) PROVE Sleep'
  BY <1>1, NotifyReaches DEF Insert
<1>2. ASSUME NEW j \in JobId, Expire(j) PROVE Sleep'
  BY <1>2 DEF Expire
<1>3. ASSUME NEW w \in Waiter, Call(w) PROVE Sleep'
  BY <1>3 DEF Call, Goto
<1>4. ASSUME NEW w \in Waiter, Listen(w) \/ ListenFails(w) PROVE Sleep'
  BY <1>4 DEF Listen, ListenFails, Goto
<1>5. ASSUME NEW w \in Waiter, Select(w) PROVE Sleep'
  BY <1>5 DEF Select, Goto
<1>6. ASSUME NEW w \in Waiter, SelectNothing(w) PROVE Sleep'
  <2>1. ~ \E j \in JobId : queue[j] = "queued" /\ lock[j] = Nobody
    BY <1>6 DEF SelectNothing, Free
  <2>2. NoLostWakeup'
    BY <1>6, <2>1 DEF SelectNothing
  <2>3. CASE phase[w] = "once"
    BY <1>6, <2>2, <2>3 DEF SelectNothing, Return, Goto
  <2>4. CASE phase[w] = "query"
    BY <1>6, <2>2, <2>4 DEF SelectNothing, Goto
  <2> QED
    BY <1>6, <2>3, <2>4 DEF SelectNothing
<1>7. ASSUME NEW w \in Waiter, Commit(w) PROVE Sleep'
  <2>1. SleepersListen'
    BY <1>7 DEF Commit, Return, Goto
  <2>2. NoLostWakeup'
    BY <1>7, NotifyReaches DEF Commit, Held, Overdue, Return, Goto
  <2> QED
    BY <2>1, <2>2
<1>8. ASSUME NEW w \in Waiter, Rollback(w) PROVE Sleep'
  BY <1>8 DEF Rollback, Held, Return, Goto
<1>9. ASSUME NEW w \in Waiter, Wake(w) \/ Reconcile(w) \/ WaitOver(w)
      PROVE  Sleep'
  BY <1>9 DEF Wake, Reconcile, WaitOver, Return, Goto
<1>10. CASE UNCHANGED waitVars
  BY <1>10 DEF waitVars
<1> QED
  BY <1>1, <1>2, <1>3, <1>4, <1>5, <1>6, <1>7, <1>8, <1>9, <1>10 DEF WaitNext

(* The inductive invariant holds of every behaviour. *)
LEMMA WakeupInvariant == WaitSpec => []WakeupInv
<1>1. WakeupInv /\ [WaitNext]_waitVars => WakeupInv'
  BY TypeStep, LockStep, SleepStep DEF WakeupInv
<1> QED
  BY WakeupInit, <1>1, PTL DEF WaitSpec

(* A committed insertion is never lost between querying and subscribing    *)
(* (the comment of LeaseWaiting), for every number of waiters and jobs.    *)
THEOREM NoLostWakeupCorrect == WaitSpec => []NoLostWakeup
<1>1. WakeupInv => NoLostWakeup
  BY DEF WakeupInv
<1> QED
  BY WakeupInvariant, <1>1, PTL

(* The rows that are locked belong to the lease transactions that are      *)
(* open, and every one of those still has the job it selected: LeaseWait's *)
(* callers never give a job out twice.                                     *)
THEOREM LocksAccountedCorrect == WaitSpec => []LocksAccounted
<1>1. WakeupInv => LocksAccounted
  BY DEF WakeupInv
<1> QED
  BY WakeupInvariant, <1>1, PTL

-----------------------------------------------------------------------------
(* The page of a student                                                   *)

Mode == {"restore", "hide_seek"}
Status == {"none", "preparing", "ready", "active", "ended"}
Kind == {"text", "edits"}
Source == {"poll", "cancel", "submit"}

DefenseRow == [status : Status, mode : Mode, draft : Kind \cup {None}, version : Nat]
AttemptRow == [answer : Kind, shown : BOOLEAN, pending : BOOLEAN]
PageState == [follows : BOOLEAN, seen : Status, mode : Mode, version : Nat, timer : BOOLEAN,
              submits : BOOLEAN, loaded : BOOLEAN, cancelled : BOOLEAN]

NoRequests == [pc : {"no"}]
GetState ==
    NoRequests \cup [pc : {"sent", "files"}, by : Source]
    \cup [pc : {"read"}, by : Source, status : Status, version : Nat]
    \cup [pc : {"answer"}, by : Source, status : Status, version : Nat, mode : Mode]
SaveState ==
    NoRequests \cup [pc : {"sent", "valid"}, answer : Kind, version : Nat]
    \cup [pc : {"saved"}, version : Nat]
SubmitState ==
    NoRequests \cup [pc : {"refresh"}]
    \cup [pc : {"sent", "valid"}, answer : Kind, shown : BOOLEAN]
    \cup [pc : {"stored"}, id : Nat, polls : Nat]
OtherState == [pc : {"no", "start", "started", "cancel", "cancelled"}]

(* The row, the page and the requests keep their types.                    *)
PageTypes ==
    /\ defense \in DefenseRow
    /\ attempts \in Seq(AttemptRow)
    /\ page \in PageState
    /\ get \in GetState /\ save \in SaveState /\ submit \in SubmitState
    /\ other \in OtherState

(* The mode can no longer change.                                          *)
Locked == defense.status \in {"active", "ended"}

(* A defense that has been a hide-and-seek has raised its version, and     *)
(* nothing is stored before the mode is locked.                            *)
RowFits ==
    /\ defense.version >= 1
    /\ defense.mode = "hide_seek" => defense.version > 1
    /\ ~Locked => attempts = <<>> /\ defense.draft = None

(* What the page knows of the mode.  Before the first refresh it takes the *)
(* defense for a restoration of version 1, or has saved a draft of it.     *)
PageFits ==
    /\ page.seen = "active" => Locked /\ page.mode = defense.mode
    /\ page.seen = "none" => /\ page.mode = "restore"
                             /\ page.version = 1 \/ (Locked /\ defense.mode = "restore")

(* A refresh that read the status active reads the mode the defense keeps. *)
GetFits ==
    /\ get.pc \in {"read", "answer"} => get.status # "none"
    /\ get.pc \in {"read", "answer"} /\ get.status = "active" => Locked
    /\ get.pc = "answer" /\ get.status = "active" => get.mode = defense.mode

(* A draft under way fits the mode, or its version keeps it out.           *)
SaveFits ==
    /\ save.pc \in {"sent", "valid"} =>
          \/ Locked /\ Fits(save.answer, defense.mode)
          \/ save.version = 1 /\ save.answer = "text"
    /\ page.seen = "none" /\ save.pc \in {"sent", "valid"} => save.answer = "text"
    /\ page.seen = "none" /\ save.pc = "saved" => Locked /\ defense.mode = "restore"

SubmitFits ==
    submit.pc \in {"sent", "valid"} /\ submit.shown => Locked /\ Fits(submit.answer, defense.mode)

(* A page without a defense has sent nothing but a start.                  *)
StartFits ==
    /\ other.pc \in {"start", "started"} => ~page.follows
    /\ other.pc \in {"cancel", "cancelled"} => page.follows
    /\ other.pc = "started" \/ page.follows => defense.status # "none"
    /\ ~page.follows => /\ get.pc = "no" /\ save.pc = "no" /\ submit.pc = "no"
                        /\ page.seen = "none" /\ page.version = 1 /\ ~page.timer

(* AnswersFitMode is not inductive: it rests on what the page knows, and   *)
(* on what is under way.                                                   *)
FitInv ==
    /\ PageTypes /\ RowFits /\ PageFits /\ GetFits /\ SaveFits /\ SubmitFits /\ StartFits
    /\ AnswersFitMode

-----------------------------------------------------------------------------

(* The invariant holds when the page is opened. *)
LEMMA FitInit == Init => FitInv
<1> SUFFICES ASSUME Init PROVE FitInv
  OBVIOUS
<1>1. PageTypes
  BY DEF Init, New, PageTypes, DefenseRow, PageState, GetState, SaveState, SubmitState, OtherState,
         NoRequest, NoRequests, Mode, Status, Kind
<1>2. RowFits /\ AnswersFitMode
  BY DEF Init, New, RowFits, AnswersFitMode
<1> QED
  BY <1>1, <1>2 DEF Init, New, NoRequest, FitInv, PageFits, GetFits, SaveFits, SubmitFits, StartFits

(* What the page sends fits the mode it takes the defense to have. *)
LEMMA AnswerFits ==
    ASSUME PageTypes
    PROVE  /\ Answer \in Kind /\ Fits(Answer, page.mode)
           /\ page.mode = "restore" => Answer = "text"
BY DEF Answer, Kind, Fits

(* What is stored fits as long as the row stays as it is. *)
LEMMA StoredKeeps ==
    ASSUME RowFits, AnswersFitMode, UNCHANGED <<defense, attempts>>
    PROVE  RowFits' /\ AnswersFitMode'
BY Zenon DEF RowFits, AnswersFitMode, Locked, Fits

(* So does an answer that is on its way. *)
LEMMA AnswerKeeps ==
    ASSUME SubmitFits, UNCHANGED <<defense, submit>>
    PROVE  SubmitFits'
BY Zenon DEF SubmitFits, Locked, Fits

(* And what the page, a refresh and a draft on its way know of it. *)
LEMMA KnownKeeps ==
    ASSUME PageFits, GetFits, SaveFits, UNCHANGED <<defense, get, save>>,
           page'.seen = page.seen, page'.mode = page.mode, page'.version = page.version
    PROVE  PageFits' /\ GetFits' /\ SaveFits'
<1>1. PageFits'
  BY Zenon DEF PageFits, Locked
<1>2. GetFits'
  BY Zenon DEF GetFits, Locked
<1>3. SaveFits'
  BY Zenon DEF SaveFits, Locked, Fits
<1> QED
  BY <1>1, <1>2, <1>3

(* A step of the page that leaves what it knows alone. *)
LEMMA PageKeeps ==
    ASSUME FitInv, UNCHANGED <<defense, attempts, save, other>>,
           page' \in PageState, page'.follows = page.follows, page'.seen = page.seen,
           page'.mode = page.mode, page'.version = page.version,
           page.follows,
           get' = get \/ (get' \in GetState /\ get'.pc \in {"no", "sent", "files"}),
           submit' = submit \/ (submit' \in SubmitState /\ submit'.pc \in {"no", "refresh", "stored"})
    PROVE  FitInv'
<1>1. PageTypes'
  BY DEF FitInv, PageTypes
<1>2. RowFits' /\ PageFits' /\ GetFits' /\ SaveFits' /\ SubmitFits'
  BY DEF FitInv, RowFits, PageFits, GetFits, SaveFits, SubmitFits, Locked, Fits
<1>3. StartFits' /\ AnswersFitMode'
  BY DEF FitInv, StartFits, AnswersFitMode, Fits
<1> QED
  BY <1>1, <1>2, <1>3 DEF FitInv

(* What a refresh brings. *)
LEMMA ShowKeeps ==
    ASSUME FitInv, UNCHANGED <<defense, attempts, save, other>>, get.pc = "answer",
           page' \in PageState, page'.follows = page.follows, page'.seen = get.status,
           page'.mode = get.mode, page'.version = get.version,
           get' \in GetState, get'.pc \in {"no", "files"},
           submit' = submit \/ (submit' \in SubmitState /\ submit'.pc = "no")
    PROVE  FitInv'
<1>1. PageTypes'
  BY DEF FitInv, PageTypes
<1>2. RowFits' /\ PageFits' /\ GetFits' /\ SaveFits' /\ SubmitFits'
  BY DEF FitInv, RowFits, PageFits, GetFits, SaveFits, SubmitFits, Locked, Fits
<1>3. StartFits' /\ AnswersFitMode'
  BY DEF FitInv, StartFits, AnswersFitMode, Fits
<1> QED
  BY <1>1, <1>2, <1>3 DEF FitInv

(* Refreshes read the row and the mode, in this order. *)
LEMMA RefreshKeeps ==
    ASSUME FitInv, Refresh \/ GetFails
    PROVE  FitInv'
<1>t. PageTypes /\ StartFits
  BY DEF FitInv
<1>f. get.pc # "no" => page.follows
  BY <1>t DEF StartFits
<1>1. CASE Poll
  <2>1. /\ page' \in PageState /\ page'.seen = page.seen /\ page'.mode = page.mode
        /\ page'.version = page.version /\ page'.follows = page.follows
    BY <1>1, <1>t, Zenon DEF Poll, PageState, PageTypes
  <2>2. get' \in GetState /\ get'.pc = "sent"
    BY <1>1 DEF Poll, GetState, Source
  <2>3. page.follows
    BY <1>1, <1>t DEF Poll, StartFits
  <2> QED
    BY <1>1, <2>1, <2>2, <2>3, PageKeeps DEF Poll, table
<1>2. CASE Get
  <2>1. UNCHANGED <<defense, attempts, page, save, submit, other>> /\ page.follows
    BY <1>2, <1>f DEF Get, table
  <2>2. defense.status # "none" /\ defense \in DefenseRow
    BY <1>t, <2>1 DEF StartFits, PageTypes
  <2>3. get' \in GetState /\ GetFits'
    <3>1. CASE get.pc = "sent"
      <4>1. /\ get' \in GetState /\ get'.pc = "read" /\ get'.status = defense.status
        BY <1>2, <1>t, <2>2, <3>1 DEF Get, GetState, DefenseRow, NoRequests, PageTypes
      <4> QED
        BY <2>1, <2>2, <4>1 DEF GetFits, Locked
    <3>2. CASE get.pc = "read"
      <4>1. /\ get' \in GetState /\ get'.pc = "answer"
            /\ get'.status = get.status /\ get'.mode = defense.mode
        BY <1>2, <1>t, <2>2, <3>2 DEF Get, GetState, DefenseRow, NoRequests, PageTypes
      <4> QED
        BY <2>1, <3>2, <4>1, SMTT(20) DEF GetFits, Locked, FitInv
    <3> QED
      BY <1>2, <3>1, <3>2 DEF Get
  <2>4. PageTypes' /\ StartFits'
    BY <1>t, <2>1, <2>3 DEF PageTypes, StartFits
  <2> QED
    BY <2>1, <2>3, <2>4
    DEF FitInv, RowFits, PageFits, SaveFits, SubmitFits, AnswersFitMode, Locked, Fits
<1>3. ASSUME NEW shown \in PageState, NEW over \in BOOLEAN, Continue(shown, over)
      PROVE  /\ get' \in GetState /\ get'.pc = "no"
             /\ submit' = submit \/ (submit' \in SubmitState /\ submit'.pc = "no")
             /\ page' \in PageState /\ page'.seen = shown.seen /\ page'.mode = shown.mode
             /\ page'.version = shown.version /\ page'.follows = shown.follows
  <2>1. get' \in GetState /\ get'.pc = "no"
    BY <1>3 DEF Continue, NoRequest, NoRequests, GetState
  <2>2. CASE get.by = "submit"
    <3>1. submit' \in SubmitState /\ submit'.pc = "no"
      BY <1>3, <2>2 DEF Continue, NoRequest, NoRequests, SubmitState
    <3>2. page' = [shown EXCEPT !.submits = TRUE]
      BY <1>3, <2>2 DEF Continue
    <3> QED
      BY <2>1, <3>1, <3>2, Zenon DEF PageState
  <2>3. CASE get.by # "submit"
    BY <1>3, <2>1, <2>3, Zenon DEF Continue, PageState
  <2> QED
    BY <2>2, <2>3
<1>4. CASE GetAnswered
  <2> DEFINE shown == Show(get)
  <2>1. /\ shown \in PageState /\ shown.follows = page.follows /\ shown.seen = get.status
        /\ shown.mode = get.mode /\ shown.version = get.version
    BY <1>4, <1>t, Zenon DEF GetAnswered, Show, PageState, GetState, NoRequests, PageTypes
  <2>2. get.pc = "answer" /\ UNCHANGED <<defense, attempts, save, other>>
    BY <1>4 DEF GetAnswered, table
  <2>3. CASE page' = shown /\ get' = [pc |-> "files", by |-> get.by] /\ UNCHANGED submit
    <3>1. get' \in GetState /\ get'.pc = "files"
      BY <1>t, <2>2, <2>3 DEF GetState, NoRequests, PageTypes
    <3> QED
      BY <2>1, <2>2, <2>3, <3>1, ShowKeeps
  <2>4. CASE Continue(shown, get.status = "ended")
    <3>1. (get.status = "ended") \in BOOLEAN
      OBVIOUS
    <3> HIDE DEF shown
    <3> QED
      BY <1>3, <2>1, <2>2, <2>4, <3>1, ShowKeeps, Zenon
  <2> QED
    BY <1>4, <2>3, <2>4 DEF GetAnswered
<1>5. ASSUME NEW listed \in BOOLEAN, Continue([page EXCEPT !.loaded = listed], FALSE),
             get.pc # "no", UNCHANGED <<defense, attempts, save, other>>
      PROVE  FitInv'
  <2> DEFINE shown == [page EXCEPT !.loaded = listed]
  <2>1. /\ shown \in PageState /\ shown.follows = page.follows /\ shown.seen = page.seen
        /\ shown.mode = page.mode /\ shown.version = page.version
    BY <1>t DEF PageState, PageTypes
  <2>2. Continue(shown, FALSE)
    BY <1>5, Zenon
  <2> HIDE DEF shown
  <2> QED
    BY <1>3, <1>5, <1>f, <2>1, <2>2, PageKeeps, Zenon
<1>6. CASE loadRepository
  BY <1>5, <1>6, Zenon DEF loadRepository, table
<1>7. CASE GetFails
  <2>1. page.loaded \in BOOLEAN
    BY <1>t DEF PageState, PageTypes
  <2>2. PICK listed \in {page.loaded, page.loaded \/ get.pc = "files"} :
          Continue([page EXCEPT !.loaded = listed], FALSE)
    BY <1>7, Zenon DEF GetFails
  <2> QED
    BY <1>5, <1>7, <2>1, <2>2, Zenon DEF GetFails, table
<1> QED
  BY <1>1, <1>2, <1>4, <1>6, <1>7 DEF Refresh

(* A new refresh changes nothing else. *)
LEMMA RefreshedGet ==
    ASSUME PageTypes, NEW by \in Source
    PROVE  /\ Refreshed(by) \in GetState
           /\ IF get.pc = "no" THEN Refreshed(by).pc = "sent" /\ Refreshed(by).by = by
              ELSE Refreshed(by) = get
BY Zenon DEF PageTypes, Refreshed, GetState

(* A step that changes the row on its way from one mode to the end. *)
LEMMA RowKeeps ==
    ASSUME FitInv, UNCHANGED <<page, get, save, submit>>,
           defense' \in DefenseRow, attempts' \in Seq(AttemptRow),
           defense'.mode = defense.mode, Locked => Locked',
           ~Locked' => attempts' = <<>>,
           defense'.draft = defense.draft, defense'.version = defense.version,
           defense.status # "none", defense'.status # "none",
           Len(attempts') = Len(attempts),
           \A i \in DOMAIN attempts : /\ attempts'[i].answer = attempts[i].answer
                                      /\ attempts'[i].shown = attempts[i].shown,
           other' \in OtherState, other' = other \/ other'.pc = "no" \/ (other'.pc = "cancelled" /\ page.follows)
    PROVE  FitInv'
<1>1. DOMAIN attempts' = DOMAIN attempts
  BY DEF FitInv, PageTypes
<1>2. PageTypes'
  BY Zenon DEF FitInv, PageTypes
<1>3. StartFits'
  BY Zenon DEF FitInv, StartFits
<1>4. AnswersFitMode'
  BY <1>1 DEF FitInv, AnswersFitMode, Fits
<1>5. RowFits' /\ PageFits' /\ GetFits'
  BY Zenon DEF FitInv, RowFits, PageFits, GetFits, Locked
<1>6. SaveFits' /\ SubmitFits'
  BY Zenon DEF FitInv, SaveFits, SubmitFits, Locked, Fits
<1> QED
  BY <1>2, <1>3, <1>4, <1>5, <1>6, Zenon DEF FitInv

(* Start and cancel. *)
LEMMA StartKeeps ==
    ASSUME FitInv, StartOrCancel \/ StartClick \/ CancelClick \/ OtherFails
    PROVE  FitInv'
<1>t. PageTypes /\ StartFits
  BY DEF FitInv
<1>1. ASSUME other' \in OtherState, UNCHANGED <<defense, attempts, page, get, save, submit>>,
             other'.pc = "start" => ~page.follows,
             other'.pc \in {"cancel", "cancelled"} => page.follows,
             other'.pc = "started" => ~page.follows /\ defense.status # "none"
      PROVE  FitInv'
  <2>1. PageTypes' /\ StartFits'
    BY <1>1, <1>t, Zenon DEF PageTypes, StartFits
  <2> QED
    BY <1>1, <2>1, StoredKeeps, AnswerKeeps, KnownKeeps DEF FitInv
<1>2. CASE StartClick \/ CancelClick \/ OtherFails
  <2>1. other' \in OtherState /\ other'.pc \in {"start", "cancel", "no"}
        /\ (other'.pc = "start" => ~page.follows) /\ (other'.pc = "cancel" => page.follows)
    BY <1>2 DEF StartClick, CancelClick, OtherFails, NoRequest, OtherState
  <2> QED
    BY <1>1, <1>2, <2>1 DEF StartClick, CancelClick, OtherFails, table
<1>3. CASE Create
  <2>1. /\ other' \in OtherState /\ other'.pc = "started" /\ ~page.follows
        /\ UNCHANGED <<page, get, save, submit>>
    BY <1>3, <1>t DEF Create, OtherState, PageTypes, StartFits
  <2>2. CASE defense.status \in Open
    BY <1>1, <1>3, <2>1, <2>2 DEF Create, table, Open
  <2>3. CASE defense.status \notin Open
    <3>1. defense' = New("preparing") /\ attempts' = <<>>
      BY <1>3, <2>3 DEF Create
    <3>2. /\ defense' \in DefenseRow /\ defense'.mode = "restore" /\ defense'.version = 1
          /\ defense'.draft = None /\ defense'.status = "preparing"
      BY <3>1 DEF New, DefenseRow, Status, Mode
    <3>3. PageTypes' /\ RowFits'
      BY <1>t, <2>1, <3>1, <3>2 DEF PageTypes, RowFits, Locked
    <3>4. /\ get.pc = "no" /\ save.pc = "no" /\ submit.pc = "no"
          /\ page.seen = "none" /\ page.version = 1
      BY <1>t, <2>1 DEF StartFits
    <3>5. PageFits' /\ GetFits' /\ SaveFits' /\ SubmitFits' /\ StartFits'
      BY <1>t, <2>1, <3>2, <3>4, Zenon DEF FitInv, PageFits, GetFits, SaveFits, SubmitFits, StartFits
    <3>6. AnswersFitMode'
      BY <3>1, <3>2 DEF AnswersFitMode
    <3> QED
      BY <3>3, <3>5, <3>6 DEF FitInv
  <2> QED
    BY <2>2, <2>3
<1>4. CASE Started \/ Cancelled
  <2>1. /\ page' \in PageState /\ page'.seen = page.seen /\ page'.mode = page.mode
        /\ page'.version = page.version /\ page'.follows = (page.follows \/ other.pc = "started")
    BY <1>4, <1>t, Zenon DEF Started, Cancelled, PageState, PageTypes
  <2>2. PICK by \in {"poll", "cancel"} : get' = Refreshed(by)
    BY <1>4 DEF Started, Cancelled
  <2>3. get' \in GetState /\ (get' = get \/ get'.pc = "sent")
    BY <1>t, <2>2, RefreshedGet DEF Source, PageTypes
  <2>4. /\ other' \in OtherState /\ other'.pc = "no" /\ other.pc \in {"started", "cancelled"}
        /\ UNCHANGED <<defense, attempts, save, submit>>
    BY <1>4 DEF Started, Cancelled, NoRequest, OtherState, table
  <2>5. PageTypes'
    BY <1>t, <2>1, <2>3, <2>4 DEF PageTypes
  <2>6. StartFits'
    <3>1. CASE Started
      <4>1. page'.follows /\ defense.status # "none"
        BY <1>t, <3>1 DEF Started, StartFits, PageState, PageTypes
      <4> QED
        BY <2>4, <4>1 DEF StartFits
    <3>2. CASE Cancelled
      <4>1. page'.follows /\ defense.status # "none"
        BY <1>t, <3>2, SMTT(20) DEF Cancelled, StartFits, PageState, PageTypes
      <4> QED
        BY <2>4, <4>1 DEF StartFits
    <3> QED
      BY <1>4, <3>1, <3>2
  <2>7. RowFits' /\ PageFits' /\ GetFits' /\ SaveFits' /\ SubmitFits'
    BY <2>1, <2>3, <2>4 DEF FitInv, RowFits, PageFits, GetFits, SaveFits, SubmitFits, Locked, Fits
  <2> QED
    BY <2>4, <2>5, <2>6, <2>7 DEF FitInv, AnswersFitMode, Fits
<1>5. CASE Cancel
  <2>1. CASE defense.status \in Open
    <3>1. /\ defense' \in DefenseRow /\ defense'.mode = defense.mode /\ defense'.version = defense.version
          /\ defense'.draft = defense.draft /\ defense'.status = "ended"
      BY <1>5, <1>t, <2>1 DEF Cancel, DefenseRow, Status, PageTypes
    <3>2. /\ attempts' \in Seq(AttemptRow) /\ Len(attempts') = Len(attempts)
          /\ \A i \in DOMAIN attempts : /\ attempts'[i].answer = attempts[i].answer
                                        /\ attempts'[i].shown = attempts[i].shown
      <4> DEFINE closed(i) == [attempts[i] EXCEPT !.pending = FALSE]
      <4>0. attempts \in Seq(AttemptRow)
        BY <1>t DEF PageTypes
      <4>1. \A i \in DOMAIN attempts : /\ closed(i) \in AttemptRow
                                       /\ closed(i).answer = attempts[i].answer
                                       /\ closed(i).shown = attempts[i].shown
        <5> TAKE i \in DOMAIN attempts
        <5>1. attempts[i] \in AttemptRow
          BY <4>0, ElementOfSeq, LenProperties
        <5> QED
          BY <5>1, Zenon DEF AttemptRow
      <4>2. attempts' = [i \in DOMAIN attempts |-> closed(i)]
        BY <1>5, <2>1 DEF Cancel
      <4> HIDE DEF closed
      <4>3. Len(attempts) \in Nat /\ DOMAIN attempts = 1 .. Len(attempts)
        BY <4>0, LenProperties
      <4>4. attempts' \in [1 .. Len(attempts) -> AttemptRow]
        BY <4>1, <4>2, <4>3
      <4> QED
        BY <4>1, <4>2, <4>3, <4>4
    <3>3. other' \in OtherState /\ other'.pc = "cancelled"
      BY <1>5, <1>t, <2>1 DEF Cancel, OtherState, PageTypes
    <3>4. page.follows
      BY <1>5, <1>t DEF Cancel, StartFits
    <3> QED
      BY <1>5, <2>1, <3>1, <3>2, <3>3, <3>4, RowKeeps DEF Cancel, Locked, Open
  <2>2. CASE defense.status \notin Open
    <3>1. other' \in OtherState /\ other'.pc = "no" /\ UNCHANGED <<defense, attempts, page, get, save, submit>>
      BY <1>5, <2>2 DEF Cancel, table, NoRequest, OtherState
    <3> QED
      BY <1>1, <3>1
  <2> QED
    BY <2>1, <2>2
<1> QED
  BY <1>2, <1>3, <1>4, <1>5 DEF StartOrCancel

(* Drafts. *)
LEMMA DraftKeeps ==
    ASSUME FitInv, Draft \/ SaveClick \/ SaveFails \/ SaveElsewhere
    PROVE  FitInv'
<1>t. PageTypes /\ StartFits
  BY DEF FitInv
<1>1. ASSUME save' \in SaveState, SaveFits', page.follows,
             UNCHANGED <<page, get, submit, other, defense, attempts>>
      PROVE  FitInv'
  <2>1. PageTypes' /\ StartFits'
    BY <1>1, <1>t DEF PageTypes, StartFits
  <2> QED
    BY <1>1, <2>1 DEF FitInv, RowFits, PageFits, GetFits, SubmitFits, AnswersFitMode, Locked, Fits
<1>f. save.pc # "no" => page.follows
  BY <1>t DEF StartFits
<1>2. CASE SaveClick
  <2>1. /\ save' \in SaveState /\ save'.pc = "sent" /\ save'.answer = Answer
        /\ save'.version = page.version
    BY <1>2, <1>t, AnswerFits DEF SaveClick, SaveState, PageState, PageTypes
  <2>2. SaveFits'
    <3>1. CASE page.seen = "active"
      BY <1>2, <1>t, <2>1, <3>1, AnswerFits DEF SaveClick, table, FitInv, PageFits, SaveFits, Locked, Fits
    <3>2. CASE page.seen = "none"
      BY <1>2, <1>t, <2>1, <3>2, AnswerFits DEF SaveClick, table, FitInv, PageFits, SaveFits, Locked, Fits
    <3> QED
      BY <1>2, <3>1, <3>2 DEF SaveClick
  <2> QED
    BY <1>1, <1>2, <2>1, <2>2, SMTT(20) DEF SaveClick, table
<1>3. ASSUME save' = NoRequest, page.follows, UNCHANGED <<page, get, submit, other, defense, attempts>>
      PROVE  FitInv'
  <2>1. save' \in SaveState /\ save'.pc = "no"
    BY <1>3 DEF NoRequest, NoRequests, SaveState
  <2> QED
    BY <1>1, <1>3, <2>1 DEF SaveFits
<1>4. CASE ValidateDraft
  <2>1. CASE save' = [save EXCEPT !.pc = "valid"]
    <3>1. /\ save' \in SaveState /\ save'.pc = "valid" /\ save'.answer = save.answer
          /\ save'.version = save.version
      BY <1>4, <1>t, <2>1 DEF ValidateDraft, SaveState, NoRequests, PageTypes
    <3>2. SaveFits'
      BY <1>4, <3>1 DEF ValidateDraft, table, FitInv, SaveFits, Locked, Fits
    <3> QED
      BY <1>1, <1>4, <1>f, <3>1, <3>2 DEF ValidateDraft, table
  <2> QED
    BY <1>3, <1>4, <1>f, <2>1 DEF ValidateDraft, table
<1>5. CASE SaveFails
  BY <1>3, <1>5, <1>f DEF SaveFails, table
<1>6. CASE Saved
  <2>1. /\ page' \in PageState /\ page'.seen = page.seen /\ page'.mode = page.mode
        /\ page'.follows = page.follows
    BY <1>6, <1>t DEF Saved, PageState, SaveState, NoRequests, PageTypes
  <2>2. save' \in SaveState /\ save'.pc = "no" /\ save.pc = "saved"
    BY <1>6 DEF Saved, NoRequest, NoRequests, SaveState
  <2>3. UNCHANGED <<get, submit, other, defense, attempts>>
    BY <1>6 DEF Saved, table
  <2>4. PageTypes' /\ StartFits'
    BY <1>t, <1>f, <2>1, <2>2, <2>3 DEF PageTypes, StartFits
  <2>5. PageFits' /\ SaveFits'
    BY <2>1, <2>2, <2>3 DEF FitInv, PageFits, SaveFits, Locked
  <2> QED
    BY <2>3, <2>4, <2>5 DEF FitInv, RowFits, GetFits, SubmitFits, AnswersFitMode, Locked, Fits
<1>7. ASSUME defense.status = "active", NEW answer \in Kind, Fits(answer, defense.mode),
             defense' = [defense EXCEPT !.version = @ + 1, !.draft = answer],
             save' \in SaveState,
             save' = save \/ (save'.pc = "saved" /\ save.pc # "no"
                              /\ (page.seen = "none" => defense.mode = "restore")),
             UNCHANGED <<page, get, submit, attempts, other>>
      PROVE  FitInv'
  <2>1. /\ defense' \in DefenseRow /\ defense'.mode = defense.mode
        /\ defense'.version = defense.version + 1
        /\ defense'.draft = answer /\ defense'.status = defense.status
    <3>1. defense.version + 1 \in Nat /\ defense \in DefenseRow
      BY <1>t DEF DefenseRow, PageTypes
    <3> QED
      BY <1>7, <3>1, Zenon DEF DefenseRow
  <2>2. PageTypes' /\ StartFits'
    BY <1>7, <1>t, <2>1 DEF PageTypes, StartFits
  <2>3. defense.version \in Nat
    BY <1>t DEF PageTypes, DefenseRow
  <2>4. RowFits' /\ PageFits' /\ GetFits'
    BY <1>7, <2>1, <2>3 DEF FitInv, RowFits, PageFits, GetFits, Locked
  <2>5. SaveFits' /\ SubmitFits'
    BY <1>7, <2>1 DEF FitInv, SaveFits, SubmitFits, Locked, Fits
  <2>6. AnswersFitMode'
    BY <1>7, <2>1 DEF FitInv, AnswersFitMode, Fits
  <2> QED
    BY <2>2, <2>4, <2>5, <2>6 DEF FitInv
<1>8. CASE SaveDraft
  <2>1. CASE defense.status = "active" /\ defense.version = save.version
    <3>1. save.pc = "valid" /\ save.answer \in Kind /\ defense.version \in Nat /\ defense.mode \in Mode
      BY <1>8, <1>t DEF SaveDraft, SaveState, NoRequests, PageTypes, DefenseRow
    <3>2. Fits(save.answer, defense.mode) /\ (page.seen = "none" => defense.mode = "restore")
      BY <2>1, <3>1 DEF FitInv, SaveFits, RowFits, Fits, Mode
    <3>3. save' \in SaveState /\ save'.pc = "saved"
      BY <1>8, <2>1, <3>1 DEF SaveDraft, SaveState
    <3> QED
      BY <1>7, <1>8, <2>1, <3>1, <3>2, <3>3, Zenon DEF SaveDraft
  <2> QED
    BY <1>3, <1>8, <1>f, <2>1 DEF SaveDraft
<1>9. CASE SaveElsewhere
  <2> DEFINE answer == IF defense.mode = "hide_seek" THEN "edits" ELSE "text"
  <2>1. answer \in Kind /\ Fits(answer, defense.mode) /\ save \in SaveState
    BY <1>9, <1>t DEF SaveElsewhere, Kind, Fits, PageTypes
  <2>2. defense' = [defense EXCEPT !.version = @ + 1, !.draft = answer]
    BY <1>9 DEF SaveElsewhere
  <2> HIDE DEF answer
  <2> QED
    BY <1>7, <1>9, <2>1, <2>2, Zenon DEF SaveElsewhere
<1> QED
  BY <1>2, <1>4, <1>5, <1>6, <1>8, <1>9 DEF Draft

(* A submission that is done leaves what the page knows as it was. *)
LEMMA DoneKeeps ==
    ASSUME FitInv, submit.pc # "no", Done, UNCHANGED <<get, save, other, defense, attempts>>
    PROVE  FitInv'
<1>t. PageTypes /\ StartFits
  BY DEF FitInv
<1>1. submit' \in SubmitState /\ submit'.pc = "no"
  BY DEF Done, NoRequest, NoRequests, SubmitState
<1>2. /\ page' \in PageState /\ page'.seen = page.seen /\ page'.mode = page.mode
      /\ page'.version = page.version /\ page'.follows = page.follows
  BY <1>t, Zenon DEF Done, PageState, PageTypes
<1>3. page.follows
  BY <1>t DEF StartFits
<1> QED
  BY <1>1, <1>2, <1>3, PageKeeps

(* Answers. *)
LEMMA SubmitKeeps ==
    ASSUME FitInv, Submission \/ SubmitClick \/ SubmitFails
    PROVE  FitInv'
<1>t. PageTypes /\ StartFits
  BY DEF FitInv
<1>f. submit.pc # "no" => page.follows
  BY <1>t DEF StartFits
<1>1. CASE SubmitClick
  <2>1. /\ submit' \in SubmitState /\ submit'.pc = "sent" /\ submit'.answer = Answer
        /\ submit'.shown = (page.seen = "active")
    BY <1>1, <1>t, AnswerFits DEF SubmitClick, SubmitState
  <2>2. /\ page' \in PageState /\ page'.seen = page.seen /\ page'.mode = page.mode
        /\ page'.version = page.version /\ page'.follows = page.follows /\ page.follows
        /\ UNCHANGED <<get, save, other, defense, attempts>>
    BY <1>1, <1>t, Zenon DEF SubmitClick, PageState, PageTypes, table
  <2>3. SubmitFits'
    BY <1>t, <2>1, <2>2, AnswerFits, Zenon DEF FitInv, PageFits, SubmitFits, Locked, Fits
  <2>4. PageTypes' /\ StartFits'
    BY <1>t, <2>1, <2>2 DEF PageTypes, StartFits
  <2> QED
    BY <2>2, <2>3, <2>4, StoredKeeps, KnownKeeps DEF FitInv
<1>2. CASE ValidateAttempt
  <2>1. CASE submit' = [submit EXCEPT !.pc = "valid"] /\ UNCHANGED page
    <3>1. /\ submit' \in SubmitState /\ submit'.pc = "valid"
          /\ submit'.answer = submit.answer /\ submit'.shown = submit.shown
      BY <1>2, <1>t, <2>1 DEF ValidateAttempt, SubmitState, NoRequests, PageTypes
    <3>2. UNCHANGED <<page, get, save, other, defense, attempts>> /\ submit.pc = "sent"
      BY <1>2, <2>1 DEF ValidateAttempt, table
    <3>3. PageTypes' /\ StartFits'
      BY <1>t, <1>f, <3>1, <3>2 DEF PageTypes, StartFits
    <3>4. SubmitFits'
      BY <3>1, <3>2, Zenon DEF FitInv, SubmitFits, Locked, Fits
    <3> QED
      BY <3>2, <3>3, <3>4, StoredKeeps, KnownKeeps DEF FitInv
  <2> QED
    BY <1>2, <2>1, DoneKeeps DEF ValidateAttempt, table
<1>3. CASE Attempt
  <2>1. CASE defense.status = "active"
    <3> DEFINE row == [answer |-> submit.answer, shown |-> submit.shown, pending |-> TRUE]
    <3>1. row \in AttemptRow /\ (row.shown => Fits(row.answer, defense.mode)) /\ submit.pc = "valid"
      BY <1>3, <1>t, Zenon DEF Attempt, SubmitState, NoRequests, AttemptRow, PageTypes, FitInv, SubmitFits
    <3>2. /\ attempts' = Append(attempts, row) /\ UNCHANGED <<defense, page, get, save, other>>
          /\ submit' = [pc |-> "stored", id |-> Len(attempts) + 1, polls |-> 0]
      BY <1>3, <2>1 DEF Attempt
    <3>3. submit' \in SubmitState /\ submit'.pc = "stored" /\ attempts \in Seq(AttemptRow)
      BY <1>t, <3>2, LenProperties, SMTT(20) DEF SubmitState, PageTypes
    <3> HIDE DEF row
    <3>4. /\ attempts' \in Seq(AttemptRow)
          /\ \A i \in DOMAIN attempts' : attempts'[i].shown => Fits(attempts'[i].answer, defense.mode)
      <4>1. AnswersFitMode
        BY SMTT(20) DEF FitInv
      <4> QED
        BY <3>1, <3>2, <3>3, <4>1, AppendProperties, LenProperties DEF AnswersFitMode
    <3>5. PageTypes' /\ StartFits'
      BY <1>t, <1>f, <3>1, <3>2, <3>3, <3>4, SMTT(20) DEF PageTypes, StartFits
    <3>6. AnswersFitMode'
      BY <3>2, <3>4 DEF FitInv, AnswersFitMode, Fits
    <3>7. RowFits' /\ SubmitFits'
      BY <2>1, <3>2, <3>3, Zenon DEF FitInv, RowFits, SubmitFits, Locked
    <3> QED
      BY <3>2, <3>5, <3>6, <3>7, KnownKeeps DEF FitInv
  <2>2. CASE defense.status # "active"
    BY <1>3, <2>2, DoneKeeps DEF Attempt
  <2> QED
    BY <2>1, <2>2
<1>4. CASE PollAttempt
  <2>1. submit.pc = "stored" /\ UNCHANGED <<save, other, defense, attempts>> /\ page.follows
    BY <1>4, <1>f DEF PollAttempt, table
  <2>2. CASE ~attempts[submit.id].pending /\ get.pc = "no"
    <3>1. get' \in GetState /\ get'.pc = "sent" /\ submit' = [pc |-> "refresh"] /\ UNCHANGED page
      BY <1>4, <1>t, <2>2, RefreshedGet DEF PollAttempt, Source
    <3>2. submit' \in SubmitState /\ submit'.pc = "refresh"
      BY <3>1 DEF SubmitState
    <3> QED
      BY <1>t, <2>1, <3>1, <3>2, PageKeeps, Zenon DEF PageTypes
  <2>3. CASE Done /\ UNCHANGED get
    BY <2>1, <2>3, DoneKeeps
  <2>4. CASE submit' = [submit EXCEPT !.polls = @ + 1] /\ UNCHANGED <<get, page>>
    <3>1. submit' \in SubmitState /\ submit'.pc = "stored"
      BY <1>t, <2>1, <2>4 DEF SubmitState, NoRequests, PageTypes
    <3> QED
      BY <1>t, <2>1, <2>4, <3>1, PageKeeps, Zenon DEF PageTypes
  <2> QED
    BY <1>4, <2>2, <2>3, <2>4 DEF PollAttempt, Refreshed
<1>5. CASE SubmitFails
  BY <1>5, DoneKeeps DEF SubmitFails, table
<1> QED
  BY <1>1, <1>2, <1>3, <1>4, <1>5 DEF Submission

(* The teacher, the runner and the clock: the mode changes before the      *)
(* defense is active, when nothing has been stored.                        *)
LEMMA DefenseKeeps ==
    ASSUME FitInv,
           \/ \E mode \in {"restore", "hide_seek"} : Configure(mode)
           \/ Prepared \/ Finish \/ \E i \in DOMAIN attempts : Judge(i)
    PROVE  FitInv'
<1>t. PageTypes /\ StartFits /\ RowFits
  BY DEF FitInv
<1>1. ASSUME NEW mode \in {"restore", "hide_seek"}, Configure(mode) PROVE FitInv'
  <2>1. /\ ~Locked /\ ~Locked' /\ defense.version \in Nat /\ defense.version >= 1
        /\ UNCHANGED <<attempts, page, get, save, submit, other>> /\ defense.status # "none"
    BY <1>1, <1>t DEF Configure, Locked, PageTypes, DefenseRow, RowFits
  <2>2. attempts = <<>> /\ defense.draft = None
    BY <1>t, <2>1 DEF RowFits
  <2>3. /\ defense' \in DefenseRow /\ defense'.draft = None /\ defense'.status = "preparing"
        /\ defense'.version \in {defense.version, defense.version + 1} /\ defense'.mode = mode
        /\ mode = "hide_seek" => defense'.version = defense.version + 1
    BY <1>1, <2>1, <2>2 DEF Configure, DefenseRow, Status, Mode
  <2>4. PageTypes' /\ StartFits'
    BY <1>t, <2>1, <2>3, Zenon DEF PageTypes, StartFits
  <2>5. RowFits' /\ AnswersFitMode'
    BY <2>1, <2>2, <2>3 DEF RowFits, AnswersFitMode
  <2>6. PageFits' /\ GetFits'
    BY <2>1, Zenon DEF FitInv, PageFits, GetFits
  <2>7. SaveFits' /\ SubmitFits'
    BY <2>1, Zenon DEF FitInv, SaveFits, SubmitFits
  <2> QED
    BY <2>4, <2>5, <2>6, <2>7 DEF FitInv
<1>2. CASE Prepared \/ Finish
  <2>1. PICK s \in Status : /\ defense' = [defense EXCEPT !.status = s] /\ s # "none"
                            /\ Locked => s = "ended"
    BY <1>2 DEF Prepared, Finish, Status, Locked
  <2>2. /\ defense' \in DefenseRow /\ defense'.mode = defense.mode /\ defense'.version = defense.version
        /\ defense'.draft = defense.draft /\ defense'.status = s
    BY <1>t, <2>1 DEF DefenseRow, PageTypes
  <2>3. defense.status # "none" /\ UNCHANGED <<attempts, page, get, save, submit, other>>
    BY <1>2 DEF Prepared, Finish, Open
  <2> QED
    BY <1>t, <2>1, <2>2, <2>3, RowKeeps DEF Locked, PageTypes, RowFits
<1>3. ASSUME NEW i \in DOMAIN attempts, Judge(i) PROVE FitInv'
  <2> DEFINE row == [attempts[i] EXCEPT !.pending = FALSE]
  <2>0. attempts \in Seq(AttemptRow)
    BY <1>t DEF PageTypes
  <2>1. attempts[i] \in AttemptRow /\ i \in 1 .. Len(attempts)
    BY <1>3, <2>0, ElementOfSeq, LenProperties
  <2>2. row \in AttemptRow /\ row.answer = attempts[i].answer /\ row.shown = attempts[i].shown
    BY <2>1, Zenon DEF AttemptRow
  <2>3. attempts' = [attempts EXCEPT ![i] = row] /\ UNCHANGED <<defense, page, get, save, submit, other>>
    BY <1>3 DEF Judge
  <2> HIDE DEF row
  <2>4. /\ attempts' \in Seq(AttemptRow) /\ Len(attempts') = Len(attempts)
        /\ \A k \in DOMAIN attempts : /\ attempts'[k].answer = attempts[k].answer
                                      /\ attempts'[k].shown = attempts[k].shown
    BY <2>0, <2>1, <2>2, <2>3, ExceptSeq, LenProperties
  <2>5. Locked
    BY <1>3, <1>t DEF RowFits
  <2> QED
    BY <1>t, <2>3, <2>4, <2>5, RowKeeps DEF Locked, PageTypes
<1> QED
  BY <1>1, <1>2, <1>3

(* The invariant holds of every behaviour. *)
LEMMA FitInvariant == Spec => []FitInv
<1>1. FitInv /\ [Next]_vars => FitInv'
  <2> SUFFICES ASSUME FitInv, [Next]_vars PROVE FitInv'
    OBVIOUS
  <2>1. CASE UNCHANGED vars
    <3>1. PageTypes' /\ StartFits'
      BY <2>1, Zenon DEF vars, FitInv, PageTypes, StartFits
    <3> QED
      BY <2>1, <3>1, StoredKeeps, AnswerKeeps, KnownKeeps DEF vars, FitInv
  <2> QED
    BY <2>1, RefreshKeeps, StartKeeps, DraftKeeps, SubmitKeeps, DefenseKeeps
    DEF Next, Click, Fails
<1> QED
  BY FitInit, <1>1, PTL DEF Spec

(* Every draft of a defense fits its mode, and so does every attempt sent  *)
(* from a page that showed it as active, however the requests of the page, *)
(* the teacher and the runner overtake each other.                         *)
THEOREM AnswersFitModeCorrect == Spec => []AnswersFitMode
<1>1. FitInv => AnswersFitMode
  BY DEF FitInv
<1> QED
  BY FitInvariant, <1>1, PTL
=============================================================================
