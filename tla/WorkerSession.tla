--------------------------- MODULE WorkerSession ----------------------------
(***************************************************************************)
(* cpp-defense-worker (src/worker): processes that each serve one command  *)
(* in a session directory.                                                 *)
(*                                                                         *)
(* A process takes the lock of the session or reports that it is busy,     *)
(* reads the project, and publishes what it made (the state of a           *)
(* preparation, or the project with the student's answer in it) by         *)
(* renaming a temporary tree.  It may fail at every step, die at every     *)
(* step, and its answer may be lost once the work is done.                 *)
(*                                                                         *)
(* The contract calls the staged project immutable, and the runner keeps   *)
(* to it.  Here it may change between two commands.                        *)
(***************************************************************************)
EXTENDS FiniteSets, Naturals

CONSTANTS
    Call,     \* worker processes
    Source,   \* contents the staged project can have
    Answer,   \* bodies and selections a request can carry
    Invalid,  \* answers that leave the body of the entity
    None

Phase == {"catalog", "challenge"}

(* source: the content whose digest the request of an attempt carries *)
Request ==
    [command : Phase, input : Answer] \cup
    [command : {"materialize"}, input : Answer, source : Source]

(* What is published: the inputs it was made from, and whether the writing *)
(* came to its end.                                                        *)
Document == [key : Answer \X Source, whole : BOOLEAN]

Response == {"ok", "busy", "conflict", "exists", "error"}

ASSUME AnswerAssumption == Invalid \subseteq Answer
ASSUME NoneWorkerAssumption == None \notin Call \cup Document \cup Response

VARIABLES
    project,  \* content of the project directory
    lock,     \* the process that has .worker.lock
    state,    \* defense-state.json and defense-challenge-state.json
    output,   \* the attempt's directory
    calls     \* the processes

disk == <<project, state, output>>
vars == <<disk, lock, calls>>

-----------------------------------------------------------------------------

(* pc: where the process is; temp: its temporary tree; response: what it   *)
(* answered, None if it died.                                              *)
Fresh(r) == [request |-> r, pc |-> "start", temp |-> "none",
             made |-> None, response |-> None]

Init ==
    /\ project \in Source /\ lock = None
    /\ state = [p \in Phase |-> None] /\ output = None
    /\ calls \in [Call -> {Fresh(r) : r \in Request}]

At(c, pc) == calls[c].pc = pc
Go(c, pc) == calls' = [calls EXCEPT ![c].pc = pc]

Preparing(c) == calls[c].request.command \in Phase

(* Execute is left: the temporary tree is removed (a removal that fails is *)
(* ignored by the code and not modelled) and the lock dropped.             *)
Leave(c, response, doc) ==
    /\ lock' = None
    /\ calls' = [calls EXCEPT ![c] = [@ EXCEPT !.pc = "done", !.temp = "none",
                                               !.made = doc, !.response = response]]

(* The process answers without having had the lock. *)
Refuse(c, response) ==
    /\ calls' = [calls EXCEPT ![c] = [@ EXCEPT !.pc = "done", !.response = response]]
    /\ UNCHANGED lock

(* Run and Execute up to the lock, which is not waited for.  A request     *)
(* that is malformed, or names no staged session, gets no further.         *)
Begin(c) ==
    /\ At(c, "start")
    /\ \/ lock = None /\ lock' = c /\ Go(c, "locked")
       \/ lock # None /\ Refuse(c, "busy")
       \/ Refuse(c, "error")
    /\ UNCHANGED disk

Key(c) == <<calls[c].request.input, project>>
Made(c) == [key |-> Key(c), whole |-> TRUE]

AnalyzeMutant(c) ==
    LET saved == state[calls[c].request.command] IN
    /\ At(c, "locked") /\ Preparing(c)
    /\ IF saved = None
       THEN Go(c, "check") /\ UNCHANGED lock
       ELSE Leave(c, "ok", Made(c))
    /\ UNCHANGED disk

(* A preparation: the project is analysed, and what an earlier process     *)
(* saved is the answer if it was made from the same inputs.                *)
Analyze(c) ==
    LET saved == state[calls[c].request.command] IN
    /\ At(c, "locked") /\ Preparing(c)
    /\ IF saved = None THEN Go(c, "check") /\ UNCHANGED lock
       ELSE IF saved = Made(c) THEN Leave(c, "ok", saved)
       ELSE Leave(c, "conflict", None)
    /\ UNCHANGED disk

ValidateMutant(c) ==
    /\ At(c, "locked") /\ ~ Preparing(c)
    /\ IF output # None THEN Leave(c, "exists", None)
       ELSE IF calls[c].request.input \in Invalid THEN Leave(c, "error", None)
       ELSE Go(c, "stage") /\ UNCHANGED lock
    /\ UNCHANGED disk

(* An attempt: nothing was materialized yet, the source is the one the     *)
(* entity was selected in, and the answer stays inside the body.           *)
Validate(c) ==
    /\ At(c, "locked") /\ ~ Preparing(c)
    /\ IF output # None THEN Leave(c, "exists", None)
       ELSE IF project # calls[c].request.source THEN Leave(c, "conflict", None)
       ELSE IF calls[c].request.input \in Invalid THEN Leave(c, "error", None)
       ELSE Go(c, "stage") /\ UNCHANGED lock
    /\ UNCHANGED disk

Publish(c, doc) ==
    IF Preparing(c)
    THEN state' = [state EXCEPT ![calls[c].request.command] = doc] /\ UNCHANGED output
    ELSE output' = doc /\ UNCHANGED state

Published(c) ==
    IF Preparing(c) THEN state[calls[c].request.command] ELSE output

(* The final name must be free: SaveState looks before it writes its       *)
(* temporary file, TemporaryTree::Commit when the tree is written.         *)
CheckFree(c) ==
    /\ At(c, "check")
    /\ IF Published(c) # None THEN Leave(c, "exists", None)
       ELSE Go(c, IF Preparing(c) THEN "stage" ELSE "rename") /\ UNCHANGED lock
    /\ UNCHANGED disk

StageMutant(c) ==
    /\ At(c, "stage")
    /\ calls' = [calls EXCEPT ![c] = [@ EXCEPT !.pc = "write", !.temp = "empty"]]
    /\ Publish(c, [Made(c) EXCEPT !.whole = FALSE])
    /\ UNCHANGED <<project, lock>>

(* TemporaryTree, under a name no other process uses. *)
Stage(c) ==
    /\ At(c, "stage")
    /\ calls' = [calls EXCEPT ![c] = [@ EXCEPT !.pc = "write", !.temp = "empty"]]
    /\ UNCHANGED <<disk, lock>>

(* The copy and the patched file, or the state document. *)
WriteTemp(c) ==
    /\ At(c, "write")
    /\ calls' = [calls EXCEPT ![c] = [@ EXCEPT !.temp = "whole",
                    !.pc = IF Preparing(c) THEN "rename" ELSE "check"]]
    /\ UNCHANGED <<disk, lock>>

(* One rename. *)
Commit(c) ==
    /\ At(c, "rename")
    /\ Publish(c, [key |-> Key(c), whole |-> calls[c].temp = "whole"])
    /\ lock' = None
    /\ calls' = [calls EXCEPT ![c] = [@ EXCEPT !.pc = "respond", !.temp = "none",
                                               !.made = Made(c)]]
    /\ UNCHANGED project

(* Run writes the response; it may also turn out too long. *)
Respond(c) ==
    /\ At(c, "respond")
    /\ \E r \in {"ok", "error"} :
            calls' = [calls EXCEPT ![c] = [@ EXCEPT !.pc = "done", !.response = r]]
    /\ UNCHANGED <<disk, lock>>

(* A limit of the project is exceeded, it has no candidates, a file cannot *)
(* be read, written or renamed.  (analyze_project, which publishes         *)
(* nothing, takes and drops the lock like this too.)                       *)
Fail(c) ==
    /\ \E pc \in {"locked", "stage", "write", "check", "rename"} : At(c, pc)
    /\ Leave(c, "error", None)
    /\ UNCHANGED disk

(* The process is killed, or its job runs out of time: the system drops    *)
(* its lock, and a temporary tree stays.                                   *)
Die(c) ==
    /\ ~ At(c, "done")
    /\ Go(c, "done")
    /\ lock' = IF lock = c THEN None ELSE lock
    /\ UNCHANGED disk

(* A caller stages another content, which the fingerprint of a preparation *)
(* and the digest of an attempt are there to notice.  The runner of this   *)
(* repository does not: it has a directory for every job.                  *)
Restage ==
    /\ lock = None /\ project' \in Source
    /\ UNCHANGED <<state, output, lock, calls>>

Next ==
    \/ \E c \in Call :
          \/ Begin(c) \/ Analyze(c) \/ Validate(c) \/ Stage(c) \/ WriteTemp(c)
          \/ CheckFree(c) \/ Commit(c) \/ Respond(c) \/ Fail(c) \/ Die(c)
    \/ Restage

Spec == Init /\ [][Next]_vars

-----------------------------------------------------------------------------
(* Properties                                                              *)

(* What lies under a final name was written to its end, wherever a process *)
(* failed or died.                                                         *)
PublishedWhole ==
    /\ \A p \in Phase : state[p] # None => state[p].whole
    /\ output # None => output.whole

(* Processes that were told a preparation succeeded were told the same,    *)
(* and it is what the session's state says: a retry, a concurrent request  *)
(* or another content of the project never gets a second result.           *)
PreparedOnce ==
    \A c \in Call : calls[c].response = "ok" =>
        calls[c].made = Published(c)

(* A materialized attempt has the answer of its request in the source the  *)
(* entity was selected in, and no second answer replaces it.               *)
AttemptFaithful ==
    /\ output # None => \E c \in Call :
          /\ calls[c].request.command = "materialize"
          /\ output.key = <<calls[c].request.input, calls[c].request.source>>
          /\ calls[c].request.input \notin Invalid
    /\ Cardinality({c \in Call : /\ calls[c].request.command = "materialize"
                                 /\ calls[c].response = "ok"}) <= 1

=============================================================================
