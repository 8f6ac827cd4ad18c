----------------------------- MODULE Snapshots ------------------------------
(***************************************************************************)
(* The build snapshots of the runners (backend/internal/runner:            *)
(* snapshot_build.go, snapshot_store.go, snapshot_archive.go, reference.go)*)
(* and the jobs that use them (agent.go, hide_seek.go).                    *)
(*                                                                         *)
(* A snapshot is the tested build of one original project.  It lives in a  *)
(* directory named by its key under a cache directory that every agent of  *)
(* the host shares; an flock per key guards it.  Beside it every agent     *)
(* process keeps the proofs of the originals it has seen pass.  An answer  *)
(* that equals the original is accepted on such a proof, every other one   *)
(* is built on a copy of the snapshot, or from nothing where there is none.*)
(*                                                                         *)
(* Time is in units that a job's timeout does not exceed.  The age limit   *)
(* of abandoned staging directories is left out, so they may be cleaned at *)
(* any age: the lock alone must protect the live ones.  The byte limit of  *)
(* the cache is counted in snapshots.                                      *)
(***************************************************************************)
EXTENDS Integers, FiniteSets

CONSTANTS
    Slot, Agent,    \* worker loops and the processes they belong to
    Placement,      \* the ways the slots may be spread over the processes
    Key,            \* identities of originals: project, session, image, policy
    Task,           \* the jobs that come in: a kind of job and a key
    File,           \* files of a build
    None,
    RefTTL,         \* referenceTTL
    CacheTTL,       \* BuildCacheTTL
    MaxSnapshots,   \* snapshots the cache may hold
    MaxReferences,  \* proofs an agent may hold
    MaxTime, MaxJobs, MaxCrashes    \* bounds of the model

Job == {"prepare", "match", "attempt", "hide"}

ASSUME TasksAreJobs ==
    Task \subseteq Job \X Key /\ Placement \subseteq [Slot -> Agent]

ASSUME KeysFinite == IsFiniteSet(Key)
ASSUME NoneSnapshotAssumption == None \notin Slot

(* referenceTTL is an hour; a job has five minutes unless the operator     *)
(* gives it more, and it must not have more than half an hour.             *)
ASSUME TTLSnapshotAssumption == RefTTL \in Nat /\ RefTTL >= 2 /\ CacheTTL \in Nat

VARIABLES
    agentOf,     \* which process runs a slot
    disk,        \* the directory of every key, or None
    stages,      \* staging directories: their key and, while it lives, maker
    locks,       \* the flock of every key
    references,  \* the proofs in the memory of every agent
    slots, now, jobs, crashes,
    tested,      \* history: the runs of an original's tests that passed
    accepted     \* history: the last answer accepted on a proof

vars == <<agentOf, disk, stages, locks, references, slots, now, jobs, crashes,
          tested, accepted>>

-----------------------------------------------------------------------------

(* What a sandbox run shows: the tests pass, they fail in the regular way, *)
(* or there is no such result (build error, timeout, broken sandbox).      *)
Result == {"ok", "tests", "broken"}

Idle == [pc |-> "idle", key |-> None, job |-> None, refresh |-> FALSE,
         since |-> 0, at |-> 0, then |-> None, stage |-> 0,
         victim |-> None, listed |-> {}, count |-> 0]

Init ==
    /\ agentOf \in Placement
    /\ disk = [k \in Key |-> None]
    /\ stages = {}
    /\ locks = [k \in Key |-> None]
    /\ references = [a \in Agent |-> [k \in Key |-> None]]
    /\ slots = [s \in Slot |-> Idle]
    /\ now = 0 /\ jobs = 0 /\ crashes = 0
    /\ tested = {} /\ accepted = None

At(s, pc) == slots[s].pc = pc
KeyOf(s) == slots[s].key
Become(s, state) == slots' = [slots EXCEPT ![s] = state]
Goto(s, pc) == Become(s, [slots[s] EXCEPT !.pc = pc])
Leave(s, pc) == [Idle EXCEPT !.pc = pc, !.key = slots[s].key, !.job = slots[s].job,
                             !.refresh = slots[s].refresh, !.since = slots[s].since]
Hold(s, k) == locks' = [locks EXCEPT ![k] = s]
Free(k) == locks' = [locks EXCEPT ![k] = None]

(* Metadata that is not too old, and every file there and still sealed.    *)
Loadable(k) ==
    /\ disk[k] # None /\ disk[k].at # None
    /\ now - disk[k].at <= CacheTTL
    /\ disk[k].files = File /\ disk[k].sealed

Fresh(at) == at # None /\ now - at < RefTTL

(* The proofs of an agent once one more is stored: a full map starts anew. *)
Remember(a, k, at) ==
    LET known == {x \in Key : references[a][x] # None}
        kept == IF Cardinality(known) >= MaxReferences
                THEN [x \in Key |-> None] ELSE references[a]
    IN references' = [references EXCEPT ![a] = [kept EXCEPT ![k] = at]]

-----------------------------------------------------------------------------
(* What follows verifyOriginal and prepareBuildContext.                    *)

Start(s, k, job) ==
    /\ At(s, "idle") /\ jobs < MaxJobs
    /\ jobs' = jobs + 1
    /\ Become(s, [Idle EXCEPT !.pc = "ensure", !.key = k, !.job = job,
                              !.refresh = job \in {"prepare", "match"},
                              !.since = now])
    /\ UNCHANGED <<agentOf, disk, stages, locks, references, now, crashes,
                   tested, accepted>>

(* verifyOriginal returns a proof: an answer equal to the original passes. *)
Proved(s, at) ==
    /\ Become(s, Idle)
    /\ accepted' = IF slots[s].job = "match"
                   THEN [key |-> KeyOf(s), at |-> at, since |-> slots[s].since]
                   ELSE accepted

(* It returns none: the answer is checked like any other.                  *)
NotProved(s) ==
    /\ Become(s, IF slots[s].job = "match"
                 THEN [Leave(s, "ensure") EXCEPT !.refresh = FALSE, !.job = "attempt"]
                 ELSE Idle)
    /\ UNCHANGED accepted

(* ensureSnapshot returns the snapshot verified at a time, or none.        *)
EnsureReturns(s, at) ==
    IF slots[s].refresh
    THEN IF at = None THEN NotProved(s) /\ UNCHANGED references
         ELSE Remember(agentOf[s], KeyOf(s), at) /\ Proved(s, at)
    ELSE /\ Become(s, IF slots[s].job = "hide" /\ at = None THEN Idle
                      ELSE [Leave(s, "run") EXCEPT !.stage = 1])
         /\ UNCHANGED <<references, accepted>>

(* ensureSnapshot fails: the proofs in memory, or a build from nothing.    *)
EnsureFails(s) ==
    /\ Become(s, Leave(s, IF slots[s].refresh THEN "memory" ELSE "bare"))
    /\ UNCHANGED <<references, accepted>>

(* An exported build, unpacked and sealed, with the time of its tests.     *)
Whole(at) == [files |-> File, sealed |-> TRUE, at |-> at]

Stage(s) ==
    /\ Goto(s, "build")
    /\ stages' = stages \cup {[key |-> KeyOf(s), owner |-> s]}

Unstage(s) == stages' = {g \in stages : g.owner # s}

-----------------------------------------------------------------------------
(* ensureSnapshot.                                                         *)

EnsureLock(s) ==
    LET k == KeyOf(s) IN
    /\ At(s, "ensure") /\ locks[k] = None
    /\ IF Loadable(k) /\ (~slots[s].refresh \/ Fresh(disk[k].at))
       THEN EnsureReturns(s, disk[k].at) /\ UNCHANGED <<locks, stages>>
       ELSE /\ Hold(s, k)
            /\ UNCHANGED <<references, accepted>>
            /\ IF Loadable(k) THEN Goto(s, "retest") /\ UNCHANGED stages
               ELSE IF disk[k] = None THEN Stage(s)
               ELSE /\ Become(s, [slots[s] EXCEPT !.pc = "drop", !.then = "build"])
                    /\ UNCHANGED stages
    /\ UNCHANGED <<agentOf, disk, now, jobs, crashes, tested>>

(* The original is tested again on its snapshot: the metadata of one that  *)
(* passes is replaced by a rename, one that does not pass is removed.      *)
Retest(s, r) ==
    LET k == KeyOf(s) IN
    /\ At(s, "retest")
    /\ \/ /\ r # "ok"
          /\ Become(s, [slots[s] EXCEPT !.pc = "drop", !.then = "return"])
          /\ UNCHANGED <<disk, tested, locks, references, accepted>>
       \/ /\ r = "ok" /\ tested' = tested \cup {<<k, now>>}
          /\ disk' = [disk EXCEPT ![k] = [@ EXCEPT !.at = now]]
          /\ Free(k) /\ EnsureReturns(s, now)
       \/ /\ Free(k) /\ EnsureFails(s)
          /\ UNCHANGED <<disk, tested>>
    /\ UNCHANGED <<agentOf, stages, now, jobs, crashes>>

BuildMutant(s, r) ==
    /\ At(s, "build") /\ r = "ok"
    /\ Become(s, [slots[s] EXCEPT !.pc = "publish", !.at = now])
    /\ UNCHANGED <<agentOf, disk, stages, locks, references, now, jobs, crashes,
                   tested, accepted>>

(* The original is built, exported, unpacked and sealed in the staging     *)
(* directory, or the job gives up with or without a result.                *)
Build(s, r) ==
    LET k == KeyOf(s) IN
    /\ At(s, "build")
    /\ \/ /\ r = "ok" /\ Goto(s, "test")
          /\ UNCHANGED <<stages, locks, references, accepted>>
       \/ /\ r # "ok" /\ EnsureReturns(s, None)
          /\ Unstage(s) /\ Free(k)
       \/ /\ EnsureFails(s)
          /\ Unstage(s) /\ Free(k)
    /\ UNCHANGED <<agentOf, disk, now, jobs, crashes, tested>>

(* The tests run on a copy of what was staged.                             *)
Test(s, r) ==
    /\ At(s, "test")
    /\ IF r = "ok"
       THEN /\ tested' = tested \cup {<<KeyOf(s), now>>}
            /\ Become(s, [slots[s] EXCEPT !.pc = "publish", !.at = now])
            /\ UNCHANGED <<stages, locks, references, accepted>>
       ELSE /\ EnsureReturns(s, None)
            /\ Unstage(s) /\ Free(KeyOf(s)) /\ UNCHANGED tested
    /\ UNCHANGED <<agentOf, disk, now, jobs, crashes>>

(* The staging directory with its metadata becomes the key's directory.    *)
(* pruneSnapshots then lists the metadata of every key without its lock.   *)
Publish(s) ==
    LET k == KeyOf(s)
        at == slots[s].at
        here == [disk EXCEPT ![k] = Whole(at)]
        listed == {x \in Key : here[x] # None /\ here[x].at # None}
    IN
    /\ At(s, "publish")
    /\ Unstage(s)
    /\ \/ /\ disk' = here
          /\ Become(s, [slots[s] EXCEPT !.pc = "prune",
                          !.listed = {<<x, here[x].at>> : x \in listed},
                          !.count = Cardinality(listed)])
          /\ UNCHANGED <<locks, references, accepted>>
       \/ EnsureFails(s) /\ Free(k) /\ UNCHANGED disk
    /\ UNCHANGED <<agentOf, now, jobs, crashes, tested>>

-----------------------------------------------------------------------------
(* pruneSnapshots and removeSnapshotTree.                                  *)

Oldest(s) == {v \in slots[s].listed : \A w \in slots[s].listed : v[2] <= w[2]}

Keep(s, v) ==
    v[1] = KeyOf(s) \/ (slots[s].count <= MaxSnapshots /\ now - v[2] < CacheTTL)

(* The next candidate, oldest first, is kept, or locked, or skipped when   *)
(* its lock is held.                                                       *)
Prune(s) ==
    \E v \in Oldest(s) :
        /\ At(s, "prune")
        /\ LET rest == [slots[s] EXCEPT !.listed = @ \ {v}] IN
           IF Keep(s, v) \/ locks[v[1]] # None
           THEN Become(s, rest) /\ UNCHANGED locks
           ELSE /\ Hold(s, v[1])
                /\ Become(s, [rest EXCEPT !.pc = "evict", !.victim = v[1]])
        /\ UNCHANGED <<agentOf, disk, stages, references, now, jobs, crashes,
                       tested, accepted>>

PruneDone(s) ==
    /\ At(s, "prune") /\ slots[s].listed = {}
    /\ Free(KeyOf(s))
    /\ EnsureReturns(s, slots[s].at)
    /\ UNCHANGED <<agentOf, disk, stages, now, jobs, crashes, tested>>

Doomed(s) == IF At(s, "evict") THEN slots[s].victim ELSE KeyOf(s)

(* A tree is removed.  It is not gone at once: see Crash.                  *)
Remove(s) ==
    LET k == Doomed(s) IN
    /\ At(s, "drop") \/ At(s, "evict")
    /\ disk' = [disk EXCEPT ![k] = None]
    /\ IF At(s, "evict")
       THEN /\ Become(s, [slots[s] EXCEPT !.pc = "prune", !.victim = None,
                                          !.count = @ - 1])
            /\ Free(k) /\ UNCHANGED <<stages, references, accepted>>
       ELSE IF slots[s].then = "return"
            THEN EnsureReturns(s, None) /\ Free(k) /\ UNCHANGED stages
            ELSE Stage(s) /\ UNCHANGED <<locks, references, accepted>>
    /\ UNCHANGED <<agentOf, now, jobs, crashes, tested>>

(* cacheRoot removes an old staging directory if it gets the key's lock.   *)
Cleanup(g) ==
    /\ g \in stages /\ locks[g.key] = None
    /\ stages' = stages \ {g}
    /\ UNCHANGED <<agentOf, disk, locks, references, slots, now, jobs, crashes,
                   tested, accepted>>

-----------------------------------------------------------------------------
(* verifyOriginal without a snapshot.                                      *)

MemoryMutant(s) ==
    LET at == references[agentOf[s]][KeyOf(s)] IN
    /\ At(s, "memory")
    /\ IF at # None THEN Proved(s, at) ELSE Goto(s, "plain") /\ UNCHANGED accepted
    /\ UNCHANGED <<agentOf, disk, stages, locks, references, now, jobs, crashes,
                   tested>>

Memory(s) ==
    LET at == references[agentOf[s]][KeyOf(s)] IN
    /\ At(s, "memory")
    /\ IF Fresh(at) THEN Proved(s, at) ELSE Goto(s, "plain") /\ UNCHANGED accepted
    /\ UNCHANGED <<agentOf, disk, stages, locks, references, now, jobs, crashes,
                   tested>>

Plain(s, r) ==
    /\ At(s, "plain")
    /\ \/ /\ r = "ok"
          /\ tested' = tested \cup {<<KeyOf(s), now>>}
          /\ Remember(agentOf[s], KeyOf(s), now)
          /\ Goto(s, "reread") /\ UNCHANGED accepted
       \/ NotProved(s) /\ UNCHANGED <<tested, references>>
    /\ UNCHANGED <<agentOf, disk, stages, locks, now, jobs, crashes>>

(* The proof is read back: another slot may have emptied the map.          *)
Reread(s) ==
    LET at == references[agentOf[s]][KeyOf(s)] IN
    /\ At(s, "reread")
    /\ IF at = None THEN NotProved(s) ELSE Proved(s, at)
    /\ UNCHANGED <<agentOf, disk, stages, locks, references, now, jobs, crashes,
                   tested>>

-----------------------------------------------------------------------------
(* runWithSnapshot and the jobs around it.                                 *)

RunLockMutant(s) ==
    LET k == KeyOf(s) IN
    /\ At(s, "run")
    /\ Goto(s, IF Loadable(k) THEN "reuse" ELSE "bare")
    /\ UNCHANGED <<agentOf, disk, stages, locks, references, now, jobs, crashes,
                   tested, accepted>>

(* The snapshot is locked and loaded.  Without a whole one, or without a   *)
(* usable cache directory, the project is built from nothing.              *)
RunLock(s) ==
    LET k == KeyOf(s) IN
    /\ At(s, "run")
    /\ \/ /\ locks[k] = None /\ Hold(s, k)
          /\ Goto(s, IF Loadable(k) THEN "reuse" ELSE "cold")
       \/ Goto(s, "cold") /\ UNCHANGED locks
    /\ UNCHANGED <<agentOf, disk, stages, references, now, jobs, crashes,
                   tested, accepted>>

Running(s) == At(s, "reuse") \/ At(s, "cold") \/ At(s, "bare")
Release(s) == locks' = [k \in Key |-> IF locks[k] = s THEN None ELSE locks[k]]

(* The check of an answer reports what its run showed.                     *)
CheckEnds(s) ==
    /\ Running(s) /\ slots[s].job # "hide"
    /\ Release(s) /\ Become(s, Idle)
    /\ UNCHANGED <<agentOf, disk, stages, references, now, jobs, crashes, tested,
                   accepted>>

(* What a hide-and-seek preparation must see: the original passes, the     *)
(* changed project fails its tests in the regular way, the original passes *)
(* again.  The last run is remembered as a proof.                          *)
HideRunEnds(s, r) ==
    LET stage == slots[s].stage
        good == r = (IF stage = 1 THEN "tests" ELSE "ok")
    IN
    /\ Running(s) /\ slots[s].job = "hide"
    /\ Release(s)
    /\ Become(s, IF good /\ stage < 2
                 THEN [slots[s] EXCEPT !.pc = IF @ = "bare" THEN @ ELSE "run",
                                       !.stage = @ + 1]
                 ELSE Idle)
    /\ IF good /\ stage = 2
       THEN /\ tested' = tested \cup {<<KeyOf(s), now>>}
            /\ Remember(agentOf[s], KeyOf(s), now)
       ELSE UNCHANGED <<tested, references>>
    /\ UNCHANGED <<agentOf, disk, stages, now, jobs, crashes, accepted>>

(* The cache directory or the image cannot be used, or the job's context   *)
(* ends while it waits for a lock.                                         *)
GiveUp(s) ==
    /\ \/ At(s, "ensure") /\ EnsureFails(s)
       \/ /\ At(s, "run") /\ locks[KeyOf(s)] \notin {None, s}
          /\ Become(s, Idle) /\ UNCHANGED <<references, accepted>>
    /\ UNCHANGED <<agentOf, disk, stages, locks, now, jobs, crashes, tested>>

CrashMutant(a) ==
    LET dead == {s \in Slot : agentOf[s] = a} IN
    /\ crashes < MaxCrashes
    /\ crashes' = crashes + 1
    /\ slots' = [s \in Slot |-> IF s \in dead THEN Idle ELSE slots[s]]
    /\ references' = [references EXCEPT ![a] = [k \in Key |-> None]]
    /\ UNCHANGED <<agentOf, disk, stages, locks, now, jobs, tested, accepted>>

(* What a removal that was cut short may leave of a directory: the tree is *)
(* made writable first and then goes entry by entry.                       *)
Remains(d) ==
    IF d = None THEN {None}
    ELSE {d, None} \cup [files : SUBSET d.files, sealed : {FALSE}, at : {d.at, None}]

(* A process dies: its locks go with it, its directories stay, the one it  *)
(* was removing in whatever state.                                         *)
Crash(a) ==
    LET dead == {s \in Slot : agentOf[s] = a}
        torn == {Doomed(s) : s \in {x \in dead : At(x, "drop") \/ At(x, "evict")}}
    IN
    /\ crashes < MaxCrashes
    /\ crashes' = crashes + 1
    /\ slots' = [s \in Slot |-> IF s \in dead THEN Idle ELSE slots[s]]
    /\ locks' = [k \in Key |-> IF locks[k] \in dead THEN None ELSE locks[k]]
    /\ stages' = {[g EXCEPT !.owner = IF @ \in dead THEN None ELSE @] : g \in stages}
    /\ references' = [references EXCEPT ![a] = [k \in Key |-> None]]
    /\ \E left \in [torn -> UNION {Remains(disk[k]) : k \in torn}] :
          /\ \A k \in torn : left[k] \in Remains(disk[k])
          /\ disk' = [k \in Key |-> IF k \in torn THEN left[k] ELSE disk[k]]
    /\ UNCHANGED <<agentOf, now, jobs, tested, accepted>>

(* A job is over within its timeout, which is less than a unit of time.    *)
Tick ==
    /\ now < MaxTime
    /\ \A s \in Slot : At(s, "idle") \/ slots[s].since = now
    /\ now' = now + 1
    /\ UNCHANGED <<agentOf, disk, stages, locks, references, slots, jobs, crashes,
                   tested, accepted>>

-----------------------------------------------------------------------------

Sandbox(s) ==
    \E r \in Result : Retest(s, r) \/ Build(s, r) \/ Test(s, r)
                      \/ Plain(s, r) \/ HideRunEnds(s, r)

Step(s) ==
    \/ Sandbox(s)
    \/ EnsureLock(s) \/ Publish(s) \/ Prune(s) \/ PruneDone(s)
    \/ Remove(s)
    \/ Memory(s) \/ Reread(s) \/ RunLock(s) \/ CheckEnds(s)

Next ==
    \/ \E s \in Slot : Step(s) \/ GiveUp(s)
    \/ \E s \in Slot, t \in Task : Start(s, t[2], t[1])
    \/ \E g \in stages : Cleanup(g)
    \/ \E a \in Agent : Crash(a)
    \/ Tick

Spec == Init /\ [][Next]_vars

(* A live process goes on: flock is polled, a sandbox ends with its        *)
(* context.  No fairness of new jobs, timeouts, crashes or the clock.      *)
FairSpec == Spec /\ \A s \in Slot : WF_vars(Step(s))

-----------------------------------------------------------------------------

(* Whatever the other slots, their pruning and their crashes do, a sandbox *)
(* only ever mounts a directory that is complete and stays so until the    *)
(* sandbox ends (runSandboxOptions with a seed directory).                 *)
SandboxOnWhole ==
    \A s \in Slot :
        /\ slots[s].pc \in {"retest", "reuse"} =>
              /\ disk[KeyOf(s)] # None
              /\ disk[KeyOf(s)].files = File /\ disk[KeyOf(s)].sealed
        /\ slots[s].pc \in {"build", "test", "publish"} =>
              \E g \in stages : g.key = KeyOf(s) /\ g.owner = s

(* A snapshot that can be loaded carries the time of a run in which the    *)
(* tests of exactly that original passed (ensureSnapshot publishes only    *)
(* after CTest).                                                           *)
SnapshotsEarned ==
    \A k \in Key : Loadable(k) => <<k, disk[k].at>> \in tested

(* An answer is accepted without being built (acceptReference) only on a   *)
(* proof that the tests of its own original passed, and one that was       *)
(* younger than referenceTTL when the answer's job began, or came later.   *)
AcceptedOnProof ==
    accepted # None =>
        /\ <<accepted.key, accepted.at>> \in tested
        /\ accepted.since < accepted.at + RefTTL

(* Every job comes to an end: no slot waits for ever for a lock, although  *)
(* pruning takes other keys' locks while it holds its own.                 *)
JobsEnd == \A s \in Slot : slots[s].pc # "idle" ~> slots[s].pc = "idle"
=============================================================================
