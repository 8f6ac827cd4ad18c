--------------------------- MODULE SnapshotsProofs ---------------------------
(***************************************************************************)
(* The safety properties of Snapshots, for any number of slots, processes, *)
(* originals and files, and at any distance of time.                       *)
(***************************************************************************)
EXTENDS Snapshots, FiniteSetTheorems, TLAPS


(* What the rows of the model hold. *)
Place == {"idle", "ensure", "retest", "drop", "build", "test", "publish", "prune",
          "evict", "memory", "plain", "reread", "run", "reuse", "cold", "bare"}

SlotRow == [pc : Place, key : Key \cup {None}, job : Job \cup {None},
            refresh : BOOLEAN, since : Nat, at : Nat,
            then : {"build", "return", None}, stage : Nat,
            victim : Key \cup {None}, listed : SUBSET (Key \X Nat), count : Int]

Directory == [files : SUBSET File, sealed : BOOLEAN, at : Nat \cup {None}]

SnapshotTypes ==
    /\ agentOf \in [Slot -> Agent]
    /\ disk \in [Key -> Directory \cup {None}]
    /\ stages \subseteq [key : Key, owner : Slot \cup {None}]
    /\ locks \in [Key -> Slot \cup {None}]
    /\ references \in [Agent -> [Key -> Nat \cup {None}]]
    /\ slots \in [Slot -> SlotRow]
    /\ now \in Nat
    /\ \A s \in Slot : ~ At(s, "idle") => KeyOf(s) \in Key

(* The places in which a slot holds the lock of its key. *)
Holding == {"retest", "drop", "build", "test", "publish", "prune", "evict", "reuse"}

LocksHeld(s) ==
    /\ slots[s].pc \in Holding => locks[KeyOf(s)] = s
    /\ slots[s].pc = "evict" =>
          /\ slots[s].victim \in Key \ {KeyOf(s)}
          /\ locks[slots[s].victim] = s

(* The two halves of SandboxOnWhole, of one slot. *)
Mounted(s) ==
    slots[s].pc \in {"retest", "reuse"} =>
        /\ disk[KeyOf(s)] # None
        /\ disk[KeyOf(s)].files = File /\ disk[KeyOf(s)].sealed

Staged(s) ==
    slots[s].pc \in {"build", "test", "publish"} =>
        \E g \in stages : g.key = KeyOf(s) /\ g.owner = s

(* A job began at most one unit ago; its tests passed since then. *)
Timely(s) ==
    /\ slots[s].pc # "idle" => slots[s].since <= now /\ now <= slots[s].since + 1
    /\ slots[s].pc \in {"publish", "prune", "evict"} =>
          <<KeyOf(s), slots[s].at>> \in tested /\ slots[s].since <= slots[s].at

SlotOK(s) == LocksHeld(s) /\ Mounted(s) /\ Staged(s) /\ Timely(s)

(* Whatever says that an original passed its tests is right. *)
ProofsEarned ==
    /\ \A k \in Key : disk[k] # None /\ disk[k].at # None => <<k, disk[k].at>> \in tested
    /\ \A a \in Agent, k \in Key :
          references[a][k] # None => <<k, references[a][k]>> \in tested

(* A proof that is about to be read back is young enough, whoever stored   *)
(* it meanwhile.                                                           *)
RereadFresh ==
    \A s \in Slot :
        LET at == references[agentOf[s]][KeyOf(s)] IN
        At(s, "reread") /\ at # None => slots[s].since < at + RefTTL

(* The inductive invariant. *)
SnapshotInv ==
    /\ SnapshotTypes /\ \A s \in Slot : SlotOK(s)
    /\ ProofsEarned /\ RereadFresh /\ AcceptedOnProof

-----------------------------------------------------------------------------
(* Rows of slots.                                                          *)

(* The row of an idle slot has the type of a row. *)
LEMMA IdleRow == Idle \in SlotRow /\ Idle.pc = "idle"
BY DEF Idle, SlotRow, Place

(* Goto moves a slot and keeps the rest of its row. *)
LEMMA GotoRow ==
    ASSUME NEW r \in SlotRow, NEW p \in Place
    PROVE  LET n == [r EXCEPT !.pc = p] IN
           /\ n \in SlotRow
           /\ n.pc = p /\ n.key = r.key /\ n.since = r.since /\ n.at = r.at
BY Zenon DEF SlotRow

(* ensureSnapshot drops a snapshot and remembers what follows. *)
LEMMA DropRow ==
    ASSUME NEW r \in SlotRow, NEW t \in {"build", "return"}
    PROVE  LET n == [r EXCEPT !.pc = "drop", !.then = t] IN
           /\ n \in SlotRow
           /\ n.pc = "drop" /\ n.key = r.key /\ n.since = r.since
BY Zenon DEF SlotRow, Place

(* A tested build waits to be published. *)
LEMMA TestedRow ==
    ASSUME NEW r \in SlotRow, NEW t \in Nat
    PROVE  LET n == [r EXCEPT !.pc = "publish", !.at = t] IN
           /\ n \in SlotRow
           /\ n.pc = "publish" /\ n.key = r.key /\ n.since = r.since /\ n.at = t
BY Zenon DEF SlotRow, Place

(* A published one is followed by the pruning of what is listed. *)
LEMMA ListRow ==
    ASSUME NEW r \in SlotRow, NEW l, l \subseteq Key \X Nat, NEW c \in Int
    PROVE  [r EXCEPT !.pc = "prune", !.listed = l, !.count = c] \in SlotRow
BY Zenon DEF SlotRow, Place

(* Pruning skips a candidate, ... *)
LEMMA SkipRow ==
    ASSUME NEW r \in SlotRow, NEW v
    PROVE  LET n == [r EXCEPT !.listed = @ \ {v}] IN
           /\ n \in SlotRow
           /\ n.pc = r.pc /\ n.key = r.key /\ n.since = r.since /\ n.at = r.at
<1>1. r.listed \ {v} \in SUBSET (Key \X Nat) BY DEF SlotRow
<1> QED BY <1>1, Zenon DEF SlotRow

(* ... evicts one ... *)
LEMMA EvictRow ==
    ASSUME NEW r \in SlotRow, NEW k \in Key
    PROVE  LET n == [r EXCEPT !.pc = "evict", !.victim = k] IN
           /\ n \in SlotRow
           /\ n.pc = "evict" /\ n.key = r.key /\ n.since = r.since /\ n.at = r.at
           /\ n.victim = k
BY Zenon DEF SlotRow, Place

(* ... and goes on when it is gone. *)
LEMMA EvictedRow ==
    ASSUME NEW r \in SlotRow
    PROVE  LET n == [r EXCEPT !.pc = "prune", !.victim = None, !.count = @ - 1] IN
           /\ n \in SlotRow
           /\ n.pc = "prune" /\ n.key = r.key /\ n.since = r.since /\ n.at = r.at
<1>1. r.count - 1 \in Int BY DEF SlotRow
<1> QED BY <1>1, Zenon DEF SlotRow, Place

(* The next run of a hide-and-seek preparation. *)
LEMMA NextRunRow ==
    ASSUME NEW r \in SlotRow
    PROVE  LET n == [r EXCEPT !.pc = IF @ = "bare" THEN @ ELSE "run", !.stage = @ + 1] IN
           /\ n \in SlotRow
           /\ n.pc \in {"bare", "run"} /\ n.key = r.key /\ n.since = r.since
<1>1. r.stage + 1 \in Nat BY DEF SlotRow
<1> DEFINE p == IF r.pc = "bare" THEN r.pc ELSE "run"
<1>2. p \in {"bare", "run"} /\ p \in Place BY DEF Place
<1> HIDE DEF p
<1>3. LET n == [r EXCEPT !.pc = p, !.stage = @ + 1] IN
           /\ n \in SlotRow
           /\ n.pc = p /\ n.key = r.key /\ n.since = r.since
  BY <1>1, <1>2, Zenon DEF SlotRow
<1> QED BY <1>2, <1>3, Zenon DEF p

(* Leave keeps the job, its key and its start. *)
LEMMA LeaveRow ==
    ASSUME NEW s \in Slot, slots[s] \in SlotRow, NEW p \in Place
    PROVE  /\ Leave(s, p) \in SlotRow
           /\ Leave(s, p).pc = p /\ Leave(s, p).key = slots[s].key
           /\ Leave(s, p).since = slots[s].since
<1>1. Leave(s, p) \in SlotRow BY IdleRow, Zenon DEF Leave, SlotRow
<1>2. Leave(s, p).pc = p BY Zenon DEF Leave, Idle
<1>3. Leave(s, p).key = slots[s].key BY Zenon DEF Leave, Idle
<1>4. Leave(s, p).since = slots[s].since BY Zenon DEF Leave, Idle
<1> QED BY <1>1, <1>2, <1>3, <1>4

(* So does a job that is checked after all, ... *)
LEMMA AttemptRow ==
    ASSUME NEW r \in SlotRow
    PROVE  LET n == [r EXCEPT !.refresh = FALSE, !.job = "attempt"] IN
           /\ n \in SlotRow
           /\ n.pc = r.pc /\ n.key = r.key /\ n.since = r.since
BY Zenon DEF SlotRow, Job

(* ... and one that is about to run. *)
LEMMA RunRow ==
    ASSUME NEW r \in SlotRow
    PROVE  LET n == [r EXCEPT !.stage = 1] IN
           /\ n \in SlotRow
           /\ n.pc = r.pc /\ n.key = r.key /\ n.since = r.since
<1>1. 1 \in Nat OBVIOUS
<1> QED BY <1>1, Zenon DEF SlotRow

(* A job begins. *)
LEMMA StartRow ==
    ASSUME NEW k \in Key, NEW j \in Job, NEW b \in BOOLEAN, NEW t \in Nat
    PROVE  [Idle EXCEPT !.pc = "ensure", !.key = k, !.job = j, !.refresh = b, !.since = t]
              \in SlotRow
BY IdleRow, Zenon DEF SlotRow, Place

-----------------------------------------------------------------------------
(* What a step of one slot may do.                                         *)

(* Of the rows, it changes its own.                                        *)
OwnRow(s) ==
    slots' \in [Slot -> SlotRow] /\ \A o \in Slot \ {s} : slots'[o] = slots[o]

(* It takes free locks and drops its own, ...                              *)
OwnLocks(s) ==
    /\ locks' \in [Key -> Slot \cup {None}]
    /\ \A k \in Key : locks'[k] = locks[k] \/ locks[k] \in {None, s}

(* ... leaves alone what others stage, ...                                 *)
OwnStages(s) ==
    /\ stages' \subseteq [key : Key, owner : Slot \cup {None}]
    /\ \A g \in stages : g.owner # s => g \in stages'

(* ... and changes only trees that it has locked, truthfully.              *)
OwnTrees(s) ==
    /\ disk' \in [Key -> Directory \cup {None}]
    /\ \A k \in Key :
          \/ disk'[k] = disk[k]
          \/ /\ locks[k] = s
             /\ disk'[k] = None \/ disk'[k].at = None \/ <<k, disk'[k].at>> \in tested'

(* It stores a proof only after a run that passed, and while it is fresh.  *)
Earned(k, at) == <<k, at>> \in tested' /\ now < at + RefTTL

Remembers ==
    /\ references' \in [Agent -> [Key -> Nat \cup {None}]]
    /\ \A a \in Agent, k \in Key :
          \/ references'[a][k] \in {references[a][k], None}
          \/ Earned(k, references'[a][k])

Accepts == accepted' = accepted \/ AcceptedOnProof'

StepOK(s) ==
    /\ OwnRow(s) /\ OwnLocks(s) /\ OwnStages(s) /\ OwnTrees(s) /\ Remembers /\ Accepts
    /\ tested \subseteq tested' /\ UNCHANGED <<agentOf, now>>

Rereads(s) ==
    LET at == references[agentOf[s]][KeyOf(s)] IN
    At(s, "reread") /\ at # None => slots[s].since < at + RefTTL

Own(s) == SlotOK(s)' /\ Rereads(s)' /\ (~ At(s, "idle") => KeyOf(s) \in Key)'

(* Such a step spares the other slots. *)
LEMMA SparesOthers ==
    ASSUME SnapshotInv, NEW s \in Slot, StepOK(s), NEW o \in Slot \ {s}
    PROVE  SlotOK(o)' /\ (~ At(o, "idle") => KeyOf(o) \in Key)'
<1> slots'[o] = slots[o] /\ SlotOK(o) /\ now' = now /\ tested \subseteq tested'
    /\ (slots[o].pc # "idle" => slots[o].key \in Key)
  BY DEF SnapshotInv, SnapshotTypes, StepOK, OwnRow, At, KeyOf
<1>1. ASSUME NEW k \in Key, locks[k] = o PROVE locks'[k] = o /\ disk'[k] = disk[k]
  BY <1>1, NoneSnapshotAssumption, Zenon DEF StepOK, OwnLocks, OwnTrees
<1>2. slots[o].pc \in Holding => slots[o].pc # "idle" BY DEF Holding
<1>3. LocksHeld(o)' BY <1>1, <1>2 DEF SlotOK, LocksHeld, KeyOf
<1>4. Mounted(o)' BY <1>1 DEF SlotOK, LocksHeld, Mounted, KeyOf, Holding
<1>5. Staged(o)' BY DEF SlotOK, Staged, KeyOf, StepOK, OwnStages
<1>6. Timely(o)' BY DEF SlotOK, Timely, KeyOf
<1> QED BY <1>3, <1>4, <1>5, <1>6 DEF SlotOK, At, KeyOf

(* A step that does no more than that keeps the invariant. *)
LEMMA SlotStep ==
    ASSUME SnapshotInv, NEW s \in Slot, StepOK(s), Own(s)
    PROVE  SnapshotInv'
<1>1. \A o \in Slot : SlotOK(o)' /\ (~ At(o, "idle") => KeyOf(o) \in Key)'
  BY SparesOthers DEF Own
<1>2. SnapshotTypes'
  BY <1>1 DEF SnapshotTypes, StepOK, OwnRow, OwnLocks, OwnStages, OwnTrees, Remembers,
              SnapshotInv
<1>3. ProofsEarned'
  <2>1. ASSUME NEW k \in Key, disk'[k] # None, disk'[k].at # None
        PROVE  <<k, disk'[k].at>> \in tested'
    BY <2>1 DEF SnapshotInv, ProofsEarned, StepOK, OwnTrees
  <2>2. ASSUME NEW a \in Agent, NEW k \in Key, references'[a][k] # None
        PROVE  <<k, references'[a][k]>> \in tested'
    BY <2>2 DEF SnapshotInv, ProofsEarned, StepOK, Remembers, Earned
  <2> QED BY <2>1, <2>2 DEF ProofsEarned
<1>4. RereadFresh'
  <2> SUFFICES ASSUME NEW o \in Slot PROVE Rereads(o)'
    BY DEF RereadFresh, Rereads
  <2>1. CASE o = s BY <2>1, Zenon DEF Own
  <2>2. CASE o # s
    <3> /\ slots'[o] = slots[o] /\ agentOf' = agentOf /\ now' = now
        /\ slots[o] \in SlotRow /\ agentOf[o] \in Agent /\ now \in Nat
        /\ (slots[o].pc # "idle" => slots[o].key \in Key)
      BY <2>2 DEF StepOK, OwnRow, SnapshotInv, SnapshotTypes, At, KeyOf
    <3>1. Rereads(o) /\ Timely(o)
      BY Zenon DEF SnapshotInv, RereadFresh, Rereads, SlotOK
    <3> DEFINE a == agentOf[o]
               k == slots[o].key
               was == references[a][k]
               is == references'[a][k]
    <3> SUFFICES ASSUME slots[o].pc = "reread", is # None
                 PROVE  slots[o].since < is + RefTTL
      BY DEF Rereads, At, KeyOf
    <3>2. k \in Key /\ slots[o].since \in Nat /\ slots[o].since <= now
      BY <3>1, Zenon DEF Timely, SlotRow
    <3>3. is \in Nat \cup {None} /\ (is = was \/ Earned(k, is))
      BY <3>2, Zenon DEF StepOK, Remembers
    <3>4. CASE is = was BY <3>1, <3>4, Zenon DEF Rereads, At, KeyOf
    <3>5. CASE Earned(k, is)
      BY <3>2, <3>3, <3>5, TTLSnapshotAssumption DEF Earned
    <3> QED BY <3>3, <3>4, <3>5
  <2> QED BY <2>1, <2>2
<1>5. AcceptedOnProof'
  BY DEF StepOK, Accepts, AcceptedOnProof, SnapshotInv
<1> QED BY <1>1, <1>2, <1>3, <1>4, <1>5 DEF SnapshotInv

(* What a step leaves as it is. *)
LEMMA Keeping ==
    ASSUME SnapshotTypes, NEW s \in Slot
    PROVE  /\ UNCHANGED locks => OwnLocks(s)
           /\ UNCHANGED stages => OwnStages(s)
           /\ UNCHANGED disk => OwnTrees(s)
           /\ UNCHANGED references => Remembers
           /\ UNCHANGED accepted => Accepts
BY DEF SnapshotTypes, OwnLocks, OwnStages, OwnTrees, Remembers, Accepts

(* The types of what a step of a busy slot starts from. *)
LEMMA Busy ==
    ASSUME SnapshotInv, NEW s \in Slot, slots[s].pc # "idle"
    PROVE  /\ SnapshotTypes /\ SlotOK(s)
           /\ slots[s] \in SlotRow /\ KeyOf(s) \in Key /\ agentOf[s] \in Agent
           /\ slots[s].since \in Nat /\ slots[s].at \in Nat /\ now \in Nat
           /\ slots[s].since <= now /\ now <= slots[s].since + 1
<1>1. SnapshotTypes /\ SlotOK(s) BY DEF SnapshotInv
<1>2. slots[s] \in SlotRow /\ KeyOf(s) \in Key /\ agentOf[s] \in Agent /\ now \in Nat
  BY <1>1 DEF SnapshotTypes, At
<1>3. slots[s].since \in Nat /\ slots[s].at \in Nat BY <1>2 DEF SlotRow
<1> QED BY <1>1, <1>2, <1>3 DEF SlotOK, Timely

-----------------------------------------------------------------------------
(* Where a step may end.                                                   *)

(* In these places a slot holds and owes nothing. *)
Light == {"idle", "ensure", "memory", "plain", "run", "cold", "bare"}

LightRow(s, row) ==
    /\ row \in SlotRow /\ row.pc \in Light
    /\ row.pc # "idle" => row.key = slots[s].key /\ row.since = slots[s].since

(* In a light place a slot keeps its promises by being there. *)
LEMMA LightStep ==
    ASSUME SnapshotInv, NEW s \in Slot, slots[s].pc # "idle", StepOK(s),
           LightRow(s, slots'[s])
    PROVE  SnapshotInv'
<1> /\ slots'[s].pc \in Light /\ now' = now
    /\ slots'[s].pc # "idle" =>
          slots'[s].key \in Key /\ slots'[s].since <= now /\ now <= slots'[s].since + 1
  BY Busy DEF LightRow, KeyOf, StepOK
<1>1. LocksHeld(s)' /\ Mounted(s)' /\ Staged(s)'
  BY DEF LocksHeld, Mounted, Staged, Light, Holding
<1>2. Timely(s)' BY DEF Timely, Light
<1>3. Rereads(s)' BY DEF Rereads, At, Light
<1>4. Own(s) BY <1>1, <1>2, <1>3 DEF Own, SlotOK, At, KeyOf
<1> QED BY <1>4, SlotStep

(* A slot moves on with the lock of its key, and with what its new place   *)
(* asks for.                                                               *)
LEMMA HeldStep ==
    ASSUME SnapshotInv, NEW s \in Slot, slots[s].pc # "idle", StepOK(s),
           slots'[s].pc \in Holding \ {"evict"}, slots'[s].key = slots[s].key,
           slots'[s].since = slots[s].since, locks'[KeyOf(s)] = s,
           Mounted(s)', Staged(s)',
           slots'[s].pc \in {"publish", "prune"} =>
              <<KeyOf(s), slots'[s].at>> \in tested' /\ slots[s].since <= slots'[s].at
    PROVE  SnapshotInv'
<1>1. /\ KeyOf(s) \in Key /\ slots[s].since <= now /\ now <= slots[s].since + 1
      /\ now' = now
  BY Busy DEF StepOK
<1>2. LocksHeld(s)' BY Zenon DEF LocksHeld, KeyOf
<1>3. Timely(s)' BY <1>1, Zenon DEF Timely, KeyOf, Holding
<1>4. Rereads(s)' BY DEF Rereads, At, Holding
<1>5. Own(s) BY <1>1, <1>2, <1>3, <1>4 DEF Own, SlotOK, At, KeyOf
<1> QED BY <1>5, SlotStep, Zenon

(* Become changes one row. *)
LEMMA Becoming ==
    ASSUME SnapshotTypes, NEW s \in Slot, NEW row \in SlotRow, Become(s, row)
    PROVE  OwnRow(s) /\ slots'[s] = row
BY DEF SnapshotTypes, Become, OwnRow

(* Goto another place. *)
LEMMA Going ==
    ASSUME SnapshotTypes, NEW s \in Slot, slots[s] \in SlotRow, NEW p \in Place,
           Goto(s, p)
    PROVE  /\ OwnRow(s) /\ slots'[s].pc = p /\ slots'[s].key = slots[s].key
           /\ slots'[s].since = slots[s].since /\ slots'[s].at = slots[s].at
           /\ p \in Light => LightRow(s, slots'[s])
<1> DEFINE n == [slots[s] EXCEPT !.pc = p]
<1>1. n \in SlotRow /\ n.pc = p /\ n.key = slots[s].key /\ n.since = slots[s].since
      /\ n.at = slots[s].at
  BY GotoRow
<1> HIDE DEF n
<1>2. OwnRow(s) /\ slots'[s] = n BY <1>1, Becoming DEF Goto, n
<1> QED BY <1>1, <1>2 DEF LightRow

(* Become idle. *)
LEMMA Ending ==
    ASSUME SnapshotTypes, NEW s \in Slot, Become(s, Idle)
    PROVE  OwnRow(s) /\ LightRow(s, slots'[s])
BY Becoming, IdleRow DEF LightRow, Light

(* Remember stores one proof and may forget others. *)
LEMMA Remembering ==
    ASSUME SnapshotTypes, NEW a \in Agent, NEW k \in Key, NEW at \in Nat,
           Remember(a, k, at), Earned(k, at)
    PROVE  Remembers /\ references'[a][k] = at
<1> DEFINE known == {x \in Key : references[a][x] # None}
           kept == IF Cardinality(known) >= MaxReferences
                   THEN [x \in Key |-> None] ELSE references[a]
<1> references' = [references EXCEPT ![a] = [kept EXCEPT ![k] = at]]
  BY DEF Remember
<1> references \in [Agent -> [Key -> Nat \cup {None}]] BY DEF SnapshotTypes
<1> kept \in [Key -> Nat \cup {None}] /\ \A x \in Key : kept[x] \in {references[a][x], None}
  OBVIOUS
<1> HIDE DEF kept
<1>1. references' \in [Agent -> [Key -> Nat \cup {None}]] OBVIOUS
<1>2. references'[a][k] = at OBVIOUS
<1>3. ASSUME NEW b \in Agent, NEW x \in Key
      PROVE  references'[b][x] \in {references[b][x], None} \/ Earned(x, references'[b][x])
  <2>1. CASE b # a BY <2>1
  <2>2. CASE b = a /\ x # k
    <3>1. references'[b][x] = kept[x] BY <2>2
    <3> QED BY <2>2, <3>1
  <2>3. CASE b = a /\ x = k BY <1>2, <2>3
  <2> QED BY <2>1, <2>2, <2>3
<1> QED BY <1>1, <1>2, <1>3 DEF Remembers

(* An answer is accepted on an earned proof. *)
LEMMA Proving ==
    ASSUME SnapshotInv, NEW s \in Slot, slots[s].pc # "idle", NEW at \in Nat,
           <<KeyOf(s), at>> \in tested', slots[s].since < at + RefTTL, Proved(s, at)
    PROVE  OwnRow(s) /\ LightRow(s, slots'[s]) /\ Accepts
<1>1. OwnRow(s) /\ LightRow(s, slots'[s]) BY Busy, Ending DEF Proved
<1>2. Accepts BY Zenon DEF Proved, Accepts, AcceptedOnProof
<1> QED BY <1>1, <1>2, Zenon

(* Without one its job goes on, or is over. *)
LEMMA NotProving ==
    ASSUME SnapshotInv, NEW s \in Slot, slots[s].pc # "idle", NotProved(s)
    PROVE  OwnRow(s) /\ LightRow(s, slots'[s]) /\ Accepts
<1> SnapshotTypes /\ slots[s] \in SlotRow BY Busy
<1> DEFINE r == Leave(s, "ensure")
           n == [r EXCEPT !.refresh = FALSE, !.job = "attempt"]
<1>1. r \in SlotRow /\ r.pc = "ensure" /\ r.key = slots[s].key /\ r.since = slots[s].since
  BY LeaveRow DEF Place
<1>2. (Become(s, n) \/ Become(s, Idle)) /\ UNCHANGED accepted BY DEF NotProved
<1> HIDE DEF r
<1>3. n \in SlotRow /\ n.pc = "ensure" /\ n.key = slots[s].key /\ n.since = slots[s].since
  BY <1>1, AttemptRow, Zenon
<1> HIDE DEF n
<1>4. Become(s, n) => OwnRow(s) /\ LightRow(s, slots'[s])
  BY <1>3, Becoming DEF LightRow, Light
<1> QED BY <1>2, <1>4, Ending, Keeping

(* ensureSnapshot returns: a proof it stores or uses is earned and fresh. *)
LEMMA Returning ==
    ASSUME SnapshotInv, NEW s \in Slot, slots[s].pc # "idle", NEW at \in Nat \cup {None},
           at # None => <<KeyOf(s), at>> \in tested',
           at # None /\ slots[s].refresh => now < at + RefTTL,
           EnsureReturns(s, at)
    PROVE  OwnRow(s) /\ LightRow(s, slots'[s]) /\ Remembers /\ Accepts
<1> /\ SnapshotTypes /\ slots[s] \in SlotRow /\ KeyOf(s) \in Key /\ agentOf[s] \in Agent
    /\ slots[s].since \in Nat /\ now \in Nat /\ slots[s].since <= now
  BY Busy, Zenon
<1>1. CASE slots[s].refresh /\ at = None
  <2>1. NotProved(s) /\ UNCHANGED references BY <1>1, Zenon DEF EnsureReturns
  <2> QED BY <2>1, NotProving, Keeping
<1>2. CASE slots[s].refresh /\ at # None
  <2>1. Remember(agentOf[s], KeyOf(s), at) /\ Proved(s, at) BY <1>2 DEF EnsureReturns
  <2>2. at \in Nat /\ Earned(KeyOf(s), at) /\ slots[s].since < at + RefTTL
    BY <1>2, TTLSnapshotAssumption DEF Earned
  <2>3. Remembers BY <2>1, <2>2, Remembering, Zenon
  <2>4. OwnRow(s) /\ LightRow(s, slots'[s]) /\ Accepts
    BY <2>1, <2>2, Proving, Zenon DEF Earned
  <2> QED BY <2>3, <2>4
<1>3. CASE ~ slots[s].refresh
  <2> DEFINE r == Leave(s, "run")
             n == [r EXCEPT !.stage = 1]
  <2>1. (Become(s, Idle) \/ Become(s, n)) /\ UNCHANGED <<references, accepted>>
    BY <1>3, Zenon DEF EnsureReturns
  <2>2. r \in SlotRow /\ r.pc = "run" /\ r.key = slots[s].key /\ r.since = slots[s].since
    BY LeaveRow DEF Place
  <2> HIDE DEF r
  <2>3. n \in SlotRow /\ n.pc = "run" /\ n.key = slots[s].key /\ n.since = slots[s].since
    BY <2>2, RunRow
  <2> HIDE DEF n
  <2>4. Become(s, n) => OwnRow(s) /\ LightRow(s, slots'[s])
    BY <2>3, Becoming DEF LightRow, Light
  <2> QED BY <2>1, <2>4, Ending, Keeping
<1> QED BY <1>1, <1>2, <1>3

(* ensureSnapshot fails. *)
LEMMA Failing ==
    ASSUME SnapshotInv, NEW s \in Slot, slots[s].pc # "idle", EnsureFails(s)
    PROVE  OwnRow(s) /\ LightRow(s, slots'[s]) /\ Remembers /\ Accepts
<1> SnapshotTypes /\ slots[s] \in SlotRow BY Busy
<1> DEFINE p == IF slots[s].refresh THEN "memory" ELSE "bare"
           r == Leave(s, p)
<1>1. Become(s, r) /\ UNCHANGED <<references, accepted>> BY DEF EnsureFails
<1>2. p \in Light /\ p \in Place BY DEF Light, Place
<1> HIDE DEF p
<1>3. r \in SlotRow /\ r.pc = p /\ r.key = slots[s].key /\ r.since = slots[s].since
  BY <1>2, LeaveRow
<1> HIDE DEF r
<1>4. OwnRow(s) /\ LightRow(s, slots'[s]) BY <1>1, <1>2, <1>3, Becoming DEF LightRow
<1> QED BY <1>1, <1>4, Keeping

(* A slot frees the lock of a key that it holds, ... *)
LEMMA Freeing ==
    ASSUME SnapshotTypes, NEW s \in Slot, NEW k \in Key, locks[k] = s, Free(k)
    PROVE  OwnLocks(s)
BY DEF SnapshotTypes, Free, OwnLocks

(* ... takes a free lock, ... *)
LEMMA Taking ==
    ASSUME SnapshotTypes, NEW s \in Slot, NEW k \in Key, locks[k] = None, Hold(s, k)
    PROVE  OwnLocks(s) /\ locks'[k] = s /\ \A x \in Key : locks[x] = s => locks'[x] = s
BY DEF SnapshotTypes, Hold, OwnLocks

(* ... lets go of all its locks ... *)
LEMMA Releasing ==
    ASSUME SnapshotTypes, NEW s \in Slot, Release(s)
    PROVE  OwnLocks(s)
BY DEF SnapshotTypes, Release, OwnLocks

(* ... and removes what it staged. *)
LEMMA Unstaging ==
    ASSUME SnapshotTypes, NEW s \in Slot, Unstage(s)
    PROVE  OwnStages(s)
BY DEF SnapshotTypes, Unstage, OwnStages

(* A new staging directory belongs to its maker. *)
LEMMA Staging ==
    ASSUME SnapshotInv, NEW s \in Slot, slots[s].pc # "idle", Stage(s)
    PROVE  /\ OwnRow(s) /\ slots'[s].pc = "build" /\ slots'[s].key = slots[s].key
           /\ slots'[s].since = slots[s].since
           /\ OwnStages(s) /\ Staged(s)' /\ Mounted(s)'
<1> SnapshotTypes /\ slots[s] \in SlotRow /\ KeyOf(s) \in Key BY Busy
<1> DEFINE g == [key |-> KeyOf(s), owner |-> s]
<1>1. Goto(s, "build") /\ stages' = stages \cup {g} BY Zenon DEF Stage
<1>2. /\ OwnRow(s) /\ slots'[s].pc = "build" /\ slots'[s].key = slots[s].key
      /\ slots'[s].since = slots[s].since
  BY <1>1, Going DEF Place
<1>3. g \in [key : Key, owner : Slot \cup {None}] /\ g.key = KeyOf(s) /\ g.owner = s
  OBVIOUS
<1> HIDE DEF g
<1>4. OwnStages(s) BY <1>1, <1>3 DEF SnapshotTypes, OwnStages
<1>5. Staged(s)' BY <1>1, <1>2, <1>3 DEF Staged, KeyOf
<1>6. Mounted(s)' BY <1>2 DEF Mounted
<1> QED BY <1>2, <1>4, <1>5, <1>6

-----------------------------------------------------------------------------
(* ensureSnapshot keeps the invariant.                                     *)

(* A snapshot that does not serve is about to be dropped. *)
LEMMA Dropping ==
    ASSUME SnapshotTypes, NEW s \in Slot, slots[s] \in SlotRow,
           NEW t \in {"build", "return"},
           Become(s, [slots[s] EXCEPT !.pc = "drop", !.then = t])
    PROVE  /\ OwnRow(s) /\ slots'[s].pc = "drop" /\ slots'[s].key = slots[s].key
           /\ slots'[s].since = slots[s].since
           /\ Mounted(s)' /\ Staged(s)'
<1> DEFINE n == [slots[s] EXCEPT !.pc = "drop", !.then = t]
<1>1. n \in SlotRow /\ n.pc = "drop" /\ n.key = slots[s].key /\ n.since = slots[s].since
  BY DropRow, Zenon
<1>2. Become(s, n) OBVIOUS
<1> HIDE DEF n
<1>3. OwnRow(s) /\ slots'[s] = n BY <1>1, <1>2, Becoming
<1>4. Mounted(s)' /\ Staged(s)' BY <1>1, <1>3 DEF Mounted, Staged
<1> QED BY <1>1, <1>3, <1>4

(* ensureSnapshot takes the lock and looks at the snapshot. *)
LEMMA EnsureLockStep ==
    ASSUME SnapshotInv, NEW s \in Slot, EnsureLock(s)
    PROVE  SnapshotInv'
<1> DEFINE k == KeyOf(s)
           d == disk[k]
<1> /\ slots[s].pc = "ensure" /\ locks[k] = None
    /\ UNCHANGED <<agentOf, disk, now, jobs, crashes, tested>>
  BY DEF EnsureLock, At
<1> SnapshotTypes /\ slots[s] \in SlotRow /\ k \in Key /\ now \in Nat BY Busy, Zenon
<1>1. CASE Loadable(k) /\ (~slots[s].refresh \/ Fresh(d.at))
  <2>1. EnsureReturns(s, d.at) /\ UNCHANGED <<locks, stages>>
    BY <1>1 DEF EnsureLock
  <2>2. d \in Directory /\ d # None /\ d.at # None
    BY <1>1, Zenon DEF Loadable, SnapshotTypes
  <2>3. d.at \in Nat BY <2>2 DEF Directory
  <2>4. <<k, d.at>> \in tested' BY <2>2 DEF SnapshotInv, ProofsEarned
  <2>5. slots[s].refresh => now < d.at + RefTTL
    BY <1>1, <2>3, TTLSnapshotAssumption DEF Fresh
  <2>6. OwnRow(s) /\ LightRow(s, slots'[s]) /\ Remembers /\ Accepts
    BY <2>1, <2>3, <2>4, <2>5, Returning, Zenon
  <2>7. StepOK(s) BY <2>1, <2>6, Keeping, Zenon DEF StepOK
  <2> QED BY <2>6, <2>7, LightStep
<1>2. CASE ~ (Loadable(k) /\ (~slots[s].refresh \/ Fresh(d.at)))
  <2>1. Hold(s, k) /\ UNCHANGED <<references, accepted>> BY <1>2 DEF EnsureLock
  <2>2. OwnLocks(s) /\ locks'[k] = s BY <2>1, Taking, Zenon
  <2>3. OwnRow(s) /\ OwnStages(s) => StepOK(s) BY <2>1, <2>2, Keeping, Zenon DEF StepOK
  <2>4. CASE Loadable(k)
    <3>1. Goto(s, "retest") /\ UNCHANGED stages BY <1>2, <2>4 DEF EnsureLock
    <3>2. /\ OwnRow(s) /\ slots'[s].pc = "retest" /\ slots'[s].key = slots[s].key
          /\ slots'[s].since = slots[s].since
      BY <3>1, Going DEF Place
    <3>3. Mounted(s)' /\ Staged(s)' BY <2>4, <3>2 DEF Mounted, Staged, KeyOf, Loadable
    <3>4. StepOK(s) BY <2>3, <3>1, <3>2, Keeping, Zenon
    <3> QED BY <2>2, <3>2, <3>3, <3>4, HeldStep, Zenon DEF Holding
  <2>5. CASE ~ Loadable(k) /\ d = None
    <3>1. Stage(s) BY <1>2, <2>5 DEF EnsureLock
    <3> QED BY <2>2, <2>3, <3>1, Staging, HeldStep, Zenon DEF Holding
  <2>6. CASE ~ Loadable(k) /\ d # None
    <3>1. Become(s, [slots[s] EXCEPT !.pc = "drop", !.then = "build"]) /\ UNCHANGED stages
      BY <1>2, <2>6 DEF EnsureLock
    <3>2. /\ OwnRow(s) /\ slots'[s].pc = "drop" /\ slots'[s].key = slots[s].key
          /\ slots'[s].since = slots[s].since
          /\ Mounted(s)' /\ Staged(s)'
      BY <3>1, Dropping, Zenon
    <3>3. StepOK(s) BY <2>3, <3>1, <3>2, Keeping
    <3> QED BY <2>2, <3>2, <3>3, HeldStep, Zenon DEF Holding
  <2> QED BY <2>4, <2>5, <2>6
<1> QED BY <1>1, <1>2

(* The original is tested again on its snapshot. *)
LEMMA RetestStep ==
    ASSUME SnapshotInv, NEW s \in Slot, NEW r \in Result, Retest(s, r)
    PROVE  SnapshotInv'
<1> DEFINE k == KeyOf(s)
<1> slots[s].pc = "retest" /\ UNCHANGED <<agentOf, stages, now, jobs, crashes>>
  BY Zenon DEF Retest, At
<1> /\ SnapshotTypes /\ slots[s] \in SlotRow /\ k \in Key /\ now \in Nat
    /\ locks[k] = s /\ disk[k] # None
  BY Busy DEF SlotOK, LocksHeld, Mounted, Holding
<1>1. CASE /\ Become(s, [slots[s] EXCEPT !.pc = "drop", !.then = "return"])
           /\ UNCHANGED <<disk, tested, locks, references, accepted>>
  <2>1. /\ OwnRow(s) /\ slots'[s].pc = "drop" /\ slots'[s].key = slots[s].key
        /\ slots'[s].since = slots[s].since
        /\ Mounted(s)' /\ Staged(s)'
    BY <1>1, Dropping, Zenon
  <2>2. StepOK(s) BY <1>1, <2>1, Keeping, Zenon DEF StepOK
  <2> QED BY <1>1, <2>1, <2>2, HeldStep, Zenon DEF Holding
<1>2. CASE /\ tested' = tested \cup {<<k, now>>}
           /\ disk' = [disk EXCEPT ![k] = [@ EXCEPT !.at = now]]
           /\ Free(k) /\ EnsureReturns(s, now)
  <2>1. now < now + RefTTL BY TTLSnapshotAssumption
  <2>2. OwnRow(s) /\ LightRow(s, slots'[s]) /\ Remembers /\ Accepts
    BY <1>2, <2>1, Returning, Zenon
  <2> DEFINE d == [disk[k] EXCEPT !.at = now]
  <2>3. disk[k] \in Directory BY DEF SnapshotTypes
  <2>4. d \in Directory /\ d.at = now BY <2>3, Zenon DEF Directory
  <2>5. disk' = [disk EXCEPT ![k] = d] BY <1>2
  <2> HIDE DEF d
  <2>6. OwnTrees(s) BY <1>2, <2>4, <2>5, Zenon DEF SnapshotTypes, OwnTrees
  <2>7. StepOK(s) BY <1>2, <2>2, <2>6, Freeing, Keeping, Zenon DEF StepOK
  <2> QED BY <2>2, <2>7, LightStep, Zenon
<1>3. CASE Free(k) /\ EnsureFails(s) /\ UNCHANGED <<disk, tested>>
  <2>1. OwnRow(s) /\ LightRow(s, slots'[s]) /\ Remembers /\ Accepts
    BY <1>3, Failing, Zenon
  <2>2. StepOK(s) BY <1>3, <2>1, Freeing, Keeping, Zenon DEF StepOK
  <2> QED BY <2>1, <2>2, LightStep
<1> QED BY <1>1, <1>2, <1>3 DEF Retest

(* The original is built in the staging directory, or is not. *)
LEMMA BuildStep ==
    ASSUME SnapshotInv, NEW s \in Slot, NEW r \in Result, Build(s, r)
    PROVE  SnapshotInv'
<1> DEFINE k == KeyOf(s)
<1> slots[s].pc = "build" /\ UNCHANGED <<agentOf, disk, now, jobs, crashes, tested>>
  BY Zenon DEF Build, At
<1> SnapshotTypes /\ slots[s] \in SlotRow /\ k \in Key /\ locks[k] = s /\ Staged(s)
  BY Busy, Zenon DEF SlotOK, LocksHeld, Holding
<1>1. CASE Goto(s, "test") /\ UNCHANGED <<stages, locks, references, accepted>>
  <2>1. /\ OwnRow(s) /\ slots'[s].pc = "test" /\ slots'[s].key = slots[s].key
        /\ slots'[s].since = slots[s].since
    BY <1>1, Going, Zenon DEF Place
  <2>2. Mounted(s)' /\ Staged(s)' BY <1>1, <2>1, SMTT(20) DEF Mounted, Staged, KeyOf
  <2>3. StepOK(s) BY <1>1, <2>1, Keeping DEF StepOK
  <2> QED BY <1>1, <2>1, <2>2, <2>3, HeldStep, Zenon DEF Holding
<1>2. CASE (EnsureReturns(s, None) \/ EnsureFails(s)) /\ Unstage(s) /\ Free(k)
  <2>1. OwnRow(s) /\ LightRow(s, slots'[s]) /\ Remembers /\ Accepts
    BY <1>2, Failing, Returning, Zenon
  <2>2. StepOK(s) BY <1>2, <2>1, Freeing, Unstaging, Keeping DEF StepOK
  <2> QED BY <2>1, <2>2, LightStep, Zenon
<1> QED BY <1>1, <1>2, Zenon DEF Build

(* The tests pass on what was staged, or do not. *)
LEMMA TestStep ==
    ASSUME SnapshotInv, NEW s \in Slot, NEW r \in Result, Test(s, r)
    PROVE  SnapshotInv'
<1> DEFINE k == KeyOf(s)
<1> slots[s].pc = "test" /\ UNCHANGED <<agentOf, disk, now, jobs, crashes>>
  BY Zenon DEF Test, At
<1> /\ SnapshotTypes /\ slots[s] \in SlotRow /\ k \in Key /\ locks[k] = s /\ Staged(s)
    /\ now \in Nat /\ slots[s].since <= now
  BY Busy, Zenon DEF SlotOK, LocksHeld, Holding
<1>1. CASE r = "ok"
  <2> DEFINE n == [slots[s] EXCEPT !.pc = "publish", !.at = now]
  <2> /\ tested' = tested \cup {<<k, now>>} /\ Become(s, n)
      /\ UNCHANGED <<stages, locks, references, accepted>>
    BY <1>1 DEF Test
  <2>1. n \in SlotRow /\ n.pc = "publish" /\ n.key = slots[s].key
        /\ n.since = slots[s].since /\ n.at = now
    BY TestedRow, Zenon
  <2> HIDE DEF n
  <2>2. OwnRow(s) /\ slots'[s] = n BY <2>1, Becoming, Zenon
  <2>3. Mounted(s)' /\ Staged(s)' BY <2>1, <2>2, Zenon DEF Mounted, Staged, KeyOf
  <2>4. StepOK(s) BY <2>2, Keeping, Zenon DEF StepOK
  <2> QED BY <2>1, <2>2, <2>3, <2>4, HeldStep, Zenon DEF Holding
<1>2. CASE r # "ok"
  <2> EnsureReturns(s, None) /\ Unstage(s) /\ Free(k) /\ UNCHANGED tested
    BY <1>2, Zenon DEF Test
  <2>1. OwnRow(s) /\ LightRow(s, slots'[s]) /\ Remembers /\ Accepts BY Returning, Zenon
  <2>2. StepOK(s) BY <2>1, Freeing, Unstaging, Keeping, Zenon DEF StepOK
  <2> QED BY <2>1, <2>2, LightStep
<1> QED BY <1>1, <1>2

(* The tested build becomes the snapshot of its key. *)
LEMMA PublishStep ==
    ASSUME SnapshotInv, NEW s \in Slot, Publish(s)
    PROVE  SnapshotInv'
<1> DEFINE k == KeyOf(s)
           at == slots[s].at
           here == [disk EXCEPT ![k] = Whole(at)]
           listed == {x \in Key : here[x] # None /\ here[x].at # None}
           l == {<<x, here[x].at>> : x \in listed}
           c == Cardinality(listed)
           n == [slots[s] EXCEPT !.pc = "prune", !.listed = l, !.count = c]
<1> /\ slots[s].pc = "publish" /\ Unstage(s)
    /\ UNCHANGED <<agentOf, now, jobs, crashes, tested>>
  BY Zenon DEF Publish, At
<1> /\ SnapshotTypes /\ slots[s] \in SlotRow /\ k \in Key /\ locks[k] = s
    /\ at \in Nat /\ <<k, at>> \in tested /\ slots[s].since <= at
  BY Busy, Zenon DEF SlotOK, LocksHeld, Timely, Holding
<1>1. CASE disk' = here /\ Become(s, n) /\ UNCHANGED <<locks, references, accepted>>
  <2>1. Whole(at) \in Directory /\ Whole(at).at = at BY Zenon DEF Whole, Directory
  <2>2. here \in [Key -> Directory \cup {None}] /\ here[k].at = at
        /\ \A x \in Key \ {k} : here[x] = disk[x]
    BY <2>1, Zenon DEF SnapshotTypes
  <2> HIDE DEF here
  <2>3. l \in SUBSET (Key \X Nat)
    <3> SUFFICES ASSUME NEW x \in listed PROVE here[x].at \in Nat OBVIOUS
    <3>1. here[x] \in Directory /\ here[x].at # None BY <2>2, Zenon
    <3> QED BY <3>1, Zenon DEF Directory
  <2>4. c \in Int BY KeysFinite, FS_Subset, FS_CardinalityType
  <2> HIDE DEF listed, l, c
  <2>5. n \in SlotRow BY <2>3, <2>4, ListRow, Zenon
  <2>6. n.pc = "prune" /\ n.key = slots[s].key /\ n.since = slots[s].since /\ n.at = at
    BY Zenon DEF SlotRow
  <2> HIDE DEF n
  <2>7. OwnRow(s) /\ slots'[s] = n BY <1>1, <2>5, Becoming, Zenon
  <2>8. Mounted(s)' /\ Staged(s)' BY <2>6, <2>7, Zenon DEF Mounted, Staged
  <2>9. OwnTrees(s) BY <1>1, <2>2, Zenon DEF OwnTrees
  <2>10. StepOK(s) BY <1>1, <2>7, <2>9, Unstaging, Keeping, Zenon DEF StepOK
  <2> QED BY <1>1, <2>6, <2>7, <2>8, <2>10, HeldStep, Zenon DEF Holding
<1>2. CASE EnsureFails(s) /\ Free(k) /\ UNCHANGED disk
  <2>1. OwnRow(s) /\ LightRow(s, slots'[s]) /\ Remembers /\ Accepts BY <1>2, Failing, Zenon
  <2>2. StepOK(s) BY <1>2, <2>1, Freeing, Unstaging, Keeping, Zenon DEF StepOK
  <2> QED BY <2>1, <2>2, LightStep, Zenon
<1> QED BY <1>1, <1>2, Zenon DEF Publish

-----------------------------------------------------------------------------
(* pruneSnapshots and removeSnapshotTree keep it.                          *)

(* A candidate is kept, skipped, or locked to be removed. *)
LEMMA PruneStep ==
    ASSUME SnapshotInv, NEW s \in Slot, Prune(s)
    PROVE  SnapshotInv'
<1> DEFINE k == KeyOf(s)
<1>1. PICK v \in Oldest(s) :
        /\ At(s, "prune")
        /\ LET rest == [slots[s] EXCEPT !.listed = @ \ {v}] IN
           IF Keep(s, v) \/ locks[v[1]] # None
           THEN Become(s, rest) /\ UNCHANGED locks
           ELSE /\ Hold(s, v[1])
                /\ Become(s, [rest EXCEPT !.pc = "evict", !.victim = v[1]])
        /\ UNCHANGED <<agentOf, disk, stages, references, now, jobs, crashes,
                       tested, accepted>>
  BY Zenon DEF Prune
<1> DEFINE rest == [slots[s] EXCEPT !.listed = @ \ {v}]
<1> /\ slots[s].pc = "prune"
    /\ UNCHANGED <<agentOf, disk, stages, references, now, tested, accepted>>
  BY <1>1, Zenon DEF At
<1> /\ SnapshotTypes /\ slots[s] \in SlotRow /\ k \in Key /\ locks[k] = s
    /\ <<k, slots[s].at>> \in tested /\ slots[s].since <= slots[s].at
    /\ slots[s].since <= now /\ now <= slots[s].since + 1
  BY Busy, Zenon DEF SlotOK, LocksHeld, Timely, Holding
<1>2. v[1] \in Key BY DEF Oldest, SlotRow
<1>3. /\ rest \in SlotRow /\ rest.pc = "prune" /\ rest.key = slots[s].key
      /\ rest.since = slots[s].since /\ rest.at = slots[s].at
  BY SkipRow, Zenon
<1>4. OwnRow(s) /\ OwnLocks(s) => StepOK(s) BY Keeping, Zenon DEF StepOK
<1>5. CASE Keep(s, v) \/ locks[v[1]] # None
  <2>1. Become(s, rest) /\ UNCHANGED locks BY <1>1, <1>5, Zenon
  <2> HIDE DEF rest
  <2>2. OwnRow(s) /\ slots'[s] = rest BY <1>3, <2>1, Becoming, Zenon
  <2>3. Mounted(s)' /\ Staged(s)' BY <1>3, <2>2, Zenon DEF Mounted, Staged
  <2>4. StepOK(s) BY <1>4, <2>1, <2>2, Keeping, Zenon
  <2> QED BY <1>3, <2>1, <2>2, <2>3, <2>4, HeldStep DEF Holding
<1>6. CASE ~ (Keep(s, v) \/ locks[v[1]] # None)
  <2> DEFINE n == [rest EXCEPT !.pc = "evict", !.victim = v[1]]
  <2>1. Become(s, n) /\ Hold(s, v[1]) BY <1>1, <1>6, Zenon
  <2>2. locks[v[1]] = None /\ v[1] # k BY <1>6 DEF Keep
  <2> HIDE DEF rest
  <2>3. /\ n \in SlotRow /\ n.pc = "evict" /\ n.key = slots[s].key
        /\ n.since = slots[s].since /\ n.at = slots[s].at /\ n.victim = v[1]
    BY <1>2, <1>3, EvictRow, ZenonT(30)
  <2> HIDE DEF n
  <2>4. OwnRow(s) /\ slots'[s] = n BY <2>1, <2>3, Becoming, Zenon
  <2>5. OwnLocks(s) /\ locks'[v[1]] = s /\ locks'[k] = s BY <1>2, <2>1, <2>2, Taking, Zenon
  <2>6. LocksHeld(s)' BY <1>2, <2>2, <2>3, <2>4, <2>5, Zenon DEF LocksHeld, KeyOf
  <2>7. Mounted(s)' /\ Staged(s)' /\ Rereads(s)'
    BY <2>3, <2>4, Zenon DEF Mounted, Staged, Rereads, At
  <2>8. Timely(s)' BY <2>3, <2>4, Zenon DEF Timely, KeyOf
  <2>9. Own(s) BY <2>3, <2>4, <2>6, <2>7, <2>8, Zenon DEF Own, SlotOK, At, KeyOf
  <2> QED BY <1>4, <2>4, <2>5, <2>9, SlotStep
<1> QED BY <1>5, <1>6

(* Pruning is over: the proof is as old as the build that was published. *)
LEMMA PruneDoneStep ==
    ASSUME SnapshotInv, NEW s \in Slot, PruneDone(s)
    PROVE  SnapshotInv'
<1> /\ slots[s].pc = "prune" /\ Free(KeyOf(s)) /\ EnsureReturns(s, slots[s].at)
    /\ UNCHANGED <<agentOf, disk, stages, now, jobs, crashes, tested>>
  BY Zenon DEF PruneDone, At
<1> /\ SnapshotTypes /\ KeyOf(s) \in Key /\ locks[KeyOf(s)] = s
    /\ <<KeyOf(s), slots[s].at>> \in tested /\ slots[s].since <= slots[s].at
    /\ slots[s].since \in Nat /\ slots[s].at \in Nat /\ now \in Nat
    /\ now <= slots[s].since + 1
  BY Busy, Zenon DEF SlotOK, LocksHeld, Timely, Holding
<1>1. now < slots[s].at + RefTTL BY TTLSnapshotAssumption
<1>2. OwnRow(s) /\ LightRow(s, slots'[s]) /\ Remembers /\ Accepts BY <1>1, Returning, Zenon
<1>3. StepOK(s) BY <1>2, Freeing, Keeping, Zenon DEF StepOK
<1> QED BY <1>2, <1>3, LightStep, Zenon

(* A tree is removed under its lock. *)
LEMMA RemoveStep ==
    ASSUME SnapshotInv, NEW s \in Slot, Remove(s)
    PROVE  SnapshotInv'
<1> DEFINE k == KeyOf(s)
           d == Doomed(s)
<1> /\ slots[s].pc \in {"drop", "evict"} /\ disk' = [disk EXCEPT ![d] = None]
    /\ UNCHANGED <<agentOf, now, jobs, crashes, tested>>
  BY Zenon DEF Remove, At
<1> /\ SnapshotTypes /\ slots[s] \in SlotRow /\ k \in Key /\ locks[k] = s
    /\ d \in Key /\ locks[d] = s
    /\ slots[s].pc = "evict" =>
          d # k /\ <<k, slots[s].at>> \in tested /\ slots[s].since <= slots[s].at
  BY Busy, Zenon DEF SlotOK, LocksHeld, Timely, Holding, Doomed, At
<1> HIDE DEF d
<1>1. OwnTrees(s) BY Zenon DEF SnapshotTypes, OwnTrees
<1>2. CASE slots[s].pc = "evict"
  <2> DEFINE n == [slots[s] EXCEPT !.pc = "prune", !.victim = None, !.count = @ - 1]
  <2>1. Become(s, n) /\ Free(d) /\ UNCHANGED <<stages, references, accepted>>
    BY <1>2 DEF Remove, At, d
  <2>2. n \in SlotRow /\ n.pc = "prune" /\ n.key = slots[s].key
        /\ n.since = slots[s].since /\ n.at = slots[s].at
    BY EvictedRow, Zenon
  <2> HIDE DEF n
  <2>3. OwnRow(s) /\ slots'[s] = n BY <2>1, <2>2, Becoming, Zenon
  <2>4. locks'[k] = s BY <1>2, <2>1, Zenon DEF Free, SnapshotTypes
  <2>5. Mounted(s)' /\ Staged(s)' BY <2>2, <2>3, Zenon DEF Mounted, Staged
  <2>6. StepOK(s) BY <1>1, <2>1, <2>3, Freeing, Keeping, Zenon DEF StepOK
  <2> QED BY <1>2, <2>2, <2>3, <2>4, <2>5, <2>6, HeldStep DEF Holding
<1>3. CASE slots[s].pc = "drop" /\ slots[s].then = "return"
  <2>1. EnsureReturns(s, None) /\ Free(k) /\ UNCHANGED stages
    BY <1>3, Zenon DEF Remove, At, Doomed
  <2>2. OwnRow(s) /\ LightRow(s, slots'[s]) /\ Remembers /\ Accepts
    BY <1>3, <2>1, Returning, Zenon
  <2>3. StepOK(s) BY <1>1, <2>1, <2>2, Freeing, Keeping DEF StepOK
  <2> QED BY <1>3, <2>2, <2>3, LightStep
<1>4. CASE slots[s].pc = "drop" /\ slots[s].then # "return"
  <2>1. Stage(s) /\ UNCHANGED <<locks, references, accepted>>
    BY <1>4, Zenon DEF Remove, At
  <2>2. /\ OwnRow(s) /\ slots'[s].pc = "build" /\ slots'[s].key = slots[s].key
        /\ slots'[s].since = slots[s].since
        /\ OwnStages(s) /\ Staged(s)' /\ Mounted(s)'
    BY <1>4, <2>1, Staging, Zenon
  <2>3. StepOK(s) BY <1>1, <2>1, <2>2, Keeping, Zenon DEF StepOK
  <2> QED BY <1>4, <2>1, <2>2, <2>3, HeldStep, Zenon DEF Holding
<1> QED BY <1>2, <1>3, <1>4

-----------------------------------------------------------------------------
(* verifyOriginal without a snapshot, and the runs, keep it.               *)

(* A proof in memory is one of tests that passed. *)
LEMMA ProofInMemory ==
    ASSUME SnapshotInv, NEW s \in Slot, slots[s].pc # "idle",
           references[agentOf[s]][KeyOf(s)] # None
    PROVE  /\ references[agentOf[s]][KeyOf(s)] \in Nat
           /\ <<KeyOf(s), references[agentOf[s]][KeyOf(s)]>> \in tested
<1>1. SnapshotTypes /\ KeyOf(s) \in Key /\ agentOf[s] \in Agent BY Busy, Zenon
<1> QED BY <1>1, Zenon DEF SnapshotInv, SnapshotTypes, ProofsEarned

(* A fresh proof is used. *)
LEMMA MemoryStep ==
    ASSUME SnapshotInv, NEW s \in Slot, Memory(s)
    PROVE  SnapshotInv'
<1> DEFINE at == references[agentOf[s]][KeyOf(s)]
<1> /\ slots[s].pc = "memory"
    /\ UNCHANGED <<agentOf, disk, stages, locks, references, now, jobs, crashes, tested>>
  BY Zenon DEF Memory, At
<1> /\ SnapshotTypes /\ slots[s] \in SlotRow
    /\ now \in Nat /\ slots[s].since \in Nat /\ slots[s].since <= now
  BY Busy, Zenon
<1>1. OwnRow(s) /\ Accepts => StepOK(s) BY Keeping, Zenon DEF StepOK
<1>2. CASE Fresh(at)
  <2>1. Proved(s, at) BY <1>2, Zenon DEF Memory
  <2>2. at \in Nat /\ <<KeyOf(s), at>> \in tested' /\ now - at < RefTTL
    BY <1>2, ProofInMemory, Zenon DEF Fresh
  <2> HIDE DEF at
  <2>3. slots[s].since < at + RefTTL BY <2>2, TTLSnapshotAssumption
  <2>4. OwnRow(s) /\ LightRow(s, slots'[s]) /\ Accepts BY <2>1, <2>2, <2>3, Proving, Zenon
  <2> QED BY <1>1, <2>4, LightStep, Zenon
<1>3. CASE ~ Fresh(at)
  <2>1. Goto(s, "plain") /\ UNCHANGED accepted BY <1>3, Zenon DEF Memory
  <2>2. OwnRow(s) /\ LightRow(s, slots'[s]) BY <2>1, Going DEF Place, Light
  <2> QED BY <1>1, <2>1, <2>2, Keeping, LightStep, Zenon
<1> QED BY <1>2, <1>3, Zenon

(* The original passes on its own, and the proof is stored. *)
LEMMA PlainStep ==
    ASSUME SnapshotInv, NEW s \in Slot, NEW r \in Result, Plain(s, r)
    PROVE  SnapshotInv'
<1> DEFINE k == KeyOf(s)
           a == agentOf[s]
<1> /\ slots[s].pc = "plain"
    /\ UNCHANGED <<agentOf, disk, stages, locks, now, jobs, crashes>>
  BY Zenon DEF Plain, At
<1> /\ SnapshotTypes /\ slots[s] \in SlotRow /\ k \in Key /\ a \in Agent /\ now \in Nat
    /\ slots[s].since \in Nat /\ slots[s].since <= now /\ now <= slots[s].since + 1
  BY Busy, Zenon
<1>1. OwnRow(s) /\ Remembers /\ Accepts /\ tested \subseteq tested' => StepOK(s)
  BY Keeping, Zenon DEF StepOK
<1>2. CASE /\ tested' = tested \cup {<<k, now>>} /\ Remember(a, k, now)
           /\ Goto(s, "reread") /\ UNCHANGED accepted
  <2>1. Earned(k, now) BY <1>2, TTLSnapshotAssumption DEF Earned
  <2>2. Remembers /\ references'[a][k] = now BY <1>2, <2>1, Remembering, Zenon
  <2>3. /\ OwnRow(s) /\ slots'[s].pc = "reread" /\ slots'[s].key = slots[s].key
        /\ slots'[s].since = slots[s].since
    BY <1>2, Going, Zenon DEF Place
  <2>4. LocksHeld(s)' /\ Mounted(s)' /\ Staged(s)'
    BY <2>3, Zenon DEF LocksHeld, Mounted, Staged, Holding
  <2>5. Timely(s)' BY <2>3, Zenon DEF Timely
  <2>6. Rereads(s)' BY <2>2, <2>3, TTLSnapshotAssumption DEF Rereads, KeyOf
  <2>7. Own(s) BY <2>3, <2>4, <2>5, <2>6, Zenon DEF Own, SlotOK, At, KeyOf
  <2>8. StepOK(s) BY <1>1, <1>2, <2>2, <2>3, Keeping, Zenon
  <2> QED BY <2>7, <2>8, SlotStep, Zenon
<1>3. CASE NotProved(s) /\ UNCHANGED <<tested, references>>
  <2>1. OwnRow(s) /\ LightRow(s, slots'[s]) /\ Accepts BY <1>3, NotProving, Zenon
  <2>2. StepOK(s) BY <1>1, <1>3, <2>1, Keeping, Zenon
  <2> QED BY <2>1, <2>2, LightStep, Zenon
<1> QED BY <1>2, <1>3, Zenon DEF Plain

(* It is read back. *)
LEMMA RereadStep ==
    ASSUME SnapshotInv, NEW s \in Slot, Reread(s)
    PROVE  SnapshotInv'
<1> DEFINE at == references[agentOf[s]][KeyOf(s)]
<1> /\ slots[s].pc = "reread"
    /\ UNCHANGED <<agentOf, disk, stages, locks, references, now, jobs, crashes, tested>>
  BY Zenon DEF Reread, At
<1> SnapshotTypes BY Busy, Zenon
<1>1. OwnRow(s) /\ Accepts => StepOK(s) BY Keeping, Zenon DEF StepOK
<1>2. CASE at # None
  <2>1. Proved(s, at) BY <1>2, Zenon DEF Reread
  <2>2. at \in Nat /\ <<KeyOf(s), at>> \in tested' BY <1>2, ProofInMemory, Zenon
  <2>3. slots[s].since < at + RefTTL BY <1>2, Zenon DEF SnapshotInv, RereadFresh, At
  <2> HIDE DEF at
  <2>4. OwnRow(s) /\ LightRow(s, slots'[s]) /\ Accepts BY <2>1, <2>2, <2>3, Proving, Zenon
  <2> QED BY <1>1, <2>4, LightStep, Zenon
<1>3. CASE at = None
  <2>1. NotProved(s) BY <1>3, Zenon DEF Reread
  <2>2. OwnRow(s) /\ LightRow(s, slots'[s]) /\ Accepts BY <2>1, NotProving, Zenon
  <2> QED BY <1>1, <2>2, LightStep
<1> QED BY <1>2, <1>3, Zenon

(* runWithSnapshot locks a whole snapshot, or does without. *)
LEMMA RunLockStep ==
    ASSUME SnapshotInv, NEW s \in Slot, RunLock(s)
    PROVE  SnapshotInv'
<1> DEFINE k == KeyOf(s)
<1> /\ slots[s].pc = "run"
    /\ UNCHANGED <<agentOf, disk, stages, references, now, jobs, crashes, tested, accepted>>
  BY Zenon DEF RunLock, At
<1> SnapshotTypes /\ slots[s] \in SlotRow /\ k \in Key BY Busy, Zenon
<1>1. OwnRow(s) /\ OwnLocks(s) => StepOK(s) BY Keeping, Zenon DEF StepOK
<1>2. CASE locks[k] = None /\ Hold(s, k) /\ Loadable(k) /\ Goto(s, "reuse")
  <2>1. /\ OwnRow(s) /\ slots'[s].pc = "reuse" /\ slots'[s].key = slots[s].key
        /\ slots'[s].since = slots[s].since
    BY <1>2, Going DEF Place
  <2>2. OwnLocks(s) /\ locks'[k] = s BY <1>2, Taking
  <2>3. Mounted(s)' /\ Staged(s)' BY <1>2, <2>1, Zenon DEF Mounted, Staged, KeyOf, Loadable
  <2> QED BY <1>1, <2>1, <2>2, <2>3, HeldStep, Zenon DEF Holding
<1>3. CASE /\ Goto(s, "cold")
           /\ (locks[k] = None /\ Hold(s, k)) \/ UNCHANGED locks
  <2>1. OwnRow(s) /\ LightRow(s, slots'[s]) BY <1>3, Going, Zenon DEF Place, Light
  <2>2. OwnLocks(s) BY <1>3, Taking, Keeping, Zenon
  <2> QED BY <1>1, <2>1, <2>2, LightStep, Zenon
<1> QED BY <1>2, <1>3, Zenon DEF RunLock

(* The check of an answer ends. *)
LEMMA CheckEndsStep ==
    ASSUME SnapshotInv, NEW s \in Slot, CheckEnds(s)
    PROVE  SnapshotInv'
<1> /\ slots[s].pc # "idle" /\ Release(s) /\ Become(s, Idle)
    /\ UNCHANGED <<agentOf, disk, stages, references, now, jobs, crashes, tested, accepted>>
  BY Zenon DEF CheckEnds, Running, At
<1> SnapshotTypes BY Busy, Zenon
<1>1. OwnRow(s) /\ LightRow(s, slots'[s]) BY Ending, Zenon
<1>2. StepOK(s) BY <1>1, Releasing, Keeping, Zenon DEF StepOK
<1> QED BY <1>1, <1>2, LightStep, Zenon

(* A run of a hide-and-seek preparation ends. *)
LEMMA HideRunEndsStep ==
    ASSUME SnapshotInv, NEW s \in Slot, NEW r \in Result, HideRunEnds(s, r)
    PROVE  SnapshotInv'
<1> DEFINE k == KeyOf(s)
           n == [slots[s] EXCEPT !.pc = IF @ = "bare" THEN @ ELSE "run", !.stage = @ + 1]
<1>1. /\ slots[s].pc # "idle" /\ Release(s) /\ (Become(s, Idle) \/ Become(s, n))
      /\ UNCHANGED <<agentOf, disk, stages, now, jobs, crashes, accepted>>
  BY DEF HideRunEnds, Running, At
<1> SnapshotTypes /\ slots[s] \in SlotRow /\ k \in Key /\ agentOf[s] \in Agent /\ now \in Nat
  BY <1>1, Busy
<1>2. n \in SlotRow /\ n.pc \in {"bare", "run"} /\ n.key = slots[s].key
      /\ n.since = slots[s].since
  BY NextRunRow, Zenon
<1>3. \/ UNCHANGED <<tested, references>>
      \/ tested' = tested \cup {<<k, now>>} /\ Remember(agentOf[s], k, now)
  BY DEF HideRunEnds
<1> HIDE DEF n
<1>4. LightRow(s, n) BY <1>2 DEF LightRow, Light
<1>5. OwnRow(s) /\ LightRow(s, slots'[s]) BY <1>1, <1>2, <1>4, Becoming, Ending, Zenon
<1>6. Remembers /\ tested \subseteq tested'
  <2>1. CASE UNCHANGED <<tested, references>> BY <2>1, Keeping, Zenon
  <2>2. CASE tested' = tested \cup {<<k, now>>} /\ Remember(agentOf[s], k, now)
    <3>1. Earned(k, now) BY <2>2, TTLSnapshotAssumption DEF Earned
    <3> QED BY <2>2, <3>1, Remembering
  <2> QED BY <1>3, <2>1, <2>2, Zenon
<1>7. StepOK(s) BY <1>1, <1>5, <1>6, Releasing, Keeping, Zenon DEF StepOK
<1> QED BY <1>1, <1>5, <1>7, LightStep

(* A job cannot use the cache, or gives up waiting. *)
LEMMA GiveUpStep ==
    ASSUME SnapshotInv, NEW s \in Slot, GiveUp(s)
    PROVE  SnapshotInv'
<1> /\ slots[s].pc # "idle"
    /\ EnsureFails(s) \/ (Become(s, Idle) /\ UNCHANGED <<references, accepted>>)
    /\ UNCHANGED <<agentOf, disk, stages, locks, now, jobs, crashes, tested>>
  BY Zenon DEF GiveUp, At
<1> SnapshotTypes BY Busy, Zenon
<1>1. OwnRow(s) /\ LightRow(s, slots'[s]) /\ Remembers /\ Accepts
  BY Failing, Ending, Keeping, Zenon
<1>2. StepOK(s) BY <1>1, Keeping DEF StepOK
<1> QED BY <1>1, <1>2, LightStep, Zenon

(* A job begins. *)
LEMMA StartStep ==
    ASSUME SnapshotInv, NEW s \in Slot, NEW t \in Task, Start(s, t[2], t[1])
    PROVE  SnapshotInv'
<1> DEFINE k == t[2]
           j == t[1]
           b == j \in {"prepare", "match"}
           n == [Idle EXCEPT !.pc = "ensure", !.key = k, !.job = j, !.refresh = b,
                             !.since = now]
<1>1. /\ Become(s, n)
      /\ UNCHANGED <<agentOf, disk, stages, locks, references, now, crashes, tested, accepted>>
  BY DEF Start
<1> SnapshotTypes /\ now \in Nat BY DEF SnapshotInv, SnapshotTypes
<1>2. k \in Key /\ j \in Job /\ b \in BOOLEAN BY TasksAreJobs
<1> HIDE DEF k, j, b
<1>3. n \in SlotRow BY <1>2, StartRow, Zenon
<1>4. n.pc = "ensure" /\ n.key = k /\ n.since = now BY Zenon DEF Idle
<1> HIDE DEF n
<1>5. OwnRow(s) /\ slots'[s] = n BY <1>1, <1>3, Becoming, Zenon
<1>6. LocksHeld(s)' /\ Mounted(s)' /\ Staged(s)' /\ Rereads(s)'
  BY <1>4, <1>5, Zenon DEF LocksHeld, Mounted, Staged, Rereads, Holding, At
<1>7. Timely(s)' BY <1>1, <1>4, <1>5 DEF Timely
<1>8. Own(s) BY <1>2, <1>4, <1>5, <1>6, <1>7, Zenon DEF Own, SlotOK, KeyOf
<1>9. StepOK(s) BY <1>1, <1>5, Keeping DEF StepOK
<1> QED BY <1>8, <1>9, SlotStep


-----------------------------------------------------------------------------
(* Steps that are not of one slot.                                         *)

(* A staging directory is only cleaned when nobody holds its lock. *)
LEMMA CleanupStep ==
    ASSUME SnapshotInv, NEW g \in stages, Cleanup(g)
    PROVE  SnapshotInv'
<1>1. /\ locks[g.key] = None /\ stages' = stages \ {g}
      /\ UNCHANGED <<agentOf, disk, locks, references, slots, now, tested, accepted>>
  BY Zenon DEF Cleanup
<1>2. SnapshotTypes' BY <1>1 DEF SnapshotInv, SnapshotTypes, At, KeyOf
<1>3. ASSUME NEW s \in Slot PROVE SlotOK(s)'
  <2>1. SlotOK(s) BY DEF SnapshotInv
  <2>2. LocksHeld(s)' /\ Mounted(s)' /\ Timely(s)'
    BY <1>1, <2>1, Zenon DEF SlotOK, LocksHeld, Mounted, Timely, KeyOf
  <2>3. Staged(s)'
    <3> SUFFICES ASSUME slots[s].pc \in {"build", "test", "publish"}
                 PROVE  \E h \in stages' : h.key = KeyOf(s) /\ h.owner = s
      BY <1>1, Zenon DEF Staged, KeyOf
    <3>1. PICK h \in stages : h.key = KeyOf(s) /\ h.owner = s BY <2>1, Zenon DEF SlotOK, Staged
    <3>2. locks[h.key] = s BY <2>1, <3>1, Zenon DEF SlotOK, LocksHeld, Holding
    <3>3. h # g BY <1>1, <3>2, NoneSnapshotAssumption, SMTT(20)
    <3> QED BY <1>1, <3>1, <3>3, Zenon
  <2> QED BY <2>2, <2>3 DEF SlotOK
<1>4. ProofsEarned' /\ RereadFresh' /\ AcceptedOnProof'
  BY <1>1 DEF SnapshotInv, ProofsEarned, RereadFresh, AcceptedOnProof, At, KeyOf
<1> QED BY <1>2, <1>3, <1>4, Zenon DEF SnapshotInv

(* Time goes on while every job is within its first unit. *)
LEMMA TickStep ==
    ASSUME SnapshotInv, Tick
    PROVE  SnapshotInv'
<1>1. /\ now' = now + 1 /\ now \in Nat
      /\ \A s \in Slot : slots[s].pc = "idle" \/ slots[s].since = now
      /\ UNCHANGED <<agentOf, disk, stages, locks, references, slots, tested, accepted>>
  BY Zenon DEF Tick, At, SnapshotInv, SnapshotTypes
<1>2. SnapshotTypes' BY <1>1 DEF SnapshotInv, SnapshotTypes, At, KeyOf
<1>3. ASSUME NEW s \in Slot PROVE SlotOK(s)'
  <2>1. SlotOK(s) BY DEF SnapshotInv
  <2>2. LocksHeld(s)' /\ Mounted(s)' /\ Staged(s)'
    BY <1>1, <2>1, Zenon DEF SlotOK, LocksHeld, Mounted, Staged, KeyOf
  <2>3. Timely(s) /\ (slots[s].pc = "idle" \/ slots[s].since = now)
    BY <1>1, <2>1, Zenon DEF SlotOK
  <2>4. slots[s].pc # "idle" => slots[s].since <= now + 1 /\ now + 1 <= slots[s].since + 1
    BY <1>1, <2>3
  <2>5. Timely(s)' BY <1>1, <2>3, <2>4, Zenon DEF Timely, KeyOf
  <2> QED BY <2>2, <2>5 DEF SlotOK
<1>4. ProofsEarned' /\ RereadFresh' /\ AcceptedOnProof'
  BY <1>1, Zenon DEF SnapshotInv, ProofsEarned, RereadFresh, AcceptedOnProof, At, KeyOf
<1> QED BY <1>2, <1>3, <1>4, Zenon DEF SnapshotInv

(* What is left of a directory has its old time, or none. *)
LEMMA RemainsEarned ==
    ASSUME NEW d \in Directory \cup {None}, NEW e \in Remains(d)
    PROVE  /\ e \in Directory \cup {None}
           /\ e # None /\ e.at # None => d # None /\ e.at = d.at
<1>1. CASE d = None BY <1>1 DEF Remains
<1>2. CASE d # None /\ e \in {d, None} BY <1>2
<1>3. CASE d # None /\ e \in [files : SUBSET d.files, sealed : {FALSE}, at : {d.at, None}]
  <2>1. d \in Directory BY <1>3
  <2>2. d.files \subseteq File /\ d.at \in Nat \cup {None} BY <2>1 DEF Directory
  <2>3. e \in Directory BY <1>3, <2>2, Zenon DEF Directory
  <2>4. e.at \in {d.at, None} BY <1>3, Zenon
  <2> QED BY <1>3, <2>3, <2>4
<1> QED BY <1>1, <1>2, <1>3, Zenon DEF Remains

(* A process dies: its locks and proofs go, a tree it was removing may be  *)
(* left in any state, and nothing that another process uses is touched.    *)
LEMMA CrashStep ==
    ASSUME SnapshotInv, NEW a \in Agent, Crash(a)
    PROVE  SnapshotInv'
<1> DEFINE dead == {s \in Slot : agentOf[s] = a}
           torn == {Doomed(s) : s \in {x \in dead : At(x, "drop") \/ At(x, "evict")}}
<1>1. /\ slots' = [s \in Slot |-> IF s \in dead THEN Idle ELSE slots[s]]
      /\ locks' = [k \in Key |-> IF locks[k] \in dead THEN None ELSE locks[k]]
      /\ stages' = {[g EXCEPT !.owner = IF @ \in dead THEN None ELSE @] : g \in stages}
      /\ references' = [references EXCEPT ![a] = [k \in Key |-> None]]
      /\ UNCHANGED <<agentOf, now, jobs, tested, accepted>>
  BY DEF Crash
<1>2. PICK left \in [torn -> UNION {Remains(disk[k]) : k \in torn}] :
          /\ \A k \in torn : left[k] \in Remains(disk[k])
          /\ disk' = [k \in Key |-> IF k \in torn THEN left[k] ELSE disk[k]]
  BY Zenon DEF Crash
<1>3. SnapshotTypes BY Zenon DEF SnapshotInv
<1>4. ASSUME NEW k \in Key
      PROVE  /\ disk'[k] \in Directory \cup {None}
             /\ disk'[k] # None /\ disk'[k].at # None =>
                   disk[k] # None /\ disk'[k].at = disk[k].at
  <2>1. disk[k] \in Directory \cup {None} BY <1>3, Zenon DEF SnapshotTypes
  <2>2. CASE k \in torn
    <3>1. disk'[k] \in Remains(disk[k]) BY <1>2, <2>2, Zenon
    <3> QED BY <2>1, <3>1, RemainsEarned, Zenon
  <2>3. CASE k \notin torn BY <1>2, <2>1, <2>3, Zenon
  <2> QED BY <2>2, <2>3
<1>5. ASSUME NEW s \in Slot, slots[s].pc \in {"drop", "evict"}
      PROVE  locks[Doomed(s)] = s
  BY <1>5, Zenon DEF SnapshotInv, SlotOK, LocksHeld, Holding, Doomed, At
<1>6. ASSUME NEW k \in torn PROVE locks[k] \in dead
  BY <1>5 DEF At
<1>7. /\ references' \in [Agent -> [Key -> Nat \cup {None}]]
      /\ \A b \in Agent, k \in Key : references'[b][k] \in {references[b][k], None}
  BY <1>1, <1>3, Zenon DEF SnapshotTypes
<1>8. disk' \in [Key -> Directory \cup {None}] BY <1>2, <1>4, Zenon
<1> HIDE DEF torn
<1>9. ASSUME NEW s \in Slot, s \notin dead
      PROVE  slots'[s] = slots[s] /\ SlotOK(s)'
  <2>1. slots'[s] = slots[s] /\ SlotOK(s) BY <1>1, <1>9, Zenon DEF SnapshotInv
  <2>2. slots[s].pc # "idle" => KeyOf(s) \in Key BY <1>3 DEF SnapshotTypes, At
  <2>3. ASSUME NEW k \in Key, locks[k] = s PROVE locks'[k] = s /\ disk'[k] = disk[k]
    BY <1>1, <1>2, <1>6, <1>9, <2>3, Zenon
  <2>4. LocksHeld(s)' BY <2>1, <2>2, <2>3 DEF SlotOK, LocksHeld, Holding, KeyOf
  <2>5. Mounted(s)' BY <2>1, <2>2, <2>3, Zenon DEF SlotOK, LocksHeld, Mounted, Holding, KeyOf
  <2>6. Staged(s)'
    <3> SUFFICES ASSUME slots[s].pc \in {"build", "test", "publish"}
                 PROVE  \E h \in stages' : h.key = KeyOf(s) /\ h.owner = s
      BY <2>1 DEF Staged, KeyOf
    <3>1. PICK h \in stages : h.key = KeyOf(s) /\ h.owner = s BY <2>1, Zenon DEF SlotOK, Staged
    <3>2. h \in [key : Key, owner : Slot \cup {None}] BY <1>3 DEF SnapshotTypes
    <3> DEFINE e == [h EXCEPT !.owner = IF @ \in dead THEN None ELSE @]
    <3>3. e \in stages' BY <1>1, Zenon
    <3>4. e.key = h.key /\ e.owner = s BY <1>9, <3>1, <3>2
    <3> QED BY <3>1, <3>3, <3>4, Zenon
  <2>7. Timely(s)' BY <1>1, <2>1 DEF SlotOK, Timely, KeyOf
  <2> QED BY <2>1, <2>4, <2>5, <2>6, <2>7 DEF SlotOK
<1>10. ASSUME NEW s \in dead PROVE slots'[s].pc = "idle" /\ SlotOK(s)'
  <2>1. slots'[s].pc = "idle" BY <1>1, IdleRow
  <2> QED BY <2>1, Zenon DEF SlotOK, LocksHeld, Mounted, Staged, Timely, Holding
<1>11. SnapshotTypes'
  <2>1. slots' \in [Slot -> SlotRow] /\ locks' \in [Key -> Slot \cup {None}]
    BY <1>1, <1>3, IdleRow DEF SnapshotTypes
  <2>2. stages' \subseteq [key : Key, owner : Slot \cup {None}]
    <3> SUFFICES ASSUME NEW h \in stages
                 PROVE  [h EXCEPT !.owner = IF @ \in dead THEN None ELSE @]
                          \in [key : Key, owner : Slot \cup {None}]
      BY <1>1, Zenon
    <3>1. h \in [key : Key, owner : Slot \cup {None}] BY <1>3, Zenon DEF SnapshotTypes
    <3> QED BY <3>1
  <2>3. \A s \in Slot : (~ At(s, "idle") => KeyOf(s) \in Key)'
    BY <1>3, <1>9, <1>10 DEF SnapshotTypes, At, KeyOf
  <2> QED BY <1>1, <1>3, <1>7, <1>8, <2>1, <2>2, <2>3, SMTT(20) DEF SnapshotTypes
<1>12. ProofsEarned'
  BY <1>1, <1>4, <1>7 DEF SnapshotInv, ProofsEarned
<1>13. RereadFresh'
  <2> SUFFICES ASSUME NEW s \in Slot PROVE Rereads(s)' BY Zenon DEF RereadFresh, Rereads
  <2>1. CASE s \in dead BY <1>10, <2>1, Zenon DEF Rereads, At
  <2>2. CASE s \notin dead
    <3>1. slots'[s] = slots[s] BY <1>9, <2>2, Zenon
    <3>2. agentOf[s] \in Agent /\ agentOf[s] # a BY <1>3, <2>2 DEF SnapshotTypes
    <3>3. references'[agentOf[s]] = references[agentOf[s]]
      BY <1>1, <1>3, <3>2 DEF SnapshotTypes
    <3> QED BY <1>1, <3>1, <3>3, Zenon DEF SnapshotInv, RereadFresh, Rereads, At, KeyOf
  <2> QED BY <2>1, <2>2, Zenon
<1>14. AcceptedOnProof' BY <1>1 DEF SnapshotInv, AcceptedOnProof
<1> QED BY <1>9, <1>10, <1>11, <1>12, <1>13, <1>14 DEF SnapshotInv

-----------------------------------------------------------------------------
(* The theorems.                                                           *)

(* The program starts without snapshots, jobs or proofs. *)
LEMMA SnapshotInit == Init => SnapshotInv
<1> SUFFICES ASSUME Init PROVE SnapshotInv OBVIOUS
<1>1. agentOf \in [Slot -> Agent] BY TasksAreJobs, Zenon DEF Init
<1>2. SnapshotTypes BY <1>1, IdleRow DEF Init, SnapshotTypes, At
<1>3. \A s \in Slot : slots[s].pc = "idle" BY IdleRow, Zenon DEF Init
<1>4. \A s \in Slot : SlotOK(s)
  BY <1>3 DEF SlotOK, LocksHeld, Mounted, Staged, Timely, Holding
<1>5. ProofsEarned BY Zenon DEF Init, ProofsEarned
<1>6. RereadFresh BY <1>3 DEF RereadFresh, At
<1>7. AcceptedOnProof BY Zenon DEF Init, AcceptedOnProof
<1> QED BY <1>2, <1>4, <1>5, <1>6, <1>7 DEF SnapshotInv

(* Every step keeps the invariant. *)
LEMMA SnapshotStep == SnapshotInv /\ [Next]_vars => SnapshotInv'
<1> SUFFICES ASSUME SnapshotInv, [Next]_vars PROVE SnapshotInv' OBVIOUS
<1>1. CASE UNCHANGED vars
  BY <1>1, ZenonT(30) DEF vars, SnapshotInv, SnapshotTypes, SlotOK, LocksHeld, Mounted, Staged, Timely,
              ProofsEarned, RereadFresh, AcceptedOnProof, At, KeyOf
<1>2. ASSUME NEW s \in Slot, Step(s) PROVE SnapshotInv'
  <2>1. ASSUME Sandbox(s) PROVE SnapshotInv'
    BY <2>1, RetestStep, BuildStep, TestStep, PlainStep, HideRunEndsStep DEF Sandbox
  <2> QED
    BY <1>2, <2>1, EnsureLockStep, PublishStep, PruneStep, PruneDoneStep, RemoveStep,
       MemoryStep, RereadStep, RunLockStep, CheckEndsStep DEF Step
<1>3. ASSUME NEW s \in Slot, GiveUp(s) PROVE SnapshotInv' BY <1>3, GiveUpStep
<1>4. ASSUME NEW s \in Slot, NEW t \in Task, Start(s, t[2], t[1]) PROVE SnapshotInv'
  BY <1>4, StartStep
<1>5. ASSUME NEW g \in stages, Cleanup(g) PROVE SnapshotInv' BY <1>5, CleanupStep
<1>6. ASSUME NEW a \in Agent, Crash(a) PROVE SnapshotInv' BY <1>6, CrashStep
<1>7. ASSUME Tick PROVE SnapshotInv' BY <1>7, TickStep
<1> QED BY <1>1, <1>2, <1>3, <1>4, <1>5, <1>6, <1>7 DEF Next

(* The invariant holds in every state. *)
LEMMA SnapshotInvariant == Spec => []SnapshotInv
BY SnapshotInit, SnapshotStep, PTL DEF Spec

(* A sandbox of a reused snapshot, a retest or a build only ever mounts a  *)
(* directory that is complete and stays so, whatever other slots, their    *)
(* pruning and their crashes do.                                           *)
THEOREM SandboxOnWholeCorrect == Spec => []SandboxOnWhole
<1>1. SnapshotInv => SandboxOnWhole
  BY Zenon DEF SnapshotInv, SlotOK, Mounted, Staged, SandboxOnWhole
<1> QED BY <1>1, SnapshotInvariant, PTL

(* A snapshot that ensureSnapshot or runWithSnapshot can load carries the  *)
(* time of a run in which the tests of its own original passed.            *)
THEOREM SnapshotsEarnedCorrect == Spec => []SnapshotsEarned
<1>1. SnapshotInv => SnapshotsEarned
  BY DEF SnapshotInv, ProofsEarned, SnapshotsEarned, Loadable
<1> QED BY <1>1, SnapshotInvariant, PTL

(* acceptReference accepts an answer unbuilt only on a proof of its own    *)
(* original that was young enough when the answer's job began.             *)
THEOREM AcceptedOnProofCorrect == Spec => []AcceptedOnProof
<1>1. SnapshotInv => AcceptedOnProof BY DEF SnapshotInv
<1> QED BY <1>1, SnapshotInvariant, PTL
=============================================================================
