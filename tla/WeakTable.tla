----------------------------- MODULE WeakTable -----------------------------
(***************************************************************************)
(* The default table of hirpdag: a fixed number of shards, each a mutex    *)
(* around a TableHashmapFallbackWeak whose fallback is a                   *)
(* TableVecLinearWeak (src/hirpdag_hashconsing/src/table/):                *)
(*                                                                         *)
(*   shared_sharded.rs                  which shard, lock, unlock, reset   *)
(*   hashmap_fallback_threadunsafe.rs   the map, its vacancies, the purge  *)
(*   vec_linear_threadunsafe.rs         the fallback vector                *)
(*   weak_entry.rs                      hash, upgrade, compare             *)
(*                                                                         *)
(* The tables hold weak handles only.  Strong handles are dropped without  *)
(* any lock, so an object may die between any two steps a thread takes     *)
(* inside its critical section; a weak handle upgrades until its object    *)
(* has expired (Reference.tla, the contract of the handles).  A lookup     *)
(* itself creates strong handles for a moment (`temp'), which may turn out *)
(* to be the last ones.                                                    *)
(*                                                                         *)
(* The shards share no state but the handles.  TableSharedMutex            *)
(* (shared_mutex.rs) is the instance with one shard.                       *)
(***************************************************************************)
EXTENDS Naturals, Sequences, FiniteSets

CONSTANTS
  Threads,
  Values,       (* node contents, compared by structural equality          *)
  HashOf,       (* HashOf[v]: make_hash of a content                       *)
  NShards,      (* N_SHARDS, a power of two: hash & mask is hash % NShards *)
  PurgeLenMin,  (* PURGE_LEN_MIN                                           *)
  Resets,       (* whether the feature reset-tables is on                  *)
  MaxObjects,   (* bound: objects created in a run                         *)
  NoThread, NoValue, NoObject

Hashes == {HashOf[v] : v \in Values}
Objects == 1 .. MaxObjects
Shards == 0 .. NShards - 1

ASSUME TableAssumption ==
  /\ HashOf \in [Values -> Nat]
  /\ NShards \in Nat \ {0}
  /\ PurgeLenMin \in Nat \ {0}
  /\ Resets \in BOOLEAN
  /\ MaxObjects \in Nat
  /\ NoThread \notin Threads /\ NoValue \notin Values /\ NoObject \notin Objects

VARIABLES
  lock,         (* lock[s]: the thread inside shard s                      *)
  m,            (* m[h]: the object the map entry of hash h refers to      *)
  fallback,     (* fallback[s]: the objects of the fallback vector         *)
  purge_at_len, (* purge_at_len[s]                                         *)
  value,        (* value[o]: the content of object o                       *)
  alive,        (* objects that have not expired                           *)
  made,         (* objects created so far                                  *)
  holds,        (* holds[t]: objects t keeps a strong handle of            *)
  pc,           (* what t does next                                        *)
  op,           (* the call t is in                                        *)
  arg,          (* its `data'                                              *)
  temp,         (* the strong handle t has at the moment (`up', `obj')     *)
  has_vacancy,
  pos,          (* position in the scan of the fallback                    *)
  todo,         (* map entries `retain' has not visited yet                *)
  known,        (* history: objects inserted and not removed by a reset    *)
  peak          (* history: most objects of a shard alive at a time        *)

store == <<m, fallback, purge_at_len>>
objects == <<value, alive, made>>
call == <<op, arg>>
vars == <<lock, store, objects, holds, pc, call, temp, has_vacancy, pos, todo, known, peak>>

NotInserted == {"purge", "insert", "push"}

TypeOK ==
  /\ lock \in [Shards -> Threads \cup {NoThread}]
  /\ m \in [Hashes -> Objects \cup {NoObject}]
  /\ fallback \in [Shards -> Seq(Objects)]
  /\ purge_at_len \in [Shards -> Nat]
  /\ value \in [Objects -> Values \cup {NoValue}]
  /\ alive \in SUBSET (1 .. made)
  /\ made \in 0 .. MaxObjects
  /\ holds \in [Threads -> SUBSET alive]
  /\ pc \in [Threads -> {"idle", "lock", "probe", "compare", "scan", "scan_compare",
                         "create", "unlock", "panicked"} \cup NotInserted]
  /\ op \in [Threads -> {"get", "get_or_insert"}]
  /\ arg \in [Threads -> Values \cup {NoValue}]
  /\ temp \in [Threads -> alive \cup {NoObject}]
  /\ has_vacancy \in [Threads -> BOOLEAN]
  /\ pos \in [Threads -> Nat]
  /\ todo \in [Threads -> SUBSET Hashes]
  /\ known \in SUBSET Objects
  /\ peak \in [Shards -> 0 .. MaxObjects]

Init ==
  /\ lock = [s \in Shards |-> NoThread]
  /\ m = [h \in Hashes |-> NoObject]
  /\ fallback = [s \in Shards |-> <<>>]
  /\ purge_at_len = [s \in Shards |-> PurgeLenMin]
  /\ value = [o \in Objects |-> NoValue]
  /\ alive = {}
  /\ made = 0
  /\ holds = [t \in Threads |-> {}]
  /\ pc = [t \in Threads |-> "idle"]
  /\ op = [t \in Threads |-> "get"]
  /\ arg = [t \in Threads |-> NoValue]
  /\ temp = [t \in Threads |-> NoObject]
  /\ has_vacancy = [t \in Threads |-> FALSE]
  /\ pos = [t \in Threads |-> 0]
  /\ todo = [t \in Threads |-> {}]
  /\ known = {}
  /\ peak = [s \in Shards |-> 0]

Hash(t) == HashOf[arg[t]]
ShardOf(h) == h % NShards
Shard(t) == ShardOf(Hash(t))

(* The objects of a shard that have not expired.                           *)
Living(s) == {o \in alive : ShardOf(HashOf[value[o]]) = s}

(* The map entries of a shard.                                             *)
Entries(s) == {h \in Hashes : ShardOf(h) = s /\ m[h] # NoObject}

Goto(t, label) == pc' = [pc EXCEPT ![t] = label]
-----------------------------------------------------------------------------
(***************************************************************************)
(* Callers.  get and get_or_insert hash the content, then lock its shard.  *)
(***************************************************************************)
Call(t, o, v) ==
  /\ pc[t] = "idle"
  /\ op' = [op EXCEPT ![t] = o]
  /\ arg' = [arg EXCEPT ![t] = v]
  /\ Goto(t, "lock")
  /\ UNCHANGED <<lock, store, objects, holds, temp, has_vacancy, pos, todo, known, peak>>

(* A strong handle is cloned for another thread.                           *)
Clone(t, q, o) ==
  /\ o \in holds[t]
  /\ holds' = [holds EXCEPT ![q] = @ \cup {o}]
  /\ UNCHANGED <<lock, store, objects, pc, call, temp, has_vacancy, pos, todo, known, peak>>

(* Drop of a strong handle; another call for its value may be under way.   *)
Drop(t, o) ==
  /\ o \in holds[t]
  /\ holds' = [holds EXCEPT ![t] = @ \ {o}]
  /\ UNCHANGED <<lock, store, objects, pc, call, temp, has_vacancy, pos, todo, known, peak>>

(* An object without strong handles expires (Reference.tla).               *)
NotHeld(o) == \A t \in Threads : o \notin holds[t]
NoStrong(o) == \A t \in Threads : o \notin holds[t] /\ temp[t] # o

Expire(o) ==
  /\ o \in alive
  /\ NoStrong(o)
  /\ alive' = alive \ {o}
  /\ UNCHANGED <<lock, store, value, made, holds, pc, call, temp, has_vacancy, pos, todo,
                 known, peak>>

Lock(t) ==
  /\ pc[t] = "lock"
  /\ lock[Shard(t)] = NoThread
  /\ lock' = [lock EXCEPT ![Shard(t)] = t]
  /\ Goto(t, "probe")
  /\ UNCHANGED <<store, objects, holds, call, temp, has_vacancy, pos, todo, known, peak>>

(* The guard is dropped and the call returns the handle it found, if any;  *)
(* its local variables are gone.                                           *)
Unlock(t) ==
  /\ pc[t] = "unlock"
  /\ lock' = [lock EXCEPT ![Shard(t)] = NoThread]
  /\ holds' = [holds EXCEPT ![t] = @ \cup ({temp[t]} \ {NoObject})]
  /\ temp' = [temp EXCEPT ![t] = NoObject]
  /\ op' = [op EXCEPT ![t] = "get"]
  /\ arg' = [arg EXCEPT ![t] = NoValue]
  /\ has_vacancy' = [has_vacancy EXCEPT ![t] = FALSE]
  /\ pos' = [pos EXCEPT ![t] = 0]
  /\ Goto(t, "idle")
  /\ UNCHANGED <<store, objects, todo, known, peak>>

KeepsFallback(s) == fallback
Emptied(s) == [fallback EXCEPT ![s] = <<>>]

(* Table::reset visits the shards one after the other; each visit clears   *)
(* the shard's store under its lock.                                       *)
ResetShard(s) ==
  /\ Resets
  /\ lock[s] = NoThread
  /\ m' = [h \in Hashes |-> IF ShardOf(h) = s THEN NoObject ELSE m[h]]
  /\ fallback' = Emptied(s)
  /\ purge_at_len' = [purge_at_len EXCEPT ![s] = PurgeLenMin]
  /\ known' = {o \in known : ShardOf(HashOf[value[o]]) # s}
  /\ UNCHANGED <<lock, objects, holds, pc, call, temp, has_vacancy, pos, todo, peak>>
-----------------------------------------------------------------------------
(***************************************************************************)
(* The map entry: vacant, dead, or upgraded for a comparison.              *)
(***************************************************************************)
SkippedIfVacant(t, vacancy) == IF vacancy THEN Len(fallback[Shard(t)]) + 1 ELSE 1
ScanFrom(t, vacancy) == 1

StartScan(t, vacancy) ==
  /\ has_vacancy' = [has_vacancy EXCEPT ![t] = vacancy]
  /\ pos' = [pos EXCEPT ![t] = ScanFrom(t, vacancy)]
  /\ Goto(t, "scan")

ProbeVacant(t) ==
  /\ pc[t] = "probe"
  /\ m[Hash(t)] \notin alive
  /\ StartScan(t, TRUE)
  /\ UNCHANGED <<lock, store, objects, holds, call, temp, todo, known, peak>>

ProbeUpgrade(t) ==
  /\ pc[t] = "probe"
  /\ m[Hash(t)] \in alive
  /\ temp' = [temp EXCEPT ![t] = m[Hash(t)]]
  /\ Goto(t, "compare")
  /\ UNCHANGED <<lock, store, objects, holds, call, has_vacancy, pos, todo, known, peak>>

EqualByHash(t, o) == HashOf[value[o]] = Hash(t)
Equal(t, o) == value[o] = arg[t]

CompareEqual(t) ==
  /\ pc[t] = "compare"
  /\ Equal(t, temp[t])
  /\ Goto(t, "unlock")
  /\ UNCHANGED <<lock, store, objects, holds, call, temp, has_vacancy, pos, todo, known, peak>>

VacantAnyway == TRUE
VacantIfDifferent == FALSE

CompareDifferent(t) ==
  /\ pc[t] = "compare"
  /\ ~Equal(t, temp[t])
  /\ temp' = [temp EXCEPT ![t] = NoObject]
  /\ StartScan(t, VacantIfDifferent)
  /\ UNCHANGED <<lock, store, objects, holds, call, todo, known, peak>>
-----------------------------------------------------------------------------
(***************************************************************************)
(* The fallback vector, entry by entry: WeakEntry::get skips another hash  *)
(* and a dead object, and compares a live one.                             *)
(***************************************************************************)
Candidate(t) == fallback[Shard(t)][pos[t]]
InScan(t) == pc[t] = "scan" /\ pos[t] <= Len(fallback[Shard(t)])
Matches(t) == HashOf[value[Candidate(t)]] = Hash(t) /\ Candidate(t) \in alive

Stays(n) == n
Advance(n) == n + 1

ScanSkip(t) ==
  /\ InScan(t) /\ ~Matches(t)
  /\ pos' = [pos EXCEPT ![t] = Advance(@)]
  /\ UNCHANGED <<lock, store, objects, holds, pc, call, temp, has_vacancy, todo, known, peak>>

ScanUpgrade(t) ==
  /\ InScan(t) /\ Matches(t)
  /\ temp' = [temp EXCEPT ![t] = Candidate(t)]
  /\ Goto(t, "scan_compare")
  /\ UNCHANGED <<lock, store, objects, holds, call, has_vacancy, pos, todo, known, peak>>

ScanEqual(t) ==
  /\ pc[t] = "scan_compare"
  /\ Equal(t, temp[t])
  /\ Goto(t, "unlock")
  /\ UNCHANGED <<lock, store, objects, holds, call, temp, has_vacancy, pos, todo, known, peak>>

ScanDifferent(t) ==
  /\ pc[t] = "scan_compare"
  /\ ~Equal(t, temp[t])
  /\ temp' = [temp EXCEPT ![t] = NoObject]
  /\ pos' = [pos EXCEPT ![t] = Advance(@)]
  /\ Goto(t, "scan")
  /\ UNCHANGED <<lock, store, objects, holds, call, has_vacancy, todo, known, peak>>

(* The end of the vector: get returns None, get_or_insert creates.         *)
ScanEnd(t) ==
  /\ pc[t] = "scan"
  /\ pos[t] > Len(fallback[Shard(t)])
  /\ Goto(t, IF op[t] = "get" THEN "unlock" ELSE "create")
  /\ UNCHANGED <<lock, store, objects, holds, call, temp, has_vacancy, pos, todo, known, peak>>
-----------------------------------------------------------------------------
(***************************************************************************)
(* creation_meta, R::new and weak_downgrade; then either the map, purged   *)
(* first when it has reached its limit, or the fallback vector.            *)
(***************************************************************************)
AtLeast(n, lower) == IF n >= lower THEN n ELSE lower

PurgesLate(len, limit) == len > limit
PurgeDue(len, limit) == len >= limit

AfterCreate(t) ==
  IF ~has_vacancy[t] THEN "push"
  ELSE IF PurgeDue(Cardinality(Entries(Shard(t))), purge_at_len[Shard(t)]) THEN "purge"
  ELSE "insert"

Create(t) ==
  /\ pc[t] = "create"
  /\ made < MaxObjects
  /\ made' = made + 1
  /\ value' = [value EXCEPT ![made'] = arg[t]]
  /\ alive' = alive \cup {made'}
  /\ temp' = [temp EXCEPT ![t] = made']
  /\ Goto(t, AfterCreate(t))
  /\ todo' = [todo EXCEPT ![t] = IF AfterCreate(t) = "purge" THEN Entries(Shard(t)) ELSE {}]
  /\ peak' = [peak EXCEPT ![Shard(t)] = AtLeast(@, Cardinality(Living(Shard(t))) + 1)]
  /\ UNCHANGED <<lock, store, holds, call, has_vacancy, pos, known>>

(* retain: an entry that still upgrades is kept, the others are removed.   *)
KeepsDead(o) == o \notin alive
Keeps(o) == o \in alive

Retain(t, h) ==
  /\ pc[t] = "purge"
  /\ h \in todo[t]
  /\ m' = [m EXCEPT ![h] = IF Keeps(@) THEN @ ELSE NoObject]
  /\ todo' = [todo EXCEPT ![t] = @ \ {h}]
  /\ UNCHANGED <<lock, fallback, purge_at_len, objects, holds, pc, call, temp, has_vacancy,
                 pos, known, peak>>

PurgeEnd(t) ==
  /\ pc[t] = "purge"
  /\ todo[t] = {}
  /\ purge_at_len' = [purge_at_len EXCEPT
                        ![Shard(t)] = AtLeast(2 * Cardinality(Entries(Shard(t))), PurgeLenMin)]
  /\ Goto(t, "insert")
  /\ UNCHANGED <<lock, m, fallback, objects, holds, call, temp, has_vacancy, pos, todo, known, peak>>

(* The entry must still be vacant or dead: assert!(weak_upgrade.is_none()) *)
Insert(t) ==
  LET free == m[Hash(t)] \notin alive
  IN  /\ pc[t] = "insert"
      /\ m' = IF free THEN [m EXCEPT ![Hash(t)] = temp[t]] ELSE m
      /\ known' = IF free THEN known \cup {temp[t]} ELSE known
      /\ Goto(t, IF free THEN "unlock" ELSE "panicked")
      /\ UNCHANGED <<lock, fallback, purge_at_len, objects, holds, call, temp, has_vacancy,
                     pos, todo, peak>>

Push(t) ==
  /\ pc[t] = "push"
  /\ fallback' = [fallback EXCEPT ![Shard(t)] = Append(@, temp[t])]
  /\ known' = known \cup {temp[t]}
  /\ Goto(t, "unlock")
  /\ UNCHANGED <<lock, m, purge_at_len, objects, holds, call, temp, has_vacancy, pos, todo, peak>>
-----------------------------------------------------------------------------
(* The steps of a thread inside its critical section.                      *)
Inside(t) ==
  \/ ProbeVacant(t) \/ ProbeUpgrade(t) \/ CompareEqual(t) \/ CompareDifferent(t)
  \/ ScanSkip(t) \/ ScanUpgrade(t) \/ ScanEqual(t) \/ ScanDifferent(t) \/ ScanEnd(t)
  \/ Create(t) \/ PurgeEnd(t) \/ Insert(t) \/ Push(t) \/ Unlock(t)
  \/ \E h \in Hashes : Retain(t, h)

Next ==
  \/ \E t \in Threads :
        \/ \E o \in {"get", "get_or_insert"}, v \in Values : Call(t, o, v)
        \/ \E o \in Objects : Drop(t, o)
        \/ \E q \in Threads, o \in Objects : Clone(t, q, o)
        \/ Lock(t)
        \/ Inside(t)
  \/ \E o \in Objects : Expire(o)
  \/ \E s \in Shards : ResetShard(s)

Spec == Init /\ [][Next]_vars

(* A thread inside a critical section is scheduled until it leaves; the    *)
(* mutexes promise nothing to the threads that wait for them.              *)
Fairness == \A t \in Threads : WF_vars(Inside(t))
FairSpec == Spec /\ Fairness
-----------------------------------------------------------------------------
Held(o) == \E t \in Threads : o \in holds[t] \/ temp[t] = o

(* The assertion in get_or_insert never fails: between the moment an entry *)
(* was found vacant or dead and the moment it is overwritten nothing can   *)
(* bring a live object back into it.                                       *)
NeverPanics == \A t \in Threads : pc[t] # "panicked"

(* No live object is lost: as long as it can be upgraded, an inserted      *)
(* object is in the map under its hash or in the fallback of its shard.    *)
Findable ==
  \A o \in known \cap alive :
    LET h == HashOf[value[o]]
    IN  m[h] = o \/ \E i \in DOMAIN fallback[ShardOf(h)] : fallback[ShardOf(h)][i] = o

(* The map of a shard is bounded: by its limit, and this by twice the most *)
(* objects of the shard that were ever alive together, however many were   *)
(* created and died ("purging dead weak entries when the map reaches this  *)
(* size").                                                                 *)
MapBounded ==
  \A s \in Shards :
    /\ Cardinality(Entries(s)) <= purge_at_len[s]
    /\ purge_at_len[s] <= AtLeast(2 * peak[s], PurgeLenMin)

(* Every critical section ends, so no thread waits for a thread that never *)
(* unlocks: no lock is taken inside one, and every loop makes progress.    *)
CriticalSectionsEnd ==
  \A t \in Threads :
    pc[t] \notin {"idle", "lock"} ~> pc[t] = "idle" \/ (pc[t] = "create" /\ made = MaxObjects)

(***************************************************************************)
(* The table implements Interning: a call takes effect when it has found   *)
(* its object, stored the one it created, or reached the end of the        *)
(* fallback; an object is created when it is stored.                       *)
(***************************************************************************)
Stage ==
  [t \in Threads |-> CASE pc[t] = "idle" -> "idle" [] pc[t] = "unlock" -> "done" [] OTHER -> op[t]]
Got == [t \in Threads |-> IF pc[t] = "unlock" THEN temp[t] ELSE NoObject]
Stored(o) == \A t \in Threads : temp[t] = o => pc[t] \notin NotInserted
ValueStored == [o \in Objects |-> IF Stored(o) THEN value[o] ELSE NoValue]
Reclaimed == (1 .. made) \ alive

Table == INSTANCE Interning WITH
  stage <- Stage, got <- Got, value <- ValueStored, gone <- Reclaimed

ImplementsInterning == Table!Spec

(* Equal content, same pointer: for every pair of handles any threads hold.*)
HashConsing == Table!HashConsing
=============================================================================
