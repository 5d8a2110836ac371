-------------------------- MODULE WeakTableProofs --------------------------
(***************************************************************************)
(* Proofs about WeakTable for any number of threads, shards and contents   *)
(* and any hash function.                                                  *)
(*                                                                         *)
(* HashConsing is not inductive: a lookup looks at one entry at a time     *)
(* while objects expire.  IInv says what a lookup has established so far:  *)
(* that no live object with its content lies behind the scan (ScanOK),     *)
(* hence that there is none when it creates one (Absent), and that the     *)
(* entry it will overwrite stays dead (VacancyOK).  All of it rests on     *)
(* the shard's lock (LockOK) and on every live object being where a lookup *)
(* for it would look (Findable, PlacedOK).                                 *)
(***************************************************************************)
EXTENDS WeakTable, FiniteSetTheorems, TLAPS

Outside == {"idle", "lock"}

(* A thread inside a shard has its lock.                                   *)
LockOK ==
  \A t \in Threads :
    /\ pc[t] = "idle" <=> arg[t] = NoValue
    /\ pc[t] \notin Outside => lock[Shard(t)] = t

(* The objects created so far have a content, the others have none.        *)
ValueOK ==
  \A o \in Objects : value[o] \in Values <=> o <= made

(* What the tables refer to was inserted, under its own hash.              *)
PlacedOK ==
  /\ known \subseteq 1 .. made
  /\ \A h \in Hashes : m[h] # NoObject => m[h] \in known /\ HashOf[value[m[h]]] = h
  /\ \A s \in Shards : \A i \in 1 .. Len(fallback[s]) :
        fallback[s][i] \in known /\ ShardOf(HashOf[value[fallback[s][i]]]) = s

(* The strong handle a thread has in the middle of a call.                 *)
TempOf(t) ==
  /\ pc[t] \in {"idle", "lock", "probe", "scan", "create"} => temp[t] = NoObject
  /\ pc[t] = "compare" => temp[t] # NoObject /\ temp[t] = m[Hash(t)]
  /\ pc[t] = "scan_compare" =>
       /\ pos[t] \in 1 .. Len(fallback[Shard(t)])
       /\ temp[t] = Candidate(t)
  /\ pc[t] \in NotInserted =>
       /\ temp[t] # NoObject
       /\ temp[t] \notin known
       /\ value[temp[t]] = arg[t]
       /\ \A u \in Threads : temp[t] \notin holds[u] /\ (u # t => temp[u] # temp[t])
  /\ pc[t] = "unlock" /\ temp[t] # NoObject =>
       value[temp[t]] = arg[t]

TempOK == \A t \in Threads : TempOf(t)

(* An entry found vacant or dead stays so until its finder overwrites it.  *)
VacancyOK ==
  \A t \in Threads :
    /\ has_vacancy[t] /\ pc[t] \notin Outside \cup {"unlock"} => m[Hash(t)] \notin alive
    /\ pc[t] \in {"purge", "insert"} => has_vacancy[t]
    /\ pc[t] \in Outside \cup {"probe", "compare"} => ~has_vacancy[t]
    /\ pc[t] # "purge" => todo[t] = {}
    /\ \A h \in todo[t] : ShardOf(h) = Shard(t)

(* The scan has passed no live object with the content it looks for ...    *)
Scanning == {"scan", "scan_compare"}

Ahead(t) ==
  /\ pos[t] >= 1
  /\ \A o \in known \cap alive : value[o] = arg[t] =>
       \E i \in pos[t] .. Len(fallback[Shard(t)]) : fallback[Shard(t)][i] = o

ScanOK == \A t \in Threads : pc[t] \in Scanning => Ahead(t)

(* ... so that there is none when it has reached the end and creates one.  *)
Absent ==
  \A t \in Threads : pc[t] \in {"create"} \cup NotInserted =>
    /\ op[t] = "get_or_insert"
    /\ \A o \in known \cap alive : value[o] # arg[t]

(* Among the live objects the table knows, a content occurs once.          *)
Unique ==
  \A o, p \in known \cap alive : value[o] = value[p] => o = p

IInv ==
  /\ TypeOK
  /\ LockOK
  /\ ValueOK
  /\ PlacedOK
  /\ TempOK
  /\ VacancyOK
  /\ ScanOK
  /\ Absent
  /\ Unique
  /\ Findable
  /\ NeverPanics
-----------------------------------------------------------------------------
(* Where contents and hashes belong.                                       *)
LEMMA HashFacts ==
  /\ \A v \in Values : HashOf[v] \in Hashes
  /\ \A h \in Hashes : ShardOf(h) \in Shards
<1>1. \A v \in Values : HashOf[v] \in Hashes /\ HashOf[v] \in Nat
  BY TableAssumption DEF Hashes
<1>2. \A h \in Hashes : h \in Nat
  BY <1>1 DEF Hashes
<1>3. QED
  BY <1>1, <1>2, TableAssumption DEF ShardOf, Shards

(* Findable in the terms of a lookup: a live object with the content t     *)
(* looks for is in the map entry of its hash or in the fallback it scans.  *)
LEMMA FoundAt ==
  ASSUME IInv, NEW t \in Threads, arg[t] \in Values,
         NEW p \in known \cap alive, value[p] = arg[t]
  PROVE  \/ m[Hash(t)] = p
         \/ \E i \in 1 .. Len(fallback[Shard(t)]) : fallback[Shard(t)][i] = p
<1>1. \/ m[Hash(t)] = p
      \/ \E i \in DOMAIN fallback[Shard(t)] : fallback[Shard(t)][i] = p
  BY DEF IInv, Findable, Hash, Shard
<1>2. fallback[Shard(t)] \in Seq(Objects)
  BY HashFacts DEF IInv, TypeOK, Shard, Hash
<1>3. DOMAIN fallback[Shard(t)] = 1 .. Len(fallback[Shard(t)])
  BY <1>2
<1>4. QED
  BY <1>1, <1>3

(* While a thread is inside a shard, no other thread is.                   *)
LEMMA Alone ==
  ASSUME IInv, NEW t \in Threads, NEW u \in Threads, u # t,
         pc[t] \notin Outside, pc[u] \notin Outside
  PROVE  /\ arg[t] \in Values /\ arg[u] \in Values
         /\ Hash(t) \in Hashes /\ Hash(u) \in Hashes
         /\ Shard(t) \in Shards /\ Shard(u) \in Shards
         /\ Shard(t) # Shard(u) /\ Hash(t) # Hash(u) /\ arg[t] # arg[u]
<1>1. arg[t] \in Values /\ arg[u] \in Values
  BY TableAssumption DEF IInv, TypeOK, LockOK, Outside
<1>2. Shard(t) # Shard(u)
  BY DEF IInv, LockOK
<1>3. QED
  BY <1>1, <1>2, HashFacts DEF Hash, Shard

(* A map has at most one entry per object.                                 *)
LEMMA EntriesFinite ==
  ASSUME IInv, NEW s
  PROVE  IsFiniteSet(Entries(s)) /\ Cardinality(Entries(s)) \in Nat
<1> DEFINE Used == {HashOf[value[o]] : o \in Objects}
<1>1. IsFiniteSet(Objects)
  BY TableAssumption, FS_Interval DEF Objects
<1>2. IsFiniteSet(Used)
  <2> DEFINE f == [o \in Objects |-> HashOf[value[o]]]
  <2>1. f \in Surjection(Objects, Used)
    BY DEF Surjection
  <2>2. QED
    BY <1>1, <2>1, FS_Surjection
<1>3. Entries(s) \subseteq Used
  BY DEF Entries, IInv, TypeOK, PlacedOK
<1>4. QED
  BY <1>2, <1>3, FS_Subset, FS_CardinalityType

(* At most as many objects are alive as were created.                      *)
LEMMA LivingBounded ==
  ASSUME IInv, NEW s
  PROVE  Cardinality(Living(s)) \in 0 .. made
<1>1. made \in Nat
  BY TableAssumption DEF IInv, TypeOK
<1>2. IsFiniteSet(1 .. made) /\ Cardinality(1 .. made) = made
  BY <1>1, FS_Interval
<1>3. Living(s) \subseteq 1 .. made
  BY DEF Living, IInv, TypeOK
<1>4. QED
  BY <1>1, <1>2, <1>3, FS_Subset, FS_CardinalityType

LEMMA ObjectsFit ==
  ASSUME IInv
  PROVE  1 .. made \subseteq Objects /\ alive \subseteq Objects /\ NoObject \notin alive
<1>1. made \in 0 .. MaxObjects /\ alive \subseteq 1 .. made
  BY DEF IInv, TypeOK
<1>2. 1 .. made \subseteq Objects
  BY <1>1, TableAssumption DEF Objects
<1>3. QED
  BY <1>1, <1>2, TableAssumption

LEMMA InitInv == Init => IInv
<1> SUFFICES ASSUME Init PROVE IInv
  OBVIOUS
<1>1. TypeOK
  BY TableAssumption, HashFacts DEF Init, TypeOK, NotInserted, Outside, Objects
<1>2. LockOK
  BY TableAssumption, HashFacts DEF Init, LockOK, NotInserted, Outside, Objects
<1>3. ValueOK
  BY TableAssumption, HashFacts DEF Init, ValueOK, NotInserted, Outside, Objects
<1>4. PlacedOK
  BY TableAssumption, HashFacts DEF Init, PlacedOK, NotInserted, Outside, Objects
<1>5. TempOK
  BY TableAssumption, HashFacts DEF Init, TempOK, TempOf, NotInserted, Outside, Objects
<1>6. VacancyOK
  BY TableAssumption, HashFacts DEF Init, VacancyOK, NotInserted, Outside, Objects
<1>7. ScanOK
  BY TableAssumption, HashFacts DEF Init, ScanOK, Scanning, NotInserted, Outside, Objects
<1>8. Absent
  BY TableAssumption, HashFacts DEF Init, Absent, NotInserted, Outside, Objects
<1>9. Unique
  BY TableAssumption, HashFacts DEF Init, Unique, NotInserted, Outside, Objects
<1>10. Findable
  BY TableAssumption, HashFacts DEF Init, Findable, NotInserted, Outside, Objects
<1>11. NeverPanics
  BY TableAssumption, HashFacts DEF Init, NeverPanics, NotInserted, Outside, Objects
<1>12. QED
  BY <1>1, <1>2, <1>3, <1>4, <1>5, <1>6, <1>7, <1>8, <1>9, <1>10, <1>11 DEF IInv

LEMMA CallInv ==
  ASSUME IInv, NEW t \in Threads, NEW o \in {"get", "get_or_insert"}, NEW v \in Values,
         Call(t, o, v)
  PROVE  IInv'
<1> USE TableAssumption, HashFacts
    DEF Call, Goto, store, objects, call, IInv, TypeOK, NotInserted, Objects
<1>1. TypeOK'
  OBVIOUS
<1>2. LockOK'
  BY DEF LockOK, Outside, Shard, Hash
<1>3. ValueOK'
  BY DEF ValueOK
<1>4. PlacedOK'
  BY DEF PlacedOK
<1>5. TempOK'
  BY DEF TempOK, TempOf, Candidate, Shard, Hash
<1>6. VacancyOK'
  BY DEF VacancyOK, Outside, Shard, Hash
<1>7. ScanOK'
  BY DEF ScanOK, Scanning, Ahead, Shard, Hash
<1>8. Absent'
  BY DEF Absent
<1>9. Unique'
  BY DEF Unique
<1>10. Findable'
  BY DEF Findable
<1>11. NeverPanics'
  BY DEF NeverPanics
<1>12. QED
  BY <1>1, <1>2, <1>3, <1>4, <1>5, <1>6, <1>7, <1>8, <1>9, <1>10, <1>11

LEMMA CloneInv ==
  ASSUME IInv, NEW t \in Threads, NEW q \in Threads, NEW o \in Objects, Clone(t, q, o)
  PROVE  IInv'
<1> USE TableAssumption, HashFacts
    DEF Clone, Goto, store, objects, call, IInv, TypeOK, NotInserted, Objects
<1>1. TypeOK'
  OBVIOUS
<1>2. LockOK'
  BY DEF LockOK, Outside, Shard, Hash
<1>3. ValueOK'
  BY DEF ValueOK
<1>4. PlacedOK'
  BY DEF PlacedOK
<1>5. TempOK'
  BY DEF TempOK, TempOf, Candidate, Shard, Hash
<1>6. VacancyOK'
  BY DEF VacancyOK, Outside, Shard, Hash
<1>7. ScanOK'
  BY DEF ScanOK, Scanning, Ahead, Shard, Hash
<1>8. Absent'
  BY DEF Absent
<1>9. Unique'
  BY DEF Unique
<1>10. Findable'
  BY DEF Findable
<1>11. NeverPanics'
  BY DEF NeverPanics
<1>12. QED
  BY <1>1, <1>2, <1>3, <1>4, <1>5, <1>6, <1>7, <1>8, <1>9, <1>10, <1>11

LEMMA DropInv ==
  ASSUME IInv, NEW t \in Threads, NEW o \in Objects, Drop(t, o)
  PROVE  IInv'
<1> USE TableAssumption, HashFacts
    DEF Drop, Goto, store, objects, call, IInv, TypeOK, NotInserted, Objects
<1>1. TypeOK'
  OBVIOUS
<1>2. LockOK'
  BY DEF LockOK, Outside, Shard, Hash
<1>3. ValueOK'
  BY DEF ValueOK
<1>4. PlacedOK'
  BY DEF PlacedOK
<1>5. TempOK'
  BY DEF TempOK, TempOf, Candidate, Shard, Hash
<1>6. VacancyOK'
  BY DEF VacancyOK, Outside, Shard, Hash
<1>7. ScanOK'
  BY DEF ScanOK, Scanning, Ahead, Shard, Hash
<1>8. Absent'
  BY DEF Absent
<1>9. Unique'
  BY DEF Unique
<1>10. Findable'
  BY DEF Findable
<1>11. NeverPanics'
  BY DEF NeverPanics
<1>12. QED
  BY <1>1, <1>2, <1>3, <1>4, <1>5, <1>6, <1>7, <1>8, <1>9, <1>10, <1>11

LEMMA ExpireInv ==
  ASSUME IInv, NEW o \in Objects, Expire(o)
  PROVE  IInv'
<1> USE TableAssumption, HashFacts
    DEF Expire, NoStrong, Goto, store, objects, call, IInv, TypeOK, NotInserted, Objects
<1>1. TypeOK'
  OBVIOUS
<1>2. LockOK'
  BY DEF LockOK, Outside, Shard, Hash
<1>3. ValueOK'
  BY DEF ValueOK
<1>4. PlacedOK'
  BY DEF PlacedOK
<1>5. TempOK'
  BY DEF TempOK, TempOf, Candidate, Shard, Hash
<1>6. VacancyOK'
  BY DEF VacancyOK, Outside, Shard, Hash
<1>7. ScanOK'
  BY DEF ScanOK, Scanning, Ahead, Shard, Hash
<1>8. Absent'
  BY DEF Absent
<1>9. Unique'
  BY DEF Unique
<1>10. Findable'
  BY DEF Findable
<1>11. NeverPanics'
  BY DEF NeverPanics
<1>12. QED
  BY <1>1, <1>2, <1>3, <1>4, <1>5, <1>6, <1>7, <1>8, <1>9, <1>10, <1>11

LEMMA LockInv ==
  ASSUME IInv, NEW t \in Threads, Lock(t)
  PROVE  IInv'
<1> USE TableAssumption, HashFacts
    DEF Lock, Goto, store, objects, call, IInv, TypeOK, NotInserted, Objects
<1>1. TypeOK'
  OBVIOUS
<1>2. LockOK'
  BY DEF LockOK, Outside, Shard, Hash
<1>3. ValueOK'
  BY DEF ValueOK
<1>4. PlacedOK'
  BY DEF PlacedOK
<1>5. TempOK'
  BY DEF TempOK, TempOf, Candidate, Shard, Hash
<1>6. VacancyOK'
  BY DEF VacancyOK, Outside, Shard, Hash
<1>7. ScanOK'
  <2>1. ASSUME NEW u \in Threads, pc'[u] \in Scanning
        PROVE  Ahead(u)'
    <3>1. pc[u] \in Scanning /\ Ahead(u)
      BY <2>1 DEF ScanOK, Scanning
    <3>2. QED
      BY <2>1, <3>1 DEF Ahead, Shard, Hash
  <2>2. QED
    BY <2>1 DEF ScanOK
<1>8. Absent'
  BY DEF Absent
<1>9. Unique'
  BY DEF Unique
<1>10. Findable'
  BY DEF Findable
<1>11. NeverPanics'
  BY DEF NeverPanics
<1>12. QED
  BY <1>1, <1>2, <1>3, <1>4, <1>5, <1>6, <1>7, <1>8, <1>9, <1>10, <1>11

LEMMA UnlockInv ==
  ASSUME IInv, NEW t \in Threads, Unlock(t)
  PROVE  IInv'
<1> USE TableAssumption, HashFacts
    DEF Unlock, Goto, store, objects, call, IInv, TypeOK, NotInserted, Objects
<1>1. TypeOK'
  <2>1. lock' \in [Shards -> Threads \cup {NoThread}]
    OBVIOUS
  <2>2. holds' \in [Threads -> SUBSET alive'] /\ temp' \in [Threads -> alive' \cup {NoObject}]
    OBVIOUS
  <2>3. /\ op' \in [Threads -> {"get", "get_or_insert"}]
        /\ arg' \in [Threads -> Values \cup {NoValue}]
        /\ has_vacancy' \in [Threads -> BOOLEAN] /\ pos' \in [Threads -> Nat]
    OBVIOUS
  <2>4. pc' \in [Threads -> {"idle", "lock", "probe", "compare", "scan", "scan_compare",
                            "create", "unlock", "panicked"} \cup NotInserted]
    OBVIOUS
  <2>5. QED
    BY <2>1, <2>2, <2>3, <2>4
<1>2. LockOK'
  BY DEF LockOK, Outside, Shard, Hash
<1>3. ValueOK'
  BY DEF ValueOK
<1>4. PlacedOK'
  BY DEF PlacedOK
<1>5. TempOK'
  BY DEF TempOK, TempOf, Candidate, Shard, Hash
<1>6. VacancyOK'
  BY DEF VacancyOK, Outside, Shard, Hash
<1>7. ScanOK'
  BY DEF ScanOK, Scanning, Ahead, Shard, Hash
<1>8. Absent'
  BY DEF Absent
<1>9. Unique'
  BY DEF Unique
<1>10. Findable'
  BY DEF Findable
<1>11. NeverPanics'
  BY DEF NeverPanics
<1>12. QED
  BY <1>1, <1>2, <1>3, <1>4, <1>5, <1>6, <1>7, <1>8, <1>9, <1>10, <1>11

LEMMA ResetShardInv ==
  ASSUME IInv, NEW s \in Shards, ResetShard(s)
  PROVE  IInv'
<1> USE TableAssumption, HashFacts
    DEF ResetShard, Emptied, Goto, store, objects, call, IInv, TypeOK, NotInserted,
        Objects
<1>1. TypeOK'
  <2>1. m' \in [Hashes -> Objects \cup {NoObject}]
    OBVIOUS
  <2>2. fallback' \in [Shards -> Seq(Objects)]
    <3>1. << >> \in Seq(Objects)
      OBVIOUS
    <3>2. QED
      BY <3>1
  <2>3. purge_at_len' \in [Shards -> Nat] /\ known' \in SUBSET Objects
    OBVIOUS
  <2>4. QED
    BY <2>1, <2>2, <2>3
<1>2. LockOK'
  BY DEF LockOK, Outside, Shard, Hash
<1>3. ValueOK'
  BY DEF ValueOK
<1>4. PlacedOK'
  <2>1. known' \subseteq 1 .. made'
    BY DEF PlacedOK
  <2>2. ASSUME NEW h \in Hashes, m'[h] # NoObject
        PROVE  m'[h] \in known' /\ HashOf[value'[m'[h]]] = h
    BY <2>2 DEF PlacedOK
  <2>3. ASSUME NEW r \in Shards, NEW i \in 1 .. Len(fallback'[r])
        PROVE  /\ fallback'[r][i] \in known'
               /\ ShardOf(HashOf[value'[fallback'[r][i]]]) = r
    <3>1. r # s
      BY <2>3
    <3>2. QED
      BY <2>3, <3>1 DEF PlacedOK
  <2>4. QED
    BY <2>1, <2>2, <2>3 DEF PlacedOK, ShardOf
<1>5. TempOK'
  <2>1. ASSUME NEW u \in Threads
        PROVE  TempOf(u)'
    <3>1. TempOf(u)
      BY DEF TempOK
    <3>2. ASSUME pc[u] \notin Outside
          PROVE  m'[Hash(u)] = m[Hash(u)] /\ fallback'[Shard(u)] = fallback[Shard(u)]
      <4>1. Shard(u) # s
        BY <3>2 DEF LockOK
      <4>2. Hash(u) \in Hashes /\ Shard(u) \in Shards
        BY <3>2 DEF LockOK, Outside, Hash, Shard
      <4>3. QED
        BY <4>1, <4>2 DEF Shard
    <3>3. known' \subseteq known
      OBVIOUS
    <3>4. QED
      BY <3>1, <3>2, <3>3 DEF TempOf, Candidate, Hash, Shard, Outside
  <2>2. QED
    BY <2>1 DEF TempOK
<1>6. VacancyOK'
  BY DEF VacancyOK, LockOK, Outside, Shard, Hash
<1>7. ScanOK'
  BY DEF ScanOK, Scanning, Ahead, Shard, Hash
<1>8. Absent'
  BY DEF Absent
<1>9. Unique'
  BY DEF Unique
<1>10. Findable'
  BY DEF Findable, PlacedOK, ValueOK
<1>11. NeverPanics'
  BY DEF NeverPanics
<1>12. QED
  BY <1>1, <1>2, <1>3, <1>4, <1>5, <1>6, <1>7, <1>8, <1>9, <1>10, <1>11

LEMMA ProbeVacantInv ==
  ASSUME IInv, NEW t \in Threads, ProbeVacant(t)
  PROVE  IInv'
<1> USE TableAssumption, HashFacts
    DEF ProbeVacant, StartScan, ScanFrom, Goto, store, objects, call, IInv, TypeOK,
        NotInserted, Objects
<1>1. TypeOK'
  OBVIOUS
<1>2. LockOK'
  BY DEF LockOK, Outside, Shard, Hash
<1>3. ValueOK'
  BY DEF ValueOK
<1>4. PlacedOK'
  BY DEF PlacedOK
<1>5. TempOK'
  BY DEF TempOK, TempOf, Candidate, Shard, Hash
<1>6. VacancyOK'
  BY DEF VacancyOK, Outside, Shard, Hash
<1>7. ScanOK'
  <2>1. ASSUME NEW u \in Threads, pc'[u] \in Scanning, u # t
        PROVE  Ahead(u)'
    <3>1. pc[u] \in Scanning /\ Ahead(u)
      BY <2>1 DEF ScanOK, Scanning
    <3>2. QED
      BY <2>1, <3>1 DEF Ahead, Shard, Hash
  <2>2. Ahead(t)'
    <3>1. arg[t] \in Values
      BY DEF LockOK
    <3>2. ASSUME NEW p \in known \cap alive, value[p] = arg[t]
          PROVE  \E i \in 1 .. Len(fallback[Shard(t)]) : fallback[Shard(t)][i] = p
      BY <3>1, <3>2, FoundAt
    <3>3. QED
      BY <3>2 DEF Ahead, Shard, Hash
  <2>3. QED
    BY <2>1, <2>2 DEF ScanOK
<1>8. Absent'
  BY DEF Absent
<1>9. Unique'
  BY DEF Unique
<1>10. Findable'
  BY DEF Findable
<1>11. NeverPanics'
  BY DEF NeverPanics
<1>12. QED
  BY <1>1, <1>2, <1>3, <1>4, <1>5, <1>6, <1>7, <1>8, <1>9, <1>10, <1>11

LEMMA ProbeUpgradeInv ==
  ASSUME IInv, NEW t \in Threads, ProbeUpgrade(t)
  PROVE  IInv'
<1> USE TableAssumption, HashFacts
    DEF ProbeUpgrade, Goto, store, objects, call, IInv, TypeOK, NotInserted, Objects
<1>1. TypeOK'
  OBVIOUS
<1>2. LockOK'
  BY DEF LockOK, Outside, Shard, Hash
<1>3. ValueOK'
  BY DEF ValueOK
<1>4. PlacedOK'
  BY DEF PlacedOK
<1>5. TempOK'
  <2>1. Hash(t) \in Hashes
    BY DEF LockOK, Hash
  <2>2. /\ temp' = [temp EXCEPT ![t] = m[Hash(t)]]
        /\ m[Hash(t)] \in known
        /\ m[Hash(t)] # NoObject
    <3>1. m[Hash(t)] # NoObject
      BY ObjectsFit
    <3>2. QED
      BY <2>1, <3>1 DEF PlacedOK
  <2>3. ASSUME NEW u \in Threads, u # t
        PROVE  TempOf(u)'
    <3>1. TempOf(u) /\ pc'[u] = pc[u] /\ temp'[u] = temp[u]
      BY <2>3, <2>2 DEF TempOK
    <3>2. pc[u] \in NotInserted => temp'[t] # temp[u]
      BY <2>2, <3>1, <2>3 DEF TempOf
    <3>3. QED
      BY <2>2, <2>3, <3>1, <3>2 DEF TempOf, Hash, Shard, Candidate
  <2>4. TempOf(t)'
    BY <2>1, <2>2 DEF TempOf, Hash, Shard
  <2>5. QED
    BY <2>3, <2>4 DEF TempOK
<1>6. VacancyOK'
  BY DEF VacancyOK, Outside, Shard, Hash
<1>7. ScanOK'
  BY DEF ScanOK, Scanning, Ahead, Shard, Hash
<1>8. Absent'
  BY DEF Absent
<1>9. Unique'
  BY DEF Unique
<1>10. Findable'
  BY DEF Findable
<1>11. NeverPanics'
  BY DEF NeverPanics
<1>12. QED
  BY <1>1, <1>2, <1>3, <1>4, <1>5, <1>6, <1>7, <1>8, <1>9, <1>10, <1>11

LEMMA CompareEqualInv ==
  ASSUME IInv, NEW t \in Threads, CompareEqual(t)
  PROVE  IInv'
<1> USE TableAssumption, HashFacts
    DEF CompareEqual, Equal, Goto, store, objects, call, IInv, TypeOK, NotInserted,
        Objects
<1>1. TypeOK'
  OBVIOUS
<1>2. LockOK'
  BY DEF LockOK, Outside, Shard, Hash
<1>3. ValueOK'
  BY DEF ValueOK
<1>4. PlacedOK'
  BY DEF PlacedOK
<1>5. TempOK'
  BY DEF TempOK, TempOf, Candidate, Shard, Hash
<1>6. VacancyOK'
  BY DEF VacancyOK, Outside, Shard, Hash
<1>7. ScanOK'
  BY DEF ScanOK, Scanning, Ahead, Shard, Hash
<1>8. Absent'
  BY DEF Absent
<1>9. Unique'
  BY DEF Unique
<1>10. Findable'
  BY DEF Findable
<1>11. NeverPanics'
  BY DEF NeverPanics
<1>12. QED
  BY <1>1, <1>2, <1>3, <1>4, <1>5, <1>6, <1>7, <1>8, <1>9, <1>10, <1>11

LEMMA CompareDifferentInv ==
  ASSUME IInv, NEW t \in Threads, CompareDifferent(t)
  PROVE  IInv'
<1> USE TableAssumption, HashFacts
    DEF CompareDifferent, StartScan, ScanFrom, VacantIfDifferent, Equal, Goto, store,
        objects, call, IInv, TypeOK, NotInserted, Objects
<1>1. TypeOK'
  OBVIOUS
<1>2. LockOK'
  BY DEF LockOK, Outside, Shard, Hash
<1>3. ValueOK'
  BY DEF ValueOK
<1>4. PlacedOK'
  BY DEF PlacedOK
<1>5. TempOK'
  BY DEF TempOK, TempOf, Candidate, Shard, Hash
<1>6. VacancyOK'
  BY DEF VacancyOK, Outside, Shard, Hash
<1>7. ScanOK'
  <2>1. ASSUME NEW u \in Threads, pc'[u] \in Scanning, u # t
        PROVE  Ahead(u)'
    <3>1. pc[u] \in Scanning /\ Ahead(u)
      BY <2>1 DEF ScanOK, Scanning
    <3>2. QED
      BY <2>1, <3>1 DEF Ahead, Shard, Hash
  <2>2. Ahead(t)'
    <3>1. /\ temp[t] = m[Hash(t)] /\ value[temp[t]] # arg[t]
          /\ arg[t] \in Values
      BY DEF TempOK, TempOf, LockOK
    <3>2. ASSUME NEW p \in known \cap alive, value[p] = arg[t]
          PROVE  \E i \in 1 .. Len(fallback[Shard(t)]) : fallback[Shard(t)][i] = p
      <4>1. m[Hash(t)] # p
        BY <3>1, <3>2
      <4>2. QED
        BY <3>1, <3>2, <4>1, FoundAt
    <3>3. QED
      BY <3>2 DEF Ahead, Shard, Hash
  <2>3. QED
    BY <2>1, <2>2 DEF ScanOK
<1>8. Absent'
  BY DEF Absent
<1>9. Unique'
  BY DEF Unique
<1>10. Findable'
  BY DEF Findable
<1>11. NeverPanics'
  BY DEF NeverPanics
<1>12. QED
  BY <1>1, <1>2, <1>3, <1>4, <1>5, <1>6, <1>7, <1>8, <1>9, <1>10, <1>11

LEMMA ScanSkipInv ==
  ASSUME IInv, NEW t \in Threads, ScanSkip(t)
  PROVE  IInv'
<1> USE TableAssumption, HashFacts
    DEF ScanSkip, InScan, Matches, Advance, Candidate, Goto, store, objects, call, IInv,
        TypeOK, NotInserted, Objects
<1>1. TypeOK'
  OBVIOUS
<1>2. LockOK'
  BY DEF LockOK, Outside, Shard, Hash
<1>3. ValueOK'
  BY DEF ValueOK
<1>4. PlacedOK'
  BY DEF PlacedOK
<1>5. TempOK'
  <2>1. ASSUME NEW u \in Threads, u # t
        PROVE  TempOf(u)'
    <3>1. TempOf(u)
      BY DEF TempOK
    <3>2. QED
      BY <2>1, <3>1 DEF TempOf, Shard, Hash
  <2>2. TempOf(t)'
    <3>1. TempOf(t)
      BY DEF TempOK
    <3>2. QED
      BY <3>1 DEF TempOf, Shard, Hash
  <2>3. QED
    BY <2>1, <2>2 DEF TempOK
<1>6. VacancyOK'
  BY DEF VacancyOK, Outside, Shard, Hash
<1>7. ScanOK'
  <2>1. ASSUME NEW u \in Threads, pc'[u] \in Scanning, u # t
        PROVE  Ahead(u)'
    <3>1. pc[u] \in Scanning /\ Ahead(u)
      BY <2>1 DEF ScanOK, Scanning
    <3>2. QED
      BY <2>1, <3>1 DEF Ahead, Shard, Hash
  <2>2. Ahead(t)'
    <3>1. Ahead(t) /\ pos'[t] = pos[t] + 1 /\ pos[t] \in Nat
      BY DEF ScanOK, Scanning
    <3>2. ASSUME NEW p \in known \cap alive, value[p] = arg[t]
          PROVE  \E i \in pos[t] + 1 .. Len(fallback[Shard(t)]) : fallback[Shard(t)][i] = p
      <4>1. PICK i \in pos[t] .. Len(fallback[Shard(t)]) : fallback[Shard(t)][i] = p
        BY <3>1, <3>2 DEF Ahead
      <4>2. fallback[Shard(t)][pos[t]] # p
        BY <3>2 DEF Hash
      <4>3. i # pos[t]
        BY <4>1, <4>2
      <4>4. QED
        BY <3>1, <4>1, <4>3
    <3>3. Shard(t)' = Shard(t)
      BY DEF Shard, Hash
    <3>4. QED
      BY <3>1, <3>2, <3>3 DEF Ahead
  <2>3. QED
    BY <2>1, <2>2 DEF ScanOK
<1>8. Absent'
  BY DEF Absent
<1>9. Unique'
  BY DEF Unique
<1>10. Findable'
  BY DEF Findable
<1>11. NeverPanics'
  BY DEF NeverPanics
<1>12. QED
  BY <1>1, <1>2, <1>3, <1>4, <1>5, <1>6, <1>7, <1>8, <1>9, <1>10, <1>11

LEMMA ScanUpgradeInv ==
  ASSUME IInv, NEW t \in Threads, ScanUpgrade(t)
  PROVE  IInv'
<1> USE TableAssumption, HashFacts
    DEF ScanUpgrade, InScan, Matches, Candidate, Goto, store, objects, call, IInv,
        TypeOK, NotInserted, Objects
<1>1. TypeOK'
  OBVIOUS
<1>2. LockOK'
  BY DEF LockOK, Outside, Shard, Hash
<1>3. ValueOK'
  BY DEF ValueOK
<1>4. PlacedOK'
  BY DEF PlacedOK
<1>5. TempOK'
  <2>1. /\ temp' = [temp EXCEPT ![t] = fallback[Shard(t)][pos[t]]]
        /\ fallback[Shard(t)][pos[t]] \in known
    <3>1. temp' = [temp EXCEPT ![t] = fallback[Shard(t)][pos[t]]]
      OBVIOUS
    <3>2. pos[t] >= 1 /\ pos[t] <= Len(fallback[Shard(t)]) /\ pos[t] \in Nat
      BY DEF ScanOK, Scanning, Ahead
    <3>3. Shard(t) \in Shards
      BY DEF LockOK, Outside, Shard, Hash
    <3>4. fallback[Shard(t)] \in Seq(Objects)
      BY <3>3
    <3>5. pos[t] \in 1 .. Len(fallback[Shard(t)])
      BY ONLY <3>2, <3>4
    <3>6. \A s \in Shards : \A i \in 1 .. Len(fallback[s]) : fallback[s][i] \in known
      BY DEF PlacedOK
    <3>7. QED
      BY ONLY <3>1, <3>3, <3>5, <3>6
  <2>2. ASSUME NEW u \in Threads, u # t
        PROVE  TempOf(u)'
    <3>1. TempOf(u)
      BY DEF TempOK
    <3>2. QED
      BY <2>1, <2>2, <3>1 DEF TempOf, Hash, Shard
  <2>3. TempOf(t)'
    <3>1. pos[t] >= 1 /\ pos[t] <= Len(fallback[Shard(t)]) /\ pos[t] \in Nat
      BY DEF ScanOK, Scanning, Ahead
    <3>2. fallback[Shard(t)] \in Seq(Objects)
      BY DEF LockOK, Outside, Shard, Hash
    <3>3. pos[t] \in 1 .. Len(fallback[Shard(t)])
      BY <3>1, <3>2
    <3>4. QED
      BY <2>1, <3>3 DEF TempOf, Hash, Shard
  <2>4. QED
    BY <2>2, <2>3 DEF TempOK
<1>6. VacancyOK'
  BY DEF VacancyOK, Outside, Shard, Hash
<1>7. ScanOK'
  <2>1. ASSUME NEW u \in Threads, pc'[u] \in Scanning
        PROVE  Ahead(u)'
    <3>1. pc[u] \in Scanning
      BY <2>1 DEF Scanning
    <3>2. Ahead(u)
      BY <3>1 DEF ScanOK
    <3>3. QED
      <4>1. UNCHANGED <<pos, known, alive, value, arg, fallback>>
        OBVIOUS
      <4>2. Shard(u)' = Shard(u)
        BY ONLY <4>1 DEF Shard, Hash
      <4>3. QED
        BY ONLY <3>2, <4>1, <4>2 DEF Ahead
  <2>2. QED
    BY <2>1 DEF ScanOK
<1>8. Absent'
  BY DEF Absent
<1>9. Unique'
  BY DEF Unique
<1>10. Findable'
  BY DEF Findable
<1>11. NeverPanics'
  BY DEF NeverPanics
<1>12. QED
  BY <1>1, <1>2, <1>3, <1>4, <1>5, <1>6, <1>7, <1>8, <1>9, <1>10, <1>11

LEMMA ScanEqualInv ==
  ASSUME IInv, NEW t \in Threads, ScanEqual(t)
  PROVE  IInv'
<1> USE TableAssumption, HashFacts
    DEF ScanEqual, Equal, Candidate, Goto, store, objects, call, IInv, TypeOK,
        NotInserted, Objects
<1>1. TypeOK'
  OBVIOUS
<1>2. LockOK'
  BY DEF LockOK, Outside, Shard, Hash
<1>3. ValueOK'
  BY DEF ValueOK
<1>4. PlacedOK'
  BY DEF PlacedOK
<1>5. TempOK'
  BY DEF TempOK, TempOf, Candidate, Shard, Hash
<1>6. VacancyOK'
  BY DEF VacancyOK, Outside, Shard, Hash
<1>7. ScanOK'
  BY DEF ScanOK, Scanning, Ahead, Shard, Hash
<1>8. Absent'
  BY DEF Absent
<1>9. Unique'
  BY DEF Unique
<1>10. Findable'
  BY DEF Findable
<1>11. NeverPanics'
  BY DEF NeverPanics
<1>12. QED
  BY <1>1, <1>2, <1>3, <1>4, <1>5, <1>6, <1>7, <1>8, <1>9, <1>10, <1>11

LEMMA ScanDifferentInv ==
  ASSUME IInv, NEW t \in Threads, ScanDifferent(t)
  PROVE  IInv'
<1> USE TableAssumption, HashFacts
    DEF ScanDifferent, Equal, Advance, Candidate, Goto, store, objects, call, IInv,
        TypeOK, NotInserted, Objects
<1>1. TypeOK'
  OBVIOUS
<1>2. LockOK'
  BY DEF LockOK, Outside, Shard, Hash
<1>3. ValueOK'
  BY DEF ValueOK
<1>4. PlacedOK'
  BY DEF PlacedOK
<1>5. TempOK'
  BY DEF TempOK, TempOf, Candidate, Shard, Hash
<1>6. VacancyOK'
  BY DEF VacancyOK, Outside, Shard, Hash
<1>7. ScanOK'
  <2>1. ASSUME NEW u \in Threads, pc'[u] \in Scanning, u # t
        PROVE  Ahead(u)'
    <3>1. pc[u] \in Scanning /\ Ahead(u)
      BY <2>1 DEF ScanOK, Scanning
    <3>2. QED
      BY <2>1, <3>1 DEF Ahead, Shard, Hash
  <2>2. Ahead(t)'
    <3>1. /\ fallback[Shard(t)][pos[t]] = temp[t]
          /\ value[temp[t]] # arg[t]
          /\ Ahead(t)
      BY DEF TempOK, TempOf, ScanOK, Scanning
    <3>2. pos'[t] = pos[t] + 1 /\ pos[t] \in Nat
      OBVIOUS
    <3>3. ASSUME NEW p \in known \cap alive, value[p] = arg[t]
          PROVE  \E i \in pos[t] + 1 .. Len(fallback[Shard(t)]) : fallback[Shard(t)][i] = p
      <4>1. PICK i \in pos[t] .. Len(fallback[Shard(t)]) : fallback[Shard(t)][i] = p
        BY <3>1, <3>3 DEF Ahead
      <4>2. i # pos[t]
        BY <3>1, <3>3, <4>1
      <4>3. QED
        BY <3>2, <4>1, <4>2
    <3>4. Shard(t)' = Shard(t)
      BY DEF Shard, Hash
    <3>5. QED
      BY <3>1, <3>2, <3>3, <3>4 DEF Ahead
  <2>3. QED
    BY <2>1, <2>2 DEF ScanOK
<1>8. Absent'
  BY DEF Absent
<1>9. Unique'
  BY DEF Unique
<1>10. Findable'
  BY DEF Findable
<1>11. NeverPanics'
  BY DEF NeverPanics
<1>12. QED
  BY <1>1, <1>2, <1>3, <1>4, <1>5, <1>6, <1>7, <1>8, <1>9, <1>10, <1>11

LEMMA ScanEndInv ==
  ASSUME IInv, NEW t \in Threads, ScanEnd(t)
  PROVE  IInv'
<1> USE TableAssumption, HashFacts
    DEF ScanEnd, Goto, store, objects, call, IInv, TypeOK, NotInserted, Objects
<1>1. TypeOK'
  OBVIOUS
<1>2. LockOK'
  BY DEF LockOK, Outside, Shard, Hash
<1>3. ValueOK'
  BY DEF ValueOK
<1>4. PlacedOK'
  BY DEF PlacedOK
<1>5. TempOK'
  BY DEF TempOK, TempOf, Candidate, Shard, Hash
<1>6. VacancyOK'
  BY DEF VacancyOK, Outside, Shard, Hash
<1>7. ScanOK'
  BY DEF ScanOK, Scanning, Ahead, Shard, Hash
<1>8. Absent'
  BY DEF Absent, ScanOK, Scanning, Ahead
<1>9. Unique'
  BY DEF Unique
<1>10. Findable'
  BY DEF Findable
<1>11. NeverPanics'
  BY DEF NeverPanics
<1>12. QED
  BY <1>1, <1>2, <1>3, <1>4, <1>5, <1>6, <1>7, <1>8, <1>9, <1>10, <1>11

LEMMA CreateInv ==
  ASSUME IInv, NEW t \in Threads, Create(t)
  PROVE  IInv'
<1> USE TableAssumption, HashFacts
    DEF Goto, store, objects, call, IInv, TypeOK, NotInserted, Objects
<1>1. /\ pc[t] = "create" /\ arg[t] \in Values /\ Hash(t) \in Hashes /\ Shard(t) \in Shards
      /\ temp[t] = NoObject
  BY DEF Create, LockOK, Hash, Shard, TempOK, TempOf
<1>2. made + 1 \in Objects /\ made + 1 \notin known /\ made + 1 \notin alive
  BY DEF Create, PlacedOK
<1>3. /\ made' = made + 1
      /\ value' = [value EXCEPT ![made + 1] = arg[t]]
      /\ alive' = alive \cup {made + 1}
      /\ temp' = [temp EXCEPT ![t] = made + 1]
      /\ UNCHANGED <<lock, m, fallback, purge_at_len, holds, op, arg, has_vacancy, pos, known>>
  BY DEF Create
<1>4. /\ AfterCreate(t) \in NotInserted
      /\ AfterCreate(t) \in {"purge", "insert"} => has_vacancy[t]
      /\ pc' = [pc EXCEPT ![t] = AfterCreate(t)]
  BY DEF Create, AfterCreate
<1>5. /\ todo' = [todo EXCEPT ![t] = IF AfterCreate(t) = "purge" THEN Entries(Shard(t)) ELSE {}]
      /\ Entries(Shard(t)) \subseteq Hashes
      /\ \A h \in Entries(Shard(t)) : ShardOf(h) = Shard(t)
  BY DEF Create, Entries
<1>6. \A o \in known : value'[o] = value[o] /\ (o \in alive' <=> o \in alive)
  BY <1>2, <1>3
<1>7. \A u \in Threads : u # t =>
        /\ pc'[u] = pc[u] /\ temp'[u] = temp[u] /\ todo'[u] = todo[u]
        /\ temp[u] # made + 1 /\ value'[temp[u]] = value[temp[u]]
  BY <1>2, <1>3, <1>4, <1>5
<1>8. TypeOK'
  <2>1. peak' \in [Shards -> 0 .. MaxObjects]
    <3> DEFINE c == Cardinality(Living(Shard(t)))
    <3>1. c + 1 \in 0 .. MaxObjects
      BY LivingBounded DEF Create
    <3>2. AtLeast(peak[Shard(t)], c + 1) \in 0 .. MaxObjects
      BY <1>1, <3>1 DEF AtLeast
    <3>3. QED
      BY <3>2 DEF Create
  <2>2. todo' \in [Threads -> SUBSET Hashes]
    BY <1>5
  <2>3. /\ pc' \in [Threads -> {"idle", "lock", "probe", "compare", "scan", "scan_compare",
                                "create", "unlock", "panicked"} \cup NotInserted]
        /\ temp' \in [Threads -> alive' \cup {NoObject}]
        /\ value' \in [Objects -> Values \cup {NoValue}]
    BY <1>1, <1>2, <1>3, <1>4
  <2>4. made' \in 0 .. MaxObjects /\ alive' \in SUBSET (1 .. made')
    BY <1>3, <1>2
  <2>5. holds' \in [Threads -> SUBSET alive']
    BY <1>3
  <2>6. QED
    BY <1>3, <2>1, <2>2, <2>3, <2>4, <2>5
<1>9. LockOK'
  BY <1>3, <1>4, <1>1 DEF LockOK, Outside, Shard, Hash
<1>10. ValueOK'
  BY <1>1, <1>2, <1>3 DEF ValueOK
<1>11. PlacedOK'
  BY <1>2, <1>3, <1>6 DEF PlacedOK
<1>12. TempOK'
  <2>1. ASSUME NEW u \in Threads, u # t
        PROVE  TempOf(u)'
    <3>1. TempOf(u)
      BY DEF TempOK
    <3>2. QED
      BY <1>3, <1>7, <2>1, <3>1 DEF TempOf, Candidate, Hash, Shard
  <2>2. TempOf(t)'
    BY <1>1, <1>2, <1>3, <1>4, <1>7 DEF TempOf
  <2>3. QED
    BY <2>1, <2>2 DEF TempOK
<1>13. VacancyOK'
  <2>1. \A u \in Threads : pc[u] \notin Outside => Hash(u) \in Hashes
    BY DEF LockOK, Outside, Hash
  <2>2. \A h \in Hashes : m[h] \notin alive => m[h] \notin alive'
    BY <1>2, <1>3 DEF PlacedOK
  <2>3. QED
    BY <1>1, <1>3, <1>4, <1>5, <1>7, <2>1, <2>2 DEF VacancyOK, Outside, Shard, Hash
<1>14. ScanOK'
  <2>1. ASSUME NEW u \in Threads, pc'[u] \in Scanning
        PROVE  Ahead(u)'
    <3>1. u # t /\ Ahead(u)
      BY <1>4, <1>7, <2>1 DEF ScanOK, Scanning
    <3>2. QED
      BY <1>3, <1>6, <3>1 DEF Ahead, Shard, Hash
  <2>2. QED
    BY <2>1 DEF ScanOK
<1>15. Absent'
  BY <1>1, <1>3, <1>4, <1>6, <1>7 DEF Absent
<1>16. Unique'
  BY <1>3, <1>6 DEF Unique
<1>17. Findable'
  <2>1. ASSUME NEW p \in known' \cap alive'
        PROVE  LET h == HashOf[value'[p]]
               IN  m'[h] = p \/ \E i \in DOMAIN fallback'[ShardOf(h)] : fallback'[ShardOf(h)][i] = p
    <3>1. p \in known \cap alive /\ value'[p] = value[p] /\ m' = m /\ fallback' = fallback
      BY <1>3, <1>6, <2>1
    <3>2. LET h == HashOf[value[p]]
          IN  m[h] = p \/ \E i \in DOMAIN fallback[ShardOf(h)] : fallback[ShardOf(h)][i] = p
      BY <3>1 DEF Findable
    <3>3. QED
      BY <3>1, <3>2
  <2>2. QED
    BY <2>1 DEF Findable, ShardOf
<1>18. NeverPanics'
  BY <1>4 DEF NeverPanics
<1>19. QED
  BY <1>8, <1>9, <1>10, <1>11, <1>12, <1>13, <1>14, <1>15, <1>16, <1>17, <1>18

LEMMA RetainInv ==
  ASSUME IInv, NEW t \in Threads, NEW h \in Hashes, Retain(t, h)
  PROVE  IInv'
<1> USE TableAssumption, HashFacts
    DEF Retain, Keeps, Goto, store, objects, call, IInv, TypeOK, NotInserted, Objects
<1>1. TypeOK'
  OBVIOUS
<1>2. LockOK'
  BY DEF LockOK, Outside, Shard, Hash
<1>3. ValueOK'
  BY DEF ValueOK
<1>4. PlacedOK'
  <2>1. \A g \in Hashes : m'[g] = m[g] \/ m'[g] = NoObject
    OBVIOUS
  <2>2. QED
    BY <2>1 DEF PlacedOK
<1>5. TempOK'
  BY DEF TempOK, TempOf, Candidate, Shard, Hash
<1>6. VacancyOK'
  <2>1. \A g \in Hashes : m'[g] = m[g] \/ m'[g] = NoObject
    OBVIOUS
  <2>2. NoObject \notin alive
    BY ObjectsFit
  <2>3. \A u \in Threads : pc[u] \notin Outside => Hash(u) \in Hashes
    BY DEF LockOK, Outside, Hash
  <2>4. QED
    BY <2>1, <2>2, <2>3 DEF VacancyOK, Outside, Shard, Hash
<1>7. ScanOK'
  BY DEF ScanOK, Scanning, Ahead, Shard, Hash
<1>8. Absent'
  BY DEF Absent
<1>9. Unique'
  BY DEF Unique
<1>10. Findable'
  BY DEF Findable, PlacedOK, ValueOK
<1>11. NeverPanics'
  BY DEF NeverPanics
<1>12. QED
  BY <1>1, <1>2, <1>3, <1>4, <1>5, <1>6, <1>7, <1>8, <1>9, <1>10, <1>11

LEMMA PurgeEndInv ==
  ASSUME IInv, NEW t \in Threads, PurgeEnd(t)
  PROVE  IInv'
<1> USE TableAssumption, HashFacts
    DEF PurgeEnd, Goto, store, objects, call, IInv, TypeOK, NotInserted, Objects
<1>1. TypeOK'
  <2>1. Cardinality(Entries(Shard(t))) \in Nat
    BY EntriesFinite
  <2>2. AtLeast(2 * Cardinality(Entries(Shard(t))), PurgeLenMin) \in Nat
    BY <2>1 DEF AtLeast
  <2>3. QED
    BY <2>2
<1>2. LockOK'
  BY DEF LockOK, Outside, Shard, Hash
<1>3. ValueOK'
  BY DEF ValueOK
<1>4. PlacedOK'
  BY DEF PlacedOK
<1>5. TempOK'
  BY DEF TempOK, TempOf, Candidate, Shard, Hash
<1>6. VacancyOK'
  BY DEF VacancyOK, Outside, Shard, Hash
<1>7. ScanOK'
  BY DEF ScanOK, Scanning, Ahead, LockOK, Outside, Shard, Hash
<1>8. Absent'
  BY DEF Absent
<1>9. Unique'
  BY DEF Unique
<1>10. Findable'
  BY DEF Findable
<1>11. NeverPanics'
  BY DEF NeverPanics
<1>12. QED
  BY <1>1, <1>2, <1>3, <1>4, <1>5, <1>6, <1>7, <1>8, <1>9, <1>10, <1>11

LEMMA InsertInv ==
  ASSUME IInv, NEW t \in Threads, Insert(t)
  PROVE  IInv'
<1> USE TableAssumption, HashFacts
    DEF Goto, store, objects, call, IInv, TypeOK, NotInserted, Objects
<1> DEFINE o == temp[t]
<1>1. /\ pc[t] = "insert" /\ arg[t] \in Values /\ Hash(t) \in Hashes /\ Shard(t) \in Shards
      /\ Shard(t) = ShardOf(Hash(t))
  BY DEF Insert, LockOK, Hash, Shard
<1>2. /\ o \in alive /\ o \in 1 .. made /\ o \in Objects /\ o \notin known
      /\ value[o] = arg[t] /\ HashOf[value[o]] = Hash(t)
      /\ \A p \in known \cap alive : value[p] # arg[t]
  BY <1>1, ObjectsFit DEF TempOK, TempOf, Absent, Hash
<1>3. /\ m' = [m EXCEPT ![Hash(t)] = o] /\ m[Hash(t)] \notin alive
      /\ known' = known \cup {o}
      /\ pc' = [pc EXCEPT ![t] = "unlock"]
      /\ UNCHANGED <<lock, fallback, purge_at_len, value, alive, made, holds, op, arg, temp,
                     has_vacancy, pos, todo, peak>>
  <2>1. m[Hash(t)] \notin alive
    BY <1>1 DEF VacancyOK, Outside
  <2>2. QED
    BY <2>1 DEF Insert
<1>4. \A h \in Hashes : h # Hash(t) => m'[h] = m[h]
  BY <1>3
<1>5. ASSUME NEW u \in Threads, u # t, pc[u] \notin Outside
      PROVE  /\ Hash(u) \in Hashes /\ Shard(u) \in Shards
             /\ Shard(u) # Shard(t) /\ Hash(u) # Hash(t) /\ arg[u] # arg[t]
  BY <1>1, <1>5, Alone DEF Outside
<1>6. TypeOK'
  <2>1. m' \in [Hashes -> Objects \cup {NoObject}] /\ known' \in SUBSET Objects
    BY <1>1, <1>2, <1>3
  <2>2. pc' \in [Threads -> {"idle", "lock", "probe", "compare", "scan", "scan_compare",
                            "create", "unlock", "panicked"} \cup NotInserted]
    BY <1>3
  <2>3. QED
    BY <1>3, <2>1, <2>2
<1>7. LockOK'
  BY <1>1, <1>3 DEF LockOK, Outside, Shard, Hash
<1>8. ValueOK'
  BY <1>3 DEF ValueOK
<1>9. PlacedOK'
  <2>1. known' \subseteq 1 .. made'
    BY <1>2, <1>3 DEF PlacedOK
  <2>2. ASSUME NEW h \in Hashes, m'[h] # NoObject
        PROVE  m'[h] \in known' /\ HashOf[value'[m'[h]]] = h
    BY <1>1, <1>2, <1>3, <1>4, <2>2 DEF PlacedOK
  <2>3. QED
    BY <1>3, <2>1, <2>2 DEF PlacedOK
<1>10. TempOK'
  <2>1. ASSUME NEW u \in Threads, u # t
        PROVE  TempOf(u)'
    <3>1. TempOf(u) /\ TempOf(t)
      BY DEF TempOK
    <3>2. pc'[u] = pc[u] /\ (pc[u] \in NotInserted => temp[u] \notin known')
      BY <1>1, <1>3, <2>1, <3>1 DEF TempOf
    <3>3. pc[u] \notin Outside =>
            m'[Hash(u)] = m[Hash(u)] /\ fallback'[Shard(u)] = fallback[Shard(u)]
      BY <1>3, <1>4, <1>5, <2>1
    <3>4. QED
      BY <1>3, <3>1, <3>2, <3>3 DEF TempOf, Candidate, Hash, Shard, Outside
  <2>2. TempOf(t)'
    BY <1>1, <1>2, <1>3 DEF TempOf
  <2>3. QED
    BY <2>1, <2>2 DEF TempOK
<1>11. VacancyOK'
  <2>1. ASSUME NEW u \in Threads, u # t, pc[u] \notin Outside
        PROVE  m'[Hash(u)] = m[Hash(u)]
    BY <1>4, <1>5, <2>1
  <2>2. todo[t] = {}
    BY <1>1 DEF VacancyOK
  <2>3. QED
    BY <1>1, <1>3, <2>1, <2>2 DEF VacancyOK, Outside, Shard, Hash
<1>12. ScanOK'
  <2>1. ASSUME NEW u \in Threads, pc'[u] \in Scanning
        PROVE  Ahead(u)'
    <3>1. u # t /\ pc[u] \in Scanning /\ Ahead(u)
      BY <1>1, <1>3, <2>1 DEF ScanOK, Scanning
    <3>2. /\ arg[u] # value[o] /\ fallback'[Shard(u)] = fallback[Shard(u)]
      BY <1>2, <1>3, <1>4, <1>5, <3>1 DEF Scanning, Outside
    <3>3. QED
      BY <1>3, <3>1, <3>2 DEF Ahead, Shard, Hash
  <2>2. QED
    BY <2>1 DEF ScanOK
<1>13. Absent'
  <2>1. ASSUME NEW u \in Threads, pc'[u] \in {"create"} \cup NotInserted,
               NEW p \in known' \cap alive'
        PROVE  value'[p] # arg'[u]
    <3>1. u # t /\ pc[u] \in {"create"} \cup NotInserted
      BY <1>1, <1>3, <2>1
    <3>2. arg[u] # arg[t]
      BY <1>5, <3>1 DEF Outside
    <3>3. QED
      BY <1>2, <1>3, <2>1, <3>1, <3>2 DEF Absent
  <2>2. \A u \in Threads : pc'[u] \in {"create"} \cup NotInserted => op'[u] = "get_or_insert"
    BY <1>1, <1>3 DEF Absent
  <2>3. QED
    BY <2>1, <2>2 DEF Absent
<1>14. Unique'
  BY <1>2, <1>3 DEF Unique
<1>15. Findable'
  <2>1. ASSUME NEW p \in known' \cap alive'
        PROVE  LET h == HashOf[value'[p]]
               IN  m'[h] = p \/ \E i \in DOMAIN fallback'[ShardOf(h)] : fallback'[ShardOf(h)][i] = p
    <3>1. CASE p = o
      BY <1>1, <1>2, <1>3, <3>1
    <3>2. CASE p # o
      <4>1. p \in known \cap alive /\ HashOf[value[p]] \in Hashes
        BY <1>3, <2>1, <3>2 DEF ValueOK, PlacedOK
      <4>2. m[HashOf[value[p]]] = p => HashOf[value[p]] # Hash(t)
        BY <1>3, <4>1
      <4>3. QED
        BY <1>3, <1>4, <4>1, <4>2 DEF Findable
    <3>3. QED
      BY <3>1, <3>2
  <2>2. QED
    BY <2>1 DEF Findable, ShardOf
<1>16. NeverPanics'
  BY <1>3 DEF NeverPanics
<1>17. QED
  BY <1>6, <1>7, <1>8, <1>9, <1>10, <1>11, <1>12, <1>13, <1>14, <1>15, <1>16

LEMMA PushInv ==
  ASSUME IInv, NEW t \in Threads, Push(t)
  PROVE  IInv'
<1> USE TableAssumption, HashFacts
    DEF Goto, store, objects, call, IInv, TypeOK, NotInserted, Objects
<1> DEFINE o == temp[t]
<1>1. /\ pc[t] = "push" /\ arg[t] \in Values /\ Hash(t) \in Hashes /\ Shard(t) \in Shards
      /\ Shard(t) = ShardOf(Hash(t))
  BY DEF Push, LockOK, Hash, Shard
<1>2. /\ o \in alive /\ o \in 1 .. made /\ o \in Objects /\ o \notin known
      /\ value[o] = arg[t] /\ HashOf[value[o]] = Hash(t)
      /\ \A p \in known \cap alive : value[p] # arg[t]
  BY <1>1, ObjectsFit DEF TempOK, TempOf, Absent, Hash
<1>3. /\ fallback' = [fallback EXCEPT ![Shard(t)] = Append(@, o)]
      /\ known' = known \cup {o}
      /\ pc' = [pc EXCEPT ![t] = "unlock"]
      /\ UNCHANGED <<lock, m, purge_at_len, value, alive, made, holds, op, arg, temp,
                     has_vacancy, pos, todo, peak>>
  BY DEF Push
<1>4. /\ \A s \in Shards : s # Shard(t) => fallback'[s] = fallback[s]
      /\ fallback[Shard(t)] \in Seq(Objects)
      /\ fallback'[Shard(t)] = Append(fallback[Shard(t)], o)
  BY <1>1, <1>3
<1>5. ASSUME NEW u \in Threads, u # t, pc[u] \notin Outside
      PROVE  /\ Hash(u) \in Hashes /\ Shard(u) \in Shards
             /\ Shard(u) # Shard(t) /\ Hash(u) # Hash(t) /\ arg[u] # arg[t]
  BY <1>1, <1>5, Alone DEF Outside
<1>6. TypeOK'
  <2>1. fallback' \in [Shards -> Seq(Objects)]
    <3>1. Append(fallback[Shard(t)], o) \in Seq(Objects)
      BY <1>2, <1>4
    <3>2. QED
      BY <1>3, <3>1
  <2>2. pc' \in [Threads -> {"idle", "lock", "probe", "compare", "scan", "scan_compare",
                            "create", "unlock", "panicked"} \cup NotInserted]
    BY <1>3
  <2>3. known' \in SUBSET Objects
    BY <1>2, <1>3
  <2>4. QED
    BY <1>3, <2>1, <2>2, <2>3
<1>7. LockOK'
  BY <1>1, <1>3 DEF LockOK, Outside, Shard, Hash
<1>8. ValueOK'
  BY <1>3 DEF ValueOK
<1>9. PlacedOK'
  <2>1. known' \subseteq 1 .. made'
    BY <1>2, <1>3 DEF PlacedOK
  <2>2. ASSUME NEW s \in Shards, NEW i \in 1 .. Len(fallback'[s])
        PROVE  fallback'[s][i] \in known' /\ ShardOf(HashOf[value'[fallback'[s][i]]]) = s
    <3>1. CASE s # Shard(t) \/ i <= Len(fallback[s])
      <4>1. i \in 1 .. Len(fallback[s]) /\ fallback'[s][i] = fallback[s][i]
        <5>1. CASE s # Shard(t)
          BY <1>4, <2>2, <5>1
        <5>2. CASE s = Shard(t) /\ i <= Len(fallback[s])
          <6>1. i \in 1 .. Len(fallback[Shard(t)])
            BY <1>4, <2>2, <5>2
          <6>2. Append(fallback[Shard(t)], o)[i] = fallback[Shard(t)][i]
            BY <1>4, <6>1
          <6>3. QED
            BY <1>4, <5>2, <6>1, <6>2
        <5>3. QED
          BY <3>1, <5>1, <5>2
      <4>2. QED
        BY <1>3, <4>1 DEF PlacedOK
    <3>2. CASE s = Shard(t) /\ i > Len(fallback[s])
      <4>1. fallback'[s][i] = o
        BY <1>4, <2>2, <3>2
      <4>2. QED
        BY <1>1, <1>2, <1>3, <3>2, <4>1
    <3>3. QED
      BY <1>4, <2>2, <3>1, <3>2
  <2>3. QED
    BY <1>3, <2>1, <2>2 DEF PlacedOK, ShardOf
<1>10. TempOK'
  <2>1. ASSUME NEW u \in Threads, u # t
        PROVE  TempOf(u)'
    <3>1. TempOf(u) /\ TempOf(t)
      BY DEF TempOK
    <3>2. pc'[u] = pc[u] /\ (pc[u] \in NotInserted => temp[u] \notin known')
      BY <1>1, <1>3, <2>1, <3>1 DEF TempOf
    <3>3. pc[u] \notin Outside =>
            m'[Hash(u)] = m[Hash(u)] /\ fallback'[Shard(u)] = fallback[Shard(u)]
      BY <1>3, <1>4, <1>5, <2>1
    <3>4. QED
      BY <1>3, <3>1, <3>2, <3>3 DEF TempOf, Candidate, Hash, Shard, Outside
  <2>2. TempOf(t)'
    BY <1>1, <1>2, <1>3 DEF TempOf
  <2>3. QED
    BY <2>1, <2>2 DEF TempOK
<1>11. VacancyOK'
  BY <1>1, <1>3 DEF VacancyOK, Outside, Shard, Hash
<1>12. ScanOK'
  <2>1. ASSUME NEW u \in Threads, pc'[u] \in Scanning
        PROVE  Ahead(u)'
    <3>1. u # t /\ pc[u] \in Scanning /\ Ahead(u)
      BY <1>1, <1>3, <2>1 DEF ScanOK, Scanning
    <3>2. /\ arg[u] # value[o] /\ fallback'[Shard(u)] = fallback[Shard(u)]
      BY <1>2, <1>3, <1>4, <1>5, <3>1 DEF Scanning, Outside
    <3>3. /\ Shard(u)' = Shard(u) /\ arg'[u] = arg[u] /\ pos'[u] = pos[u]
          /\ value' = value /\ alive' = alive
      BY <1>3 DEF Shard, Hash
    <3>4. pos'[u] >= 1
      BY <3>1, <3>3 DEF Ahead
    <3>5. ASSUME NEW p \in known' \cap alive', value'[p] = arg'[u]
          PROVE  \E i \in pos'[u] .. Len(fallback'[Shard(u)']) : fallback'[Shard(u)'][i] = p
      <4>1. \E i \in pos[u] .. Len(fallback[Shard(u)]) : fallback[Shard(u)][i] = p
        BY <1>2, <1>3, <3>1, <3>2, <3>3, <3>5 DEF Ahead
      <4>2. QED
        BY <4>1, <3>2, <3>3
    <3>6. QED
      BY <3>4, <3>5 DEF Ahead
  <2>2. QED
    BY <2>1 DEF ScanOK
<1>13. Absent'
  <2>1. ASSUME NEW u \in Threads, pc'[u] \in {"create"} \cup NotInserted,
               NEW p \in known' \cap alive'
        PROVE  value'[p] # arg'[u]
    <3>1. u # t /\ pc[u] \in {"create"} \cup NotInserted
      BY <1>1, <1>3, <2>1
    <3>2. arg[u] # arg[t]
      BY <1>5, <3>1 DEF Outside
    <3>3. QED
      BY <1>2, <1>3, <2>1, <3>1, <3>2 DEF Absent
  <2>2. \A u \in Threads : pc'[u] \in {"create"} \cup NotInserted => op'[u] = "get_or_insert"
    BY <1>1, <1>3 DEF Absent
  <2>3. QED
    BY <2>1, <2>2 DEF Absent
<1>14. Unique'
  BY <1>2, <1>3 DEF Unique
<1>15. Findable'
  <2>1. ASSUME NEW p \in known' \cap alive'
        PROVE  LET h == HashOf[value'[p]]
               IN  m'[h] = p \/ \E i \in DOMAIN fallback'[ShardOf(h)] : fallback'[ShardOf(h)][i] = p
    <3>1. CASE p = o
      <4>1. /\ Len(fallback[Shard(t)]) + 1 \in DOMAIN fallback'[Shard(t)]
            /\ fallback'[Shard(t)][Len(fallback[Shard(t)]) + 1] = o
        BY <1>4
      <4>2. QED
        BY <1>1, <1>2, <1>3, <3>1, <4>1
    <3>2. CASE p # o
      <4> DEFINE h == HashOf[value[p]]
      <4>1. p \in known \cap alive /\ ShardOf(h) \in Shards
        BY <1>3, <2>1, <3>2 DEF ValueOK, PlacedOK
      <4>2. \/ m[h] = p
            \/ \E i \in DOMAIN fallback[ShardOf(h)] : fallback[ShardOf(h)][i] = p
        BY <4>1 DEF Findable
      <4>3. ASSUME NEW i \in DOMAIN fallback[ShardOf(h)], fallback[ShardOf(h)][i] = p
            PROVE  i \in DOMAIN fallback'[ShardOf(h)] /\ fallback'[ShardOf(h)][i] = p
        <5>1. i \in 1 .. Len(fallback[ShardOf(h)]) /\ fallback[ShardOf(h)] \in Seq(Objects)
          BY <4>1, <4>3
        <5>2. CASE ShardOf(h) = Shard(t)
          BY <1>4, <4>3, <5>1, <5>2
        <5>3. CASE ShardOf(h) # Shard(t)
          BY <1>4, <4>1, <4>3, <5>3
        <5>4. QED
          BY <5>2, <5>3
      <4>4. QED
        BY <1>3, <4>2, <4>3
    <3>3. QED
      BY <3>1, <3>2
  <2>2. QED
    BY <2>1 DEF Findable, ShardOf
<1>16. NeverPanics'
  BY <1>3 DEF NeverPanics
<1>17. QED
  BY <1>6, <1>7, <1>8, <1>9, <1>10, <1>11, <1>12, <1>13, <1>14, <1>15, <1>16

LEMMA NextInv == IInv /\ [Next]_vars => IInv'
<1> SUFFICES ASSUME IInv, [Next]_vars PROVE IInv'
  OBVIOUS
<1>1. ASSUME NEW t \in Threads, Inside(t)
      PROVE  IInv'
  BY <1>1, ProbeVacantInv, ProbeUpgradeInv, CompareEqualInv, CompareDifferentInv, ScanSkipInv,
     ScanUpgradeInv, ScanEqualInv, ScanDifferentInv, ScanEndInv, CreateInv, PurgeEndInv,
     InsertInv, PushInv, UnlockInv, RetainInv DEF Inside
<1>2. ASSUME Next
      PROVE  IInv'
  BY <1>1, <1>2, CallInv, DropInv, CloneInv, LockInv, ExpireInv, ResetShardInv DEF Next
<1>3. CASE UNCHANGED vars
  <2> USE <1>3 DEF vars, store, objects, call, IInv
  <2>1. TypeOK' /\ ValueOK' /\ PlacedOK'
    BY DEF TypeOK, ValueOK, PlacedOK, ShardOf
  <2>2. LockOK' /\ VacancyOK' /\ TempOK'
    BY DEF LockOK, VacancyOK, TempOK, TempOf, Candidate, Shard, Hash, ShardOf
  <2>3. ScanOK' /\ Absent' /\ Unique'
    BY DEF ScanOK, Ahead, Absent, Unique, Shard, Hash, ShardOf
  <2>4. Findable' /\ NeverPanics'
    BY DEF Findable, NeverPanics, ShardOf
  <2>5. QED
    BY <2>1, <2>2, <2>3, <2>4
<1>4. QED
  BY <1>2, <1>3

LEMMA Invariance == Spec => []IInv
  BY InitInv, NextInv, PTL DEF Spec

(* The type invariant of the table, for any numbers of threads and shards. *)
THEOREM TypeCorrect == Spec => []TypeOK
<1>1. IInv => TypeOK
  BY DEF IInv
<1>2. QED
  BY <1>1, Invariance, PTL

(* The assertion of get_or_insert never fails.                             *)
THEOREM AssertionHolds == Spec => []NeverPanics
<1>1. IInv => NeverPanics
  BY DEF IInv
<1>2. QED
  BY <1>1, Invariance, PTL

(* No live object that was inserted is lost by purges and insertions.      *)
THEOREM NothingLost == Spec => []Findable
<1>1. IInv => Findable
  BY DEF IInv
<1>2. QED
  BY <1>1, Invariance, PTL
-----------------------------------------------------------------------------
(***************************************************************************)
(* The refinement of Interning.                                            *)
(***************************************************************************)
(* What the table knows is stored, and what a caller holds is alive.       *)
LEMMA Abstraction ==
  ASSUME IInv
  PROVE  /\ \A o \in known : Stored(o) /\ ValueStored[o] = value[o]
         /\ \A o : Table!Held(o) => o \in alive \/ o = NoObject
         /\ NoObject \notin known
<1>1. \A o \in known : Stored(o)
  BY DEF IInv, TempOK, TempOf, Stored
<1>2. known \subseteq Objects
  BY DEF IInv, TypeOK
<1>3. \A o \in known : ValueStored[o] = value[o]
  BY <1>1, <1>2 DEF ValueStored
<1>4. \A o : Table!Held(o) => o \in alive \/ o = NoObject
  BY DEF IInv, TypeOK, Table!Held, Got
<1>5. QED
  BY <1>1, <1>2, <1>3, <1>4, TableAssumption

(* The objects a lookup of v must answer with are alive and have v.        *)
LEMMA CanonicalAlive ==
  ASSUME IInv, NEW v
  PROVE  Table!Canonical(v) \subseteq {o \in known \cap alive : value[o] = v}
  BY Abstraction DEF Table!Canonical

(* Equal content, same object, for all pairs of handles any threads hold.  *)
THEOREM HashConses == Spec => []HashConsing
<1>1. IInv => HashConsing
  BY Abstraction DEF HashConsing, Table!HashConsing, IInv, Unique
<1>2. QED
  BY <1>1, Invariance, PTL

LEMMA RefineInit == Init => Table!Init
<1> SUFFICES ASSUME Init PROVE Table!Init
  OBVIOUS
<1>1. Reclaimed = {}
  BY DEF Init, Reclaimed
<1>2. ValueStored = [o \in Objects |-> NoValue]
  BY DEF Init, ValueStored
<1>3. Stage = [t \in Threads |-> "idle"] /\ Got = [t \in Threads |-> NoObject]
  BY DEF Init, Stage, Got
<1>4. QED
  BY <1>1, <1>2, <1>3 DEF Init, Table!Init

(* A step that inserts nothing leaves the contents as they are.            *)
LEMMA SameValues ==
  ASSUME UNCHANGED value,
         \A t \in Threads :
            \/ pc'[t] = pc[t] /\ temp'[t] = temp[t]
            \/ pc[t] \in NotInserted /\ pc'[t] \in NotInserted /\ temp'[t] = temp[t]
            \/ pc[t] \notin NotInserted /\ pc'[t] \notin NotInserted
  PROVE  UNCHANGED ValueStored
<1>1. \A o \in Objects : Stored(o)' <=> Stored(o)
  BY DEF Stored
<1>2. QED
  BY <1>1 DEF ValueStored

(* A step inside a call without effect for callers.                        *)
LEMMA Stutter ==
  ASSUME NEW t \in Threads, IInv, UNCHANGED <<arg, op, holds, value, alive, made, known>>,
         pc' = [pc EXCEPT ![t] = pc'[t]],
         \A u \in Threads \ {t} : temp'[u] = temp[u],
         pc[t] \notin {"idle", "unlock"}, pc'[t] \notin {"idle", "unlock"},
         \/ pc[t] \in NotInserted /\ pc'[t] \in NotInserted /\ temp'[t] = temp[t]
         \/ pc[t] \notin NotInserted /\ pc'[t] \notin NotInserted
  PROVE  UNCHANGED Table!vars
<1>1. \A u \in Threads \ {t} : pc'[u] = pc[u]
  BY DEF IInv, TypeOK
<1>2. UNCHANGED ValueStored
  <2>1. \A u \in Threads \ {t} : pc'[u] = pc[u] /\ temp'[u] = temp[u]
    BY <1>1
  <2>2. QED
    BY <2>1, SameValues
<1>3. UNCHANGED Stage
  BY <1>1 DEF Stage
<1>4. UNCHANGED Got
  BY <1>1 DEF Got
<1>5. QED
  BY <1>2, <1>3, <1>4 DEF Table!vars, Reclaimed

LEMMA RefineStutter ==
  ASSUME IInv, NEW t \in Threads,
         \/ Lock(t) \/ ProbeVacant(t) \/ ProbeUpgrade(t) \/ CompareDifferent(t)
         \/ ScanSkip(t) \/ ScanUpgrade(t) \/ ScanDifferent(t) \/ PurgeEnd(t)
         \/ ScanEnd(t) /\ op[t] # "get"
         \/ \E h \in Hashes : Retain(t, h)
  PROVE  UNCHANGED Table!vars
<1> USE DEF Goto, StartScan, store, objects, call, NotInserted, IInv, TypeOK
<1>1. CASE Lock(t)
  BY <1>1, Stutter DEF Lock
<1>2. CASE ProbeVacant(t)
  BY <1>2, Stutter DEF ProbeVacant
<1>3. CASE ProbeUpgrade(t)
  BY <1>3, Stutter DEF ProbeUpgrade
<1>4. CASE CompareDifferent(t)
  BY <1>4, Stutter DEF CompareDifferent
<1>5. CASE ScanSkip(t)
  BY <1>5, Stutter DEF ScanSkip, InScan
<1>6. CASE ScanUpgrade(t)
  BY <1>6, Stutter DEF ScanUpgrade, InScan
<1>7. CASE ScanDifferent(t)
  BY <1>7, Stutter DEF ScanDifferent
<1>8. CASE PurgeEnd(t)
  BY <1>8, Stutter DEF PurgeEnd
<1>9. ASSUME NEW h \in Hashes, Retain(t, h)
      PROVE  UNCHANGED Table!vars
  BY <1>9, Stutter DEF Retain
<1>10. CASE ScanEnd(t) /\ op[t] # "get"
  BY <1>10, Stutter DEF ScanEnd
<1>11. QED
  BY <1>1, <1>2, <1>3, <1>4, <1>5, <1>6, <1>7, <1>8, <1>9, <1>10

LEMMA RefineCreate ==
  ASSUME IInv, NEW t \in Threads, Create(t)
  PROVE  UNCHANGED Table!vars
<1> USE DEF IInv, TypeOK, NotInserted
<1>0. PICK n \in Objects : n = made + 1
  BY TableAssumption DEF Create, Objects
<1>1. /\ pc[t] = "create" /\ pc' = [pc EXCEPT ![t] = AfterCreate(t)]
      /\ AfterCreate(t) \in NotInserted
      /\ temp' = [temp EXCEPT ![t] = n] /\ temp[t] = NoObject
      /\ value' = [value EXCEPT ![n] = arg[t]]
      /\ alive' = alive \cup {n} /\ made' = n
      /\ UNCHANGED <<arg, op, holds, known>>
  BY <1>0 DEF Create, AfterCreate, Goto, call, TempOK, TempOf
<1>2. n \notin alive /\ made \in Nat /\ n # NoObject
  BY <1>0, TableAssumption
<1>3. value[n] = NoValue
  BY <1>0, <1>2 DEF ValueOK
<1>4. \A o \in Objects \ {n} : Stored(o)' <=> Stored(o)
  BY <1>1, <1>2, TableAssumption DEF Stored
<1>5. ~Stored(n)'
  BY <1>1 DEF Stored
<1>6. UNCHANGED ValueStored
  BY <1>1, <1>2, <1>3, <1>4, <1>5 DEF ValueStored
<1>7. UNCHANGED Stage
  BY <1>1 DEF Stage
<1>8. UNCHANGED Got
  BY <1>1 DEF Got
<1>9. UNCHANGED Reclaimed
  BY <1>0, <1>1, <1>2 DEF Reclaimed
<1>10. QED
  BY <1>1, <1>6, <1>7, <1>8, <1>9 DEF Table!vars

(* A call that found its object: the comparison is where it takes effect.  *)
LEMMA RefineFind ==
  ASSUME IInv, NEW t \in Threads, CompareEqual(t) \/ ScanEqual(t)
  PROVE  \E o \in Objects : Table!Find(t, o)
<1> USE DEF IInv, TypeOK, NotInserted
<1>1. /\ pc[t] \in {"compare", "scan_compare"} /\ value[temp[t]] = arg[t]
      /\ pc' = [pc EXCEPT ![t] = "unlock"]
      /\ UNCHANGED <<arg, op, temp, holds, value, alive, made, known>>
  BY DEF CompareEqual, ScanEqual, Equal, Goto, call, objects
<1>2. temp[t] \in known \cap alive
  <2>1. arg[t] \in Values
    BY <1>1 DEF LockOK
  <2>2. Hash(t) \in Hashes /\ Shard(t) \in Shards
    BY <2>1, HashFacts DEF Hash, Shard
  <2>3. CASE pc[t] = "compare"
    BY <2>2, <2>3 DEF TempOK, TempOf, PlacedOK
  <2>4. CASE pc[t] = "scan_compare"
    <3>1. temp[t] \in known
      BY <2>2, <2>4 DEF TempOK, TempOf, PlacedOK, Candidate
    <3>2. NoObject \notin known
      BY TableAssumption
    <3>3. QED
      BY <3>1, <3>2
  <2>5. QED
    BY <1>1, <2>3, <2>4
<1>3. Table!Canonical(arg[t]) \subseteq {temp[t]}
  BY <1>1, <1>2, CanonicalAlive DEF Unique
<1>4. UNCHANGED <<ValueStored, Reclaimed>>
  BY <1>1, SameValues DEF Reclaimed
<1>5. Stage[t] \in {"get", "get_or_insert"} /\ Stage' = [Stage EXCEPT ![t] = "done"]
  BY <1>1 DEF Stage
<1>6. Got' = [Got EXCEPT ![t] = temp[t]]
  BY <1>1 DEF Got
<1>7. ValueStored[temp[t]] = arg[t] /\ temp[t] \in known \ Reclaimed
  BY <1>1, <1>2, Abstraction DEF Reclaimed
<1>8. Table!Find(t, temp[t])
  BY <1>1, <1>3, <1>4, <1>5, <1>6, <1>7 DEF Table!Find
<1>9. QED
  BY <1>2, <1>8

(* A lookup that reached the end of the fallback.                          *)
LEMMA RefineMiss ==
  ASSUME IInv, NEW t \in Threads, ScanEnd(t), op[t] = "get"
  PROVE  Table!Miss(t)
<1> USE DEF IInv, TypeOK, NotInserted
<1>1. /\ pc[t] = "scan" /\ temp[t] = NoObject
      /\ pc' = [pc EXCEPT ![t] = "unlock"]
      /\ UNCHANGED <<arg, op, temp, holds, value, alive, made, known>>
  BY DEF ScanEnd, Goto, call, objects, TempOK, TempOf
<1>2. Table!Canonical(arg[t]) = {}
  <2>1. \A i \in pos[t] .. Len(fallback[Shard(t)]) : FALSE
    BY HashFacts DEF ScanEnd, Shard, Hash, LockOK
  <2>2. \A o \in known \cap alive : value[o] # arg[t]
    BY <1>1, <2>1 DEF ScanOK, Scanning, Ahead
  <2>3. QED
    BY <2>2, CanonicalAlive
<1>3. UNCHANGED <<ValueStored, Reclaimed>>
  BY <1>1, SameValues DEF Reclaimed
<1>4. Stage[t] = "get" /\ Stage' = [Stage EXCEPT ![t] = "done"]
  BY <1>1 DEF Stage
<1>5. UNCHANGED Got
  BY <1>1 DEF Got
<1>6. QED
  BY <1>1, <1>2, <1>3, <1>4, <1>5 DEF Table!Miss

(* The insertion is where a created object appears.                        *)
LEMMA RefineStore ==
  ASSUME IInv, NEW t \in Threads, Insert(t) \/ Push(t)
  PROVE  \E o \in Objects : Table!Create(t, o)
<1> USE DEF IInv, TypeOK, NotInserted
<1> DEFINE o == temp[t]
<1>1. /\ pc[t] \in {"insert", "push"}
      /\ pc' = [pc EXCEPT ![t] = "unlock"] /\ known' = known \cup {o}
      /\ UNCHANGED <<arg, op, temp, holds, value, alive, made>>
  <2>1. CASE Insert(t)
    <3>1. m[Hash(t)] \notin alive
      BY <2>1 DEF Insert, VacancyOK, Outside
    <3>2. QED
      BY <2>1, <3>1 DEF Insert, Goto, call, objects
  <2>2. CASE Push(t)
    BY <2>2 DEF Push, Goto, call, objects
  <2>3. QED
    BY <2>1, <2>2
<1>2. /\ o \in alive /\ o \in Objects /\ value[o] = arg[t]
      /\ \A u \in Threads \ {t} : temp[u] # o
  BY <1>1, ObjectsFit DEF TempOK, TempOf
<1>3. ValueStored[o] = NoValue
  BY <1>1, <1>2 DEF ValueStored, Stored
<1>4. ValueStored' = [ValueStored EXCEPT ![o] = arg[t]]
  <2>1. \A p \in Objects \ {o} : Stored(p)' <=> Stored(p)
    BY <1>1 DEF Stored
  <2>2. \A p \in Objects : p = o => Stored(p)'
    BY <1>1, <1>2 DEF Stored
  <2>3. \A p \in Objects : ValueStored'[p] = IF p = o THEN arg[t] ELSE ValueStored[p]
    BY <1>1, <1>2, <2>1, <2>2 DEF ValueStored
  <2>4. QED
    BY <1>2, <2>3 DEF ValueStored
<1>5. Table!Canonical(arg[t]) = {}
  BY <1>1, CanonicalAlive DEF Absent
<1>6. Stage[t] = "get_or_insert" /\ Stage' = [Stage EXCEPT ![t] = "done"]
  BY <1>1 DEF Stage, Absent
<1>7. Got' = [Got EXCEPT ![t] = o]
  BY <1>1 DEF Got
<1>8. UNCHANGED Reclaimed
  BY <1>1 DEF Reclaimed
<1>9. Table!Create(t, o)
  BY <1>1, <1>3, <1>4, <1>5, <1>6, <1>7, <1>8 DEF Table!Create
<1>10. QED
  BY <1>2, <1>9

LEMMA RefineReturn ==
  ASSUME IInv, NEW t \in Threads, Unlock(t)
  PROVE  Table!Return(t)
<1> USE DEF IInv, TypeOK, NotInserted
<1>1. /\ pc[t] = "unlock" /\ pc' = [pc EXCEPT ![t] = "idle"]
      /\ temp' = [temp EXCEPT ![t] = NoObject]
      /\ op' = [op EXCEPT ![t] = "get"] /\ arg' = [arg EXCEPT ![t] = NoValue]
      /\ holds' = [holds EXCEPT ![t] = @ \cup ({temp[t]} \ {NoObject})]
      /\ UNCHANGED <<value, alive, made, known>>
  BY DEF Unlock, Goto, objects
<1>2. UNCHANGED <<ValueStored, Reclaimed>>
  BY <1>1, SameValues DEF Reclaimed
<1>3. Stage[t] = "done" /\ Stage' = [Stage EXCEPT ![t] = "idle"]
  BY <1>1 DEF Stage
<1>4. Got[t] = temp[t] /\ Got' = [Got EXCEPT ![t] = NoObject]
  BY <1>1 DEF Got
<1>5. QED
  BY <1>1, <1>2, <1>3, <1>4 DEF Table!Return

LEMMA RefineCall ==
  ASSUME IInv, NEW t \in Threads, NEW o \in {"get", "get_or_insert"}, NEW v \in Values,
         Call(t, o, v)
  PROVE  Table!Call(t, o, v)
<1> USE DEF IInv, TypeOK, NotInserted
<1>1. /\ pc[t] = "idle" /\ pc' = [pc EXCEPT ![t] = "lock"]
      /\ op' = [op EXCEPT ![t] = o] /\ arg' = [arg EXCEPT ![t] = v]
      /\ UNCHANGED <<temp, holds, value, alive, made, known>>
  BY DEF Call, Goto, objects
<1>2. UNCHANGED <<ValueStored, Reclaimed>>
  BY <1>1, SameValues DEF Reclaimed
<1>3. Stage[t] = "idle" /\ Stage' = [Stage EXCEPT ![t] = o]
  BY <1>1 DEF Stage
<1>4. UNCHANGED Got
  BY <1>1 DEF Got
<1>5. QED
  BY <1>1, <1>2, <1>3, <1>4 DEF Table!Call

(* Clone and Drop leave everything but `holds' alone.                      *)
LEMMA RefineHolds ==
  ASSUME IInv, NEW t \in Threads, NEW o \in Objects
  PROVE  /\ \A q \in Threads : Clone(t, q, o) => Table!Clone(t, q, o)
         /\ Drop(t, o) => Table!Drop(t, o)
<1>1. ASSUME UNCHANGED <<pc, op, temp, value, alive, made>>
      PROVE  UNCHANGED <<Stage, Got, ValueStored, Reclaimed>>
  BY <1>1 DEF Stage, Got, ValueStored, Stored, Reclaimed
<1>2. QED
  BY <1>1 DEF Clone, Drop, Table!Clone, Table!Drop, call, objects

LEMMA RefineExpire ==
  ASSUME IInv, NEW o \in Objects, Expire(o)
  PROVE  Table!Reclaim(o)
<1> USE DEF IInv, TypeOK
<1>1. /\ o \in alive /\ alive' = alive \ {o} /\ NoStrong(o)
      /\ UNCHANGED <<pc, op, arg, temp, holds, value, made, known>>
  BY DEF Expire, call
<1>2. ~Table!Held(o)
  <2>1. o # NoObject
    BY TableAssumption
  <2>2. QED
    BY <1>1, <2>1 DEF NoStrong, Table!Held, Got
<1>3. ValueStored[o] # NoValue
  BY <1>1, TableAssumption DEF ValueStored, Stored, NoStrong, ValueOK
<1>4. Reclaimed' = Reclaimed \cup {o}
  BY <1>1 DEF Reclaimed
<1>5. UNCHANGED <<Stage, Got, ValueStored>>
  BY <1>1 DEF Stage, Got, ValueStored, Stored
<1>6. QED
  BY <1>1, <1>2, <1>3, <1>4, <1>5 DEF Table!Reclaim

LEMMA RefineReset ==
  ASSUME IInv, NEW s \in Shards, ResetShard(s)
  PROVE  \E S \in SUBSET known : Table!Forget(S)
<1>1. /\ known' \subseteq known
      /\ UNCHANGED <<pc, op, arg, temp, holds, value, alive, made>>
  BY DEF ResetShard, call, objects
<1>2. known' = known \ (known \ known')
  BY <1>1
<1>3. UNCHANGED <<Stage, Got, ValueStored, Reclaimed>>
  BY <1>1 DEF Stage, Got, ValueStored, Stored, Reclaimed
<1>4. Table!Forget(known \ known')
  BY <1>1, <1>2, <1>3 DEF Table!Forget
<1>5. QED
  BY <1>4

LEMMA RefineNext == IInv /\ [Next]_vars => [Table!Next]_(Table!vars)
<1> SUFFICES ASSUME IInv, [Next]_vars PROVE [Table!Next]_(Table!vars)
  OBVIOUS
<1>1. ASSUME NEW t \in Threads, Inside(t)
      PROVE  [Table!Next]_(Table!vars)
  <2>1. CASE Create(t)
    BY <2>1, RefineCreate
  <2>2. CASE CompareEqual(t) \/ ScanEqual(t)
    BY <2>2, RefineFind DEF Table!Next
  <2>3. CASE Insert(t) \/ Push(t)
    BY <2>3, RefineStore DEF Table!Next
  <2>4. CASE ScanEnd(t) /\ op[t] = "get"
    BY <2>4, RefineMiss DEF Table!Next
  <2>5. CASE Unlock(t)
    BY <2>5, RefineReturn DEF Table!Next
  <2>6. QED
    BY <1>1, <2>1, <2>2, <2>3, <2>4, <2>5, RefineStutter DEF Inside
<1>2. ASSUME NEW t \in Threads, NEW o \in {"get", "get_or_insert"}, NEW v \in Values,
             Call(t, o, v)
      PROVE  [Table!Next]_(Table!vars)
  BY <1>2, RefineCall DEF Table!Next
<1>3. ASSUME NEW t \in Threads, NEW o \in Objects,
             Drop(t, o) \/ \E q \in Threads : Clone(t, q, o)
      PROVE  [Table!Next]_(Table!vars)
  BY <1>3, RefineHolds DEF Table!Next
<1>4. ASSUME NEW t \in Threads, Lock(t)
      PROVE  [Table!Next]_(Table!vars)
  BY <1>4, RefineStutter
<1>5. ASSUME NEW o \in Objects, Expire(o)
      PROVE  [Table!Next]_(Table!vars)
  BY <1>5, RefineExpire DEF Table!Next
<1>6. ASSUME NEW s \in Shards, ResetShard(s)
      PROVE  [Table!Next]_(Table!vars)
  BY <1>6, RefineReset DEF Table!Next
<1>7. CASE UNCHANGED vars
  BY <1>7 DEF vars, store, objects, call, Table!vars, Stage, Got, ValueStored, Stored, Reclaimed
<1>8. QED
  BY <1>1, <1>2, <1>3, <1>4, <1>5, <1>6, <1>7 DEF Next

(* The default table implements the contract of the Table trait.           *)
THEOREM Refinement == Spec => ImplementsInterning
<1>1. Spec => Table!Init /\ [][Table!Next]_(Table!vars)
  BY RefineInit, RefineNext, Invariance, PTL DEF Spec
<1>2. QED
  BY <1>1 DEF ImplementsInterning, Table!Spec
-----------------------------------------------------------------------------
(***************************************************************************)
(* The bound on the maps.                                                  *)
(*                                                                         *)
(* A purge looks at the entries of a shard one after the other while       *)
(* objects expire.  What it keeps is bounded all the same: the entries it  *)
(* has kept and those it would keep now had objects that were all alive    *)
(* when it began, because nothing is created in the shard meanwhile        *)
(* (PurgeOf).  A thread about to insert has room for one entry (RoomOf).   *)
(***************************************************************************)
BoundOf(s) ==
  /\ Cardinality(Entries(s)) <= purge_at_len[s]
  /\ purge_at_len[s] <= AtLeast(2 * peak[s], PurgeLenMin)

RoomOf(t) == pc[t] = "insert" => Cardinality(Entries(Shard(t))) < purge_at_len[Shard(t)]

(* The entries a purge has kept, or would keep if it looked now.           *)
Kept(t) == {h \in Entries(Shard(t)) : h \notin todo[t] \/ m[h] \in alive}

PurgeOf(t) == pc[t] = "purge" => Cardinality(Kept(t)) <= peak[Shard(t)]

BoundOK ==
  /\ \A s \in Shards : BoundOf(s)
  /\ \A t \in Threads : RoomOf(t) /\ PurgeOf(t)

LEMMA BoundInit == Init => BoundOK
<1> SUFFICES ASSUME Init PROVE BoundOK
  OBVIOUS
<1>1. \A s \in Shards : Entries(s) = {}
  BY DEF Init, Entries
<1>2. Cardinality({}) = 0
  BY FS_EmptySet
<1>3. ASSUME NEW s \in Shards
      PROVE  BoundOf(s)
  <2>1. purge_at_len[s] = PurgeLenMin /\ peak[s] = 0 /\ PurgeLenMin \in Nat \ {0}
    BY TableAssumption DEF Init
  <2>2. AtLeast(2 * peak[s], PurgeLenMin) = PurgeLenMin
    BY <2>1 DEF AtLeast
  <2>3. QED
    BY <1>1, <1>2, <2>1, <2>2 DEF BoundOf
<1>4. QED
  BY <1>3 DEF Init, BoundOK, RoomOf, PurgeOf

(* The entries that upgrade refer to different living objects.             *)
LEMMA LiveEntries ==
  ASSUME IInv, NEW s
  PROVE  Cardinality({h \in Entries(s) : m[h] \in alive}) <= Cardinality(Living(s))
<1> DEFINE E == {h \in Entries(s) : m[h] \in alive}
           f == [h \in E |-> m[h]]
<1>1. \A h \in E : m[h] \in Living(s) /\ HashOf[value[m[h]]] = h
  BY DEF IInv, PlacedOK, Entries, Living
<1>2. f \in Injection(E, Living(s))
  BY <1>1 DEF Injection, IsInjective
<1>3. IsFiniteSet(Living(s))
  <2>1. IsFiniteSet(1 .. made) /\ Living(s) \subseteq 1 .. made
    <3>1. made \in Nat
      BY TableAssumption DEF IInv, TypeOK
    <3>2. Living(s) \subseteq 1 .. made
      BY DEF IInv, TypeOK, Living
    <3>3. QED
      BY <3>1, <3>2, FS_Interval
  <2>2. QED
    BY <2>1, FS_Subset
<1>4. QED
  BY <1>2, <1>3, FS_Injection

(* A part of the entries of a shard is finite.                             *)
LEMMA SubEntries ==
  ASSUME IInv, NEW s, NEW B, NEW A, A \subseteq B, B \subseteq Entries(s)
  PROVE  /\ Cardinality(A) \in Nat /\ Cardinality(B) \in Nat
         /\ Cardinality(A) <= Cardinality(B)
<1>1. IsFiniteSet(B)
  BY EntriesFinite, FS_Subset
<1>2. QED
  BY <1>1, FS_Subset, FS_CardinalityType

(* Steps that touch neither map, limits nor the purging threads.           *)
LEMMA BoundFrame ==
  ASSUME IInv, BoundOK, UNCHANGED <<m, purge_at_len, peak>>, alive' \subseteq alive,
         \A u \in Threads :
            pc'[u] \in {"purge", "insert"} =>
              pc'[u] = pc[u] /\ arg'[u] = arg[u] /\ todo'[u] = todo[u]
  PROVE  BoundOK'
<1>1. \A s : Entries(s)' = Entries(s)
  BY DEF Entries
<1>2. ASSUME NEW s \in Shards
      PROVE  BoundOf(s)'
  BY <1>1 DEF BoundOK, BoundOf, AtLeast
<1>3. ASSUME NEW u \in Threads, pc'[u] \in {"purge", "insert"}
      PROVE  RoomOf(u)' /\ PurgeOf(u)'
  <2>1. RoomOf(u) /\ PurgeOf(u) /\ pc'[u] = pc[u] /\ Shard(u)' = Shard(u)
    BY <1>3 DEF BoundOK, Shard, Hash
  <2>2. Entries(Shard(u))' = Entries(Shard(u))
    BY <1>1, <2>1 DEF Entries
  <2>3. Kept(u)' \subseteq Kept(u)
    BY <1>3, <2>2 DEF Kept
  <2>4. Cardinality(Kept(u)') <= Cardinality(Kept(u))
    BY <2>3, SubEntries DEF Kept
  <2>5. Cardinality(Kept(u)') \in Nat /\ Cardinality(Kept(u)) \in Nat
    BY <2>3, SubEntries DEF Kept
  <2>6. peak'[Shard(u)'] = peak[Shard(u)] /\ peak[Shard(u)] \in Nat
    <3>1. Shard(u) \in Shards
      BY <1>3, HashFacts DEF IInv, LockOK, Outside, Shard, Hash, TypeOK
    <3>2. QED
      BY <2>1, <3>1 DEF IInv, TypeOK
  <2>7. QED
    BY <2>1, <2>2, <2>4, <2>5, <2>6 DEF RoomOf, PurgeOf
<1>4. QED
  BY <1>2, <1>3 DEF BoundOK, RoomOf, PurgeOf

(* A reset empties the map of a shard nobody is inside of.                 *)
LEMMA BoundReset ==
  ASSUME IInv, BoundOK, NEW s \in Shards, ResetShard(s)
  PROVE  BoundOK'
<1>1. /\ UNCHANGED <<pc, arg, value, alive, todo, peak>>
      /\ purge_at_len' = [purge_at_len EXCEPT ![s] = PurgeLenMin]
      /\ \A h \in Hashes : m'[h] = IF ShardOf(h) = s THEN NoObject ELSE m[h]
  BY DEF ResetShard, objects, call
<1>2. \A r : Entries(r)' = IF r = s THEN {} ELSE Entries(r)
  BY <1>1 DEF Entries, ShardOf
<1>3. ASSUME NEW r \in Shards
      PROVE  BoundOf(r)'
  <2>1. CASE r # s
    BY <1>1, <1>2, <2>1 DEF BoundOK, BoundOf, AtLeast, IInv, TypeOK
  <2>2. CASE r = s
    <3>1. purge_at_len'[r] = PurgeLenMin /\ peak'[r] \in Nat
      BY <1>1, <2>2, TableAssumption DEF IInv, TypeOK
    <3>2. Entries(r)' = {}
      BY <1>2, <2>2
    <3>3. Cardinality(Entries(r)') = 0
      BY <3>2, FS_EmptySet
    <3>4. QED
      BY <3>1, <3>3, TableAssumption DEF BoundOf, AtLeast
  <2>3. QED
    BY <2>1, <2>2
<1>4. ASSUME NEW u \in Threads, pc[u] \in {"purge", "insert"}
      PROVE  RoomOf(u)' /\ PurgeOf(u)'
  <2>1. Shard(u) # s /\ Shard(u) \in Shards /\ Shard(u)' = Shard(u)
    <3>1. lock[Shard(u)] = u /\ arg[u] \in Values
      BY <1>4 DEF IInv, LockOK, Outside, TypeOK
    <3>2. lock[s] = NoThread /\ NoThread \notin Threads
      BY TableAssumption DEF ResetShard
    <3>3. Shard(u) # s
      BY <3>1, <3>2
    <3>4. QED
      BY <1>1, <3>1, <3>3, HashFacts DEF Shard, Hash, ShardOf
  <2>2. Entries(Shard(u))' = Entries(Shard(u))
    BY <1>2, <2>1 DEF Entries
  <2>3. \A h \in Entries(Shard(u)) : m'[h] = m[h]
    BY <1>1, <2>1 DEF Entries
  <2>4. Kept(u)' = Kept(u)
    BY <1>1, <2>2, <2>3, <2>1 DEF Kept
  <2>5. QED
    BY <1>1, <2>1, <2>2, <2>4 DEF BoundOK, RoomOf, PurgeOf
<1>5. QED
  BY <1>1, <1>3, <1>4 DEF BoundOK, RoomOf, PurgeOf

(* Other threads are in other shards, whose maps a step leaves alone.      *)
LEMMA BoundOthers ==
  ASSUME IInv, BoundOK, NEW t \in Threads, pc[t] \notin Outside,
         NEW u \in Threads, u # t, pc'[u] = pc[u], pc[u] \in {"purge", "insert"},
         arg' = arg, todo'[u] = todo[u], alive \subseteq alive',
         \A h \in Hashes : ShardOf(h) # Shard(t) =>
            m'[h] = m[h] /\ (m[h] \in alive' => m[h] \in alive),
         \A s \in Shards : s # Shard(t) => purge_at_len'[s] = purge_at_len[s] /\ peak'[s] = peak[s]
  PROVE  RoomOf(u)' /\ PurgeOf(u)'
<1>1. /\ Shard(u) # Shard(t) /\ Shard(u) \in Shards /\ Shard(u)' = Shard(u)
  BY Alone DEF Outside, Shard, Hash, ShardOf
<1>2. Entries(Shard(u))' = Entries(Shard(u))
  BY <1>1 DEF Entries, ShardOf
<1>3. Kept(u)' = Kept(u)
  <2>1. \A h \in Entries(Shard(u)) : m'[h] = m[h] /\ (m'[h] \in alive' <=> m[h] \in alive)
    BY <1>1 DEF Entries
  <2>2. QED
    BY <1>1, <1>2, <2>1 DEF Kept
<1>4. QED
  BY <1>1, <1>2, <1>3 DEF BoundOK, RoomOf, PurgeOf

(* A purge begins: what it would keep now is alive together.               *)
LEMMA BoundCreate ==
  ASSUME IInv, BoundOK, NEW t \in Threads, Create(t)
  PROVE  BoundOK'
<1> DEFINE s == Shard(t)
           c == Cardinality(Living(s))
           e == Cardinality(Entries(s))
<1>1. /\ pc[t] = "create" /\ s \in Shards
      /\ Cardinality(Living(s)) \in Nat /\ Cardinality(Entries(s)) \in Nat
      /\ purge_at_len[s] \in Nat /\ peak[s] \in Nat
  <2>1. pc[t] = "create" /\ s \in Shards
    BY HashFacts DEF Create, IInv, LockOK, Outside, Shard, Hash, TypeOK
  <2>2. made \in Nat
    BY TableAssumption DEF IInv, TypeOK
  <2>3. QED
    BY <2>1, <2>2, LivingBounded, EntriesFinite DEF IInv, TypeOK
<1>2. /\ UNCHANGED <<m, purge_at_len, arg, has_vacancy>>
      /\ alive' = alive \cup {made + 1}
      /\ pc' = [pc EXCEPT ![t] = AfterCreate(t)]
      /\ todo' = [todo EXCEPT ![t] = IF AfterCreate(t) = "purge" THEN Entries(s) ELSE {}]
      /\ peak' = [peak EXCEPT ![s] = AtLeast(peak[s], c + 1)]
  BY DEF Create, Goto, store, call
<1>3. \A h \in Hashes : m[h] # made + 1
  BY TableAssumption DEF IInv, TypeOK, PlacedOK, Create, Objects
<1>4. Shard(t)' = s /\ \A r : Entries(r)' = Entries(r)
  BY <1>2 DEF Entries, Shard, Hash
<1>5. peak'[s] = AtLeast(peak[s], c + 1) /\ \A r \in Shards : r # s => peak'[r] = peak[r]
  BY <1>1, <1>2 DEF IInv, TypeOK
<1>6. peak'[s] \in Nat /\ peak'[s] >= peak[s] /\ peak'[s] >= c
  BY <1>1, <1>5 DEF AtLeast
<1>7. ASSUME NEW r \in Shards
      PROVE  BoundOf(r)'
  <2>1. peak'[r] \in Nat /\ peak[r] \in Nat /\ peak'[r] >= peak[r]
    <3>1. CASE r = s
      BY <1>1, <1>6, <3>1
    <3>2. CASE r # s
      BY <1>5, <3>2 DEF IInv, TypeOK
    <3>3. QED
      BY <3>1, <3>2
  <2>2. purge_at_len'[r] = purge_at_len[r] /\ purge_at_len[r] \in Nat
    BY <1>2 DEF IInv, TypeOK
  <2>3. QED
    BY <1>4, <2>1, <2>2, TableAssumption DEF BoundOK, BoundOf, AtLeast
<1>8. RoomOf(t)'
  <2>1. ASSUME pc'[t] = "insert"
        PROVE  Cardinality(Entries(s)) < purge_at_len[s]
    <3>1. AfterCreate(t) = "insert"
      BY <1>2, <2>1 DEF IInv, TypeOK
    <3>2. ~PurgeDue(Cardinality(Entries(s)), purge_at_len[s])
      BY <3>1 DEF AfterCreate
    <3>3. QED
      BY <1>1, <3>2 DEF PurgeDue
  <2>2. QED
    BY <1>2, <1>4, <2>1 DEF RoomOf
<1>9. PurgeOf(t)'
  <2>1. SUFFICES ASSUME pc'[t] = "purge"
                 PROVE  Cardinality(Kept(t)') <= peak'[s]
    BY <1>4 DEF PurgeOf
  <2>2. todo'[t] = Entries(s)
    BY <1>2, <2>1 DEF IInv, TypeOK
  <2>3. Kept(t)' = {h \in Entries(s) : m[h] \in alive}
    BY <1>2, <1>3, <1>4, <2>2 DEF Kept, Entries
  <2>4. Cardinality(Kept(t)') <= c /\ Cardinality(Kept(t)') \in Nat
    BY <2>3, LiveEntries, SubEntries
  <2>5. QED
    BY <1>1, <1>6, <2>4
<1>10. ASSUME NEW u \in Threads, u # t, pc'[u] \in {"purge", "insert"}
       PROVE  RoomOf(u)' /\ PurgeOf(u)'
  <2>1. pc'[u] = pc[u] /\ todo'[u] = todo[u]
    BY <1>2, <1>10 DEF IInv, TypeOK
  <2>2. QED
    BY <1>1, <1>2, <1>3, <1>5, <1>10, <2>1, BoundOthers DEF Outside
<1>11. QED
  BY <1>7, <1>8, <1>9, <1>10 DEF BoundOK, RoomOf, PurgeOf

(* A visit keeps an entry that upgrades and removes another.               *)
LEMMA BoundRetain ==
  ASSUME IInv, BoundOK, NEW t \in Threads, NEW h \in Hashes, Retain(t, h)
  PROVE  BoundOK'
<1>1. /\ pc[t] = "purge" /\ h \in todo[t] /\ ShardOf(h) = Shard(t)
      /\ \A g \in Hashes : m'[g] = IF g = h /\ m[h] \notin alive THEN NoObject ELSE m[g]
      /\ todo' = [todo EXCEPT ![t] = todo[t] \ {h}]
      /\ UNCHANGED <<pc, arg, value, alive, purge_at_len, peak>>
  BY DEF Retain, Keeps, objects, call, IInv, TypeOK, VacancyOK
<1>2. \A r : Entries(r)' \subseteq Entries(r)
  BY <1>1 DEF Entries
<1>3. \A r : /\ Cardinality(Entries(r)') <= Cardinality(Entries(r))
            /\ Cardinality(Entries(r)') \in Nat /\ Cardinality(Entries(r)) \in Nat
  BY <1>2, SubEntries
<1>4. ASSUME NEW r \in Shards
      PROVE  BoundOf(r)'
  BY <1>1, <1>3 DEF BoundOK, BoundOf, AtLeast, IInv, TypeOK
<1>5. Shard(t)' = Shard(t) /\ Shard(t) \in Shards
  BY <1>1, HashFacts DEF Shard, Hash
<1>6. PurgeOf(t)'
  <2>1. Kept(t)' \subseteq Kept(t)
    BY <1>1, <1>2, <1>5 DEF Kept, Entries, IInv, TypeOK
  <2>2. Cardinality(Kept(t)') <= Cardinality(Kept(t))
    BY <2>1, SubEntries DEF Kept
  <2>3. Cardinality(Kept(t)') \in Nat /\ Cardinality(Kept(t)) \in Nat
    BY <2>1, SubEntries DEF Kept
  <2>4. Cardinality(Kept(t)) <= peak[Shard(t)] /\ peak[Shard(t)] \in Nat
    BY <1>1, <1>5 DEF BoundOK, PurgeOf, IInv, TypeOK
  <2>5. QED
    BY <1>1, <1>5, <2>2, <2>3, <2>4 DEF PurgeOf
<1>7. RoomOf(t)'
  BY <1>1 DEF RoomOf
<1>8. ASSUME NEW u \in Threads, u # t, pc'[u] \in {"purge", "insert"}
      PROVE  RoomOf(u)' /\ PurgeOf(u)'
  BY <1>1, <1>8, BoundOthers DEF Outside, IInv, TypeOK
<1>9. QED
  BY <1>4, <1>6, <1>7, <1>8 DEF BoundOK, RoomOf, PurgeOf

(* The purge is over: the limit becomes twice what it kept.                *)
LEMMA BoundPurgeEnd ==
  ASSUME IInv, BoundOK, NEW t \in Threads, PurgeEnd(t)
  PROVE  BoundOK'
<1> DEFINE s == Shard(t)
           e == Cardinality(Entries(s))
           limit == AtLeast(2 * e, PurgeLenMin)
<1>1. /\ pc[t] = "purge" /\ todo[t] = {} /\ pc' = [pc EXCEPT ![t] = "insert"]
      /\ purge_at_len' = [purge_at_len EXCEPT ![s] = limit]
      /\ UNCHANGED <<m, arg, value, alive, todo, peak>>
  BY DEF PurgeEnd, Goto, objects, call
<1>2. s \in Shards
  BY <1>1, HashFacts DEF IInv, LockOK, Outside, Shard, Hash, TypeOK
<1>3. Shard(t)' = s /\ \A r : Entries(r)' = Entries(r)
  BY <1>1 DEF Entries, Shard, Hash
<1>4. e \in Nat /\ peak[s] \in Nat /\ e <= peak[s]
  <2>1. Kept(t) = Entries(s)
    BY <1>1 DEF Kept
  <2>2. QED
    BY <1>1, <1>2, <2>1, EntriesFinite DEF BoundOK, PurgeOf, IInv, TypeOK
<1>5. /\ e < limit /\ e <= limit /\ limit <= AtLeast(2 * peak[s], PurgeLenMin)
  BY <1>4, TableAssumption DEF AtLeast
<1>6. purge_at_len'[s] = limit /\ \A r \in Shards : r # s => purge_at_len'[r] = purge_at_len[r]
  BY <1>1, <1>2 DEF IInv, TypeOK
<1>7. ASSUME NEW r \in Shards
      PROVE  BoundOf(r)'
  BY <1>1, <1>3, <1>5, <1>6 DEF BoundOK, BoundOf, AtLeast
<1>8. RoomOf(t)' /\ PurgeOf(t)'
  BY <1>1, <1>3, <1>5, <1>6 DEF RoomOf, PurgeOf, IInv, TypeOK
<1>9. ASSUME NEW u \in Threads, u # t, pc'[u] \in {"purge", "insert"}
      PROVE  RoomOf(u)' /\ PurgeOf(u)'
  <2>1. pc'[u] = pc[u]
    BY <1>1, <1>9 DEF IInv, TypeOK
  <2>2. QED
    BY <1>1, <1>6, <1>9, <2>1, BoundOthers DEF Outside
<1>10. QED
  BY <1>7, <1>8, <1>9 DEF BoundOK, RoomOf, PurgeOf

(* An insertion adds one entry, for which there was room.                  *)
LEMMA BoundInsert ==
  ASSUME IInv, BoundOK, NEW t \in Threads, Insert(t)
  PROVE  BoundOK'
<1> DEFINE s == Shard(t)
           e == Cardinality(Entries(s))
<1>1. /\ pc[t] = "insert" /\ s \in Shards /\ Hash(t) \in Hashes
  BY HashFacts DEF Insert, IInv, LockOK, Outside, Shard, Hash, TypeOK
<1>2. /\ pc'[t] \notin {"purge", "insert"}
      /\ \A u \in Threads : u # t => pc'[u] = pc[u]
      /\ UNCHANGED <<arg, value, alive, todo, peak, purge_at_len>>
      /\ Shard(t)' = s
  BY DEF Insert, Goto, objects, call, IInv, TypeOK, Shard, Hash
<1>3. \A h \in Hashes : h # Hash(t) => m'[h] = m[h]
  BY DEF Insert, IInv, TypeOK
<1>4. Entries(s)' \subseteq Entries(s) \cup {Hash(t)}
  BY <1>2, <1>3 DEF Entries, ShardOf
<1>5. \A r \in Shards : r # s => Entries(r)' = Entries(r)
  BY <1>3 DEF Entries, Shard
<1>6. e \in Nat /\ Cardinality(Entries(s)') \in Nat /\ Cardinality(Entries(s)') <= e + 1
  <2>1. IsFiniteSet(Entries(s)) /\ e \in Nat
    BY EntriesFinite
  <2>2. /\ IsFiniteSet(Entries(s) \cup {Hash(t)})
        /\ Cardinality(Entries(s) \cup {Hash(t)}) \in {e, e + 1}
    BY <2>1, FS_AddElement
  <2>3. QED
    BY <1>4, <2>1, <2>2, FS_Subset, FS_CardinalityType
<1>7. e < purge_at_len[s] /\ purge_at_len[s] \in Nat
  BY <1>1 DEF BoundOK, RoomOf, IInv, TypeOK
<1>8. ASSUME NEW r \in Shards
      PROVE  BoundOf(r)'
  <2>1. CASE r = s
    BY <1>1, <1>2, <1>6, <1>7, <2>1 DEF BoundOK, BoundOf, AtLeast
  <2>2. CASE r # s
    BY <1>2, <1>5, <2>2 DEF BoundOK, BoundOf, AtLeast
  <2>3. QED
    BY <2>1, <2>2
<1>9. ASSUME NEW u \in Threads, pc'[u] \in {"purge", "insert"}
      PROVE  RoomOf(u)' /\ PurgeOf(u)'
  <2>1. u # t /\ pc'[u] = pc[u]
    BY <1>2, <1>9
  <2>2. \A h \in Hashes : ShardOf(h) # s => m'[h] = m[h]
    BY <1>3 DEF Shard
  <2>3. QED
    BY <1>1, <1>2, <1>9, <2>1, <2>2, BoundOthers DEF Outside
<1>10. QED
  BY <1>8, <1>9 DEF BoundOK, RoomOf, PurgeOf

LEMMA BoundNext == IInv /\ BoundOK /\ [Next]_vars => BoundOK'
<1> SUFFICES ASSUME IInv, BoundOK, [Next]_vars PROVE BoundOK'
  OBVIOUS
<1>1. ASSUME NEW t \in Threads, Inside(t)
      PROVE  BoundOK'
  <2>1. CASE Create(t)
    BY <2>1, BoundCreate
  <2>2. CASE PurgeEnd(t)
    BY <2>2, BoundPurgeEnd
  <2>3. CASE Insert(t)
    BY <2>3, BoundInsert
  <2>4. CASE \E h \in Hashes : Retain(t, h)
    BY <2>4, BoundRetain
  <2>5. CASE \/ ProbeVacant(t) \/ ProbeUpgrade(t) \/ CompareEqual(t) \/ CompareDifferent(t)
             \/ ScanSkip(t) \/ ScanUpgrade(t) \/ ScanEqual(t) \/ ScanDifferent(t)
    BY <2>5, BoundFrame DEF ProbeVacant, ProbeUpgrade, CompareEqual, CompareDifferent, ScanSkip,
       ScanUpgrade, ScanEqual, ScanDifferent, StartScan, Goto, store, objects, call, IInv, TypeOK
  <2>6. CASE ScanEnd(t) \/ Push(t) \/ Unlock(t)
    BY <2>6, BoundFrame DEF ScanEnd, Push, Unlock, Goto, store, objects, call, IInv, TypeOK
  <2>7. QED
    BY <1>1, <2>1, <2>2, <2>3, <2>4, <2>5, <2>6 DEF Inside
<1>2. ASSUME NEW t \in Threads,
             \/ \E o \in {"get", "get_or_insert"}, v \in Values : Call(t, o, v)
             \/ \E o \in Objects : Drop(t, o)
             \/ \E q \in Threads, o \in Objects : Clone(t, q, o)
             \/ Lock(t)
      PROVE  BoundOK'
  BY <1>2, BoundFrame DEF Call, Drop, Clone, Lock, Goto, store, objects, call, IInv, TypeOK
<1>3. ASSUME NEW o \in Objects, Expire(o)
      PROVE  BoundOK'
  BY <1>3, BoundFrame DEF Expire, store, call
<1>4. ASSUME NEW s \in Shards, ResetShard(s)
      PROVE  BoundOK'
  BY <1>4, BoundReset
<1>5. CASE UNCHANGED vars
  BY <1>5, BoundFrame DEF vars, store, objects, call
<1>6. QED
  BY <1>1, <1>2, <1>3, <1>4, <1>5 DEF Next

(* The map of a shard never has more entries than its limit, nor this a    *)
(* greater value than twice the most objects of the shard that were ever   *)
(* alive together, or PURGE_LEN_MIN.                                       *)
THEOREM MapStaysBounded == Spec => []MapBounded
<1>1. BoundOK => MapBounded
  BY DEF BoundOK, BoundOf, MapBounded
<1>2. QED
  BY <1>1, BoundInit, BoundNext, Invariance, PTL DEF Spec
=============================================================================
