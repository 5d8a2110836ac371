---------------------------- MODULE TablesProofs ----------------------------
(***************************************************************************)
(* The tables a configuration may choose besides the default one implement *)
(* the contract of Table, for any numbers of threads, contents and objects *)
(* and any hash function: first the tables on third-party collections,     *)
(* then the sorted vector, then Tables, which is either.                   *)
(***************************************************************************)
EXTENDS Tables, FiniteSetTheorems, SequenceTheorems, TLAPS

(***************************************************************************)
(* Collections.                                                            *)
(***************************************************************************)
MapCreating(t) == pc[t] \in {"create", "insert"}

(* What a thread knows of its call.                                        *)
MapCallOK(t) ==
  /\ pc[t] # "idle" => arg[t] \in Values
  /\ pc[t] \notin {"insert", "done"} => temp[t] = NoObject
  /\ pc[t] \in {"entry", "search", "lock", "recheck", "create", "insert"}
     => op[t] = "get_or_insert"
  /\ pc[t] = "entry" => backend = "DashMap"
  /\ pc[t] = "search" => backend = "SkipMap"
  /\ pc[t] \in {"lock", "recheck"} => backend = "ArcSwap"

(* The part of a call that excludes other calls; the content is still      *)
(* absent there, and a snapshot is still what is published.                *)
MapExcludes(t) ==
  /\ backend \notin Collection!LockFree
  /\ MapCreating(t) \/ pc[t] = "recheck"

MapLockOK(t) ==
  MapExcludes(t) =>
    /\ lock = t
    /\ MapCreating(t) => ~Collection!Has(arg[t])
    /\ MapCreating(t) /\ backend = "ArcSwap" => current[t] = map

(* A new object is its creator's alone.                                    *)
MapPendingOK(t) ==
  pc[t] = "insert" =>
    /\ temp[t] \in alive
    /\ value[temp[t]] = arg[t]
    /\ temp[t] \notin known \cup lost
    /\ \A u \in Threads : temp[t] \notin holds[u] /\ (u # t => temp[u] # temp[t])

MapValueOK == \A o \in Collection!Objects : value[o] \in Values <=> o <= made

(* What is in the collection is known, and alive if the collection holds   *)
(* it; what is known and not expired is in the collection.                 *)
MapKnown ==
  \A v \in Values : map[v] # NoObject =>
    /\ map[v] \in known
    /\ value[map[v]] = v
    /\ backend \in Collection!Strong => map[v] \in alive
MapFindable ==
  \A o \in known : backend \in Collection!Strong \/ o \in alive => map[value[o]] = o

MapThreadOK(t) == MapCallOK(t) /\ MapLockOK(t) /\ MapPendingOK(t)
MapIInv == Collection!TypeOK /\ (\A t \in Threads : MapThreadOK(t)) /\ MapValueOK /\ MapKnown
/\ MapFindable

(* What the constants say, and the objects there are.                      *)
LEMMA MapFacts ==
  ASSUME MapIInv
  PROVE  /\ NoThread \notin Threads /\ NoValue \notin Values /\ NoObject \notin Collection!Objects
         /\ made \in Nat /\ 1 .. made \subseteq Collection!Objects
         /\ alive \subseteq Collection!Objects /\ known \subseteq Collection!Objects
         /\ \A o \in Collection!Objects : o <= made <=> o \in 1 .. made
BY ClientAssumption DEF Objects, MapIInv, Collection!TypeOK, Collection!ClientTypeOK,
     Collection!Objects

LEMMA MapInitInv == Collection!Init => MapIInv
<1> SUFFICES ASSUME Collection!Init PROVE MapIInv
  OBVIOUS
<1> USE DEF Collection!Init, Collection!ClientInit
<1>1. Collection!TypeOK
  BY ClientAssumption DEF Objects, Collection!TypeOK, Collection!ClientTypeOK, Collection!Empty
<1>2. \A t \in Threads : MapThreadOK(t)
  BY DEF MapThreadOK, MapCallOK, MapLockOK, MapPendingOK, MapExcludes, MapCreating
<1>3. MapValueOK
  BY ClientAssumption DEF Objects, MapValueOK, Collection!Objects
<1>4. MapKnown /\ MapFindable
  BY DEF MapKnown, MapFindable, Collection!Empty
<1>5. QED
  BY <1>1, <1>2, <1>3, <1>4 DEF MapIInv

(* Expiry makes nothing present that was absent.                           *)
LEMMA MapSameMap ==
  ASSUME UNCHANGED <<map, backend>>, alive' \subseteq alive, NEW v, Collection!Has(v)'
  PROVE  Collection!Has(v)
BY DEF Collection!Has

-----------------------------------------------------------------------------
(* Handles, calls and returns.                                             *)
LEMMA MapCallInv ==
  ASSUME MapIInv, UNCHANGED Collection!collection,
         NEW t \in Threads, NEW o \in {"get", "get_or_insert"}, NEW v \in Values,
         Collection!Call(t, o, v)
  PROVE  MapIInv'
<1> USE DEF Collection!Call, Collection!Goto, Collection!objects, Collection!collection
<1>1. Collection!TypeOK'
  BY DEF MapIInv, Collection!TypeOK, Collection!ClientTypeOK
<1>2. ASSUME NEW u \in Threads
      PROVE  MapThreadOK(u)'
  <2>1. CASE u = t
    BY <2>1 DEF MapIInv, Collection!TypeOK, Collection!ClientTypeOK, MapThreadOK, MapCallOK,
         MapLockOK, MapPendingOK, MapExcludes, MapCreating
  <2>2. CASE u # t
    <3>1. pc'[u] = pc[u] /\ arg'[u] = arg[u] /\ op'[u] = op[u]
      BY <2>2 DEF MapIInv, Collection!TypeOK, Collection!ClientTypeOK
    <3>2. QED
      BY <3>1 DEF MapIInv, MapThreadOK, MapCallOK, MapLockOK, MapPendingOK, MapExcludes,
           MapCreating, Collection!Has
  <2>3. QED
    BY <2>1, <2>2
<1>3. MapValueOK' /\ MapKnown' /\ MapFindable'
  BY DEF MapIInv, MapValueOK, MapKnown, MapFindable
<1>4. QED
  BY <1>1, <1>2, <1>3 DEF MapIInv

LEMMA MapHoldsInv ==
  ASSUME MapIInv, UNCHANGED Collection!collection,
         NEW t \in Threads, NEW o \in Collection!Objects,
         Collection!Drop(t, o) \/ \E q \in Threads : Collection!Clone(t, q, o)
  PROVE  MapIInv'
<1> USE DEF Collection!objects, Collection!call, Collection!collection
<1>1. /\ UNCHANGED <<backend, lock, value, alive, made, pc, op, arg, temp, map, current, known,
         lost>>
      /\ holds' \in [Threads -> SUBSET alive]
      /\ \A u \in Threads : \A p \in holds'[u] : \E q \in Threads : p \in holds[q]
  <2>1. CASE Collection!Drop(t, o)
    <3>1. \A u \in Threads : holds'[u] \subseteq holds[u]
      BY <2>1 DEF Collection!Drop, MapIInv, Collection!TypeOK, Collection!ClientTypeOK
    <3>2. holds' \in [Threads -> SUBSET alive]
      BY <2>1 DEF Collection!Drop, MapIInv, Collection!TypeOK, Collection!ClientTypeOK
    <3>3. QED
      BY <2>1, <3>1, <3>2 DEF Collection!Drop
  <2>2. ASSUME NEW q \in Threads, Collection!Clone(t, q, o)
        PROVE  <1>1!1 /\ <1>1!2 /\ <1>1!3
    <3>1. \A u \in Threads : holds'[u] \subseteq holds[u] \cup {o}
      BY <2>2 DEF Collection!Clone, MapIInv, Collection!TypeOK, Collection!ClientTypeOK
    <3>2. o \in alive /\ o \in holds[t]
      BY <2>2 DEF Collection!Clone, MapIInv, Collection!TypeOK, Collection!ClientTypeOK
    <3>3. holds' \in [Threads -> SUBSET alive]
      BY <2>2, <3>2 DEF Collection!Clone, MapIInv, Collection!TypeOK, Collection!ClientTypeOK
    <3>4. QED
      BY <2>2, <3>1, <3>2, <3>3 DEF Collection!Clone
  <2>3. QED
    BY <2>1, <2>2
<1>2. Collection!TypeOK'
  BY <1>1 DEF MapIInv, Collection!TypeOK, Collection!ClientTypeOK
<1>3. \A u \in Threads : MapThreadOK(u)'
  BY <1>1 DEF MapIInv, MapThreadOK, MapCallOK, MapLockOK, MapPendingOK, MapExcludes,
       MapCreating, Collection!Has
<1>4. MapValueOK' /\ MapKnown' /\ MapFindable'
  BY <1>1 DEF MapIInv, MapValueOK, MapKnown, MapFindable
<1>5. QED
  BY <1>2, <1>3, <1>4 DEF MapIInv

LEMMA MapReturnInv ==
  ASSUME MapIInv, UNCHANGED Collection!collection, NEW t \in Threads, Collection!Return(t)
  PROVE  MapIInv'
<1> USE DEF Collection!Return, Collection!Goto, Collection!objects, Collection!collection
<1>0. \A u \in Threads : u # t =>
        pc'[u] = pc[u] /\ arg'[u] = arg[u] /\ op'[u] = op[u] /\ temp'[u] = temp[u]
        /\ holds'[u] = holds[u]
  BY DEF MapIInv, Collection!TypeOK, Collection!ClientTypeOK
<1>1. Collection!TypeOK'
  BY DEF MapIInv, Collection!TypeOK, Collection!ClientTypeOK
<1>2. MapThreadOK(t)'
  BY DEF MapIInv, Collection!TypeOK, Collection!ClientTypeOK, MapThreadOK, MapCallOK,
       MapLockOK, MapPendingOK, MapExcludes, MapCreating
<1>3. ASSUME NEW u \in Threads, u # t
      PROVE  MapThreadOK(u)'
  <2>1. MapCallOK(u)' /\ MapLockOK(u)'
    BY <1>0, <1>3 DEF MapIInv, MapThreadOK, MapCallOK, MapLockOK, MapExcludes, MapCreating,
         Collection!Has
  <2>2. MapPendingOK(u)'
    <3>1. ASSUME pc[u] = "insert"
          PROVE  temp[u] # NoObject /\ temp[u] \notin holds'[t] /\ temp'[t] # temp[u]
      BY <1>3, <3>1, MapFacts DEF MapIInv, Collection!TypeOK, Collection!ClientTypeOK,
           MapThreadOK, MapPendingOK
    <3>2. QED
      BY <1>0, <1>3, <3>1 DEF MapIInv, MapThreadOK, MapPendingOK
  <2>3. QED
    BY <2>1, <2>2 DEF MapThreadOK
<1>4. MapValueOK' /\ MapKnown' /\ MapFindable'
  BY DEF MapIInv, MapValueOK, MapKnown, MapFindable
<1>5. QED
  BY <1>1, <1>2, <1>3, <1>4 DEF MapIInv

(* What a strong collection holds does not expire.                         *)
LEMMA MapExpireInv ==
  ASSUME MapIInv, NEW o \in Collection!Objects, Collection!ExpireUnkept(o)
  PROVE  MapIInv'
<1> USE DEF Collection!ExpireUnkept, Collection!Expire, Collection!call, Collection!collection
<1>1. /\ UNCHANGED <<backend, lock, value, made, holds, pc, op, arg, temp, map, current, known,
         lost>>
      /\ alive' = alive \ {o}
      /\ Collection!NoStrong(o) /\ ~Collection!Kept(o)
  OBVIOUS
<1>2. Collection!TypeOK'
  BY <1>1 DEF MapIInv, Collection!TypeOK, Collection!ClientTypeOK, Collection!NoStrong
<1>3. ASSUME NEW t \in Threads
      PROVE  MapThreadOK(t)'
  BY <1>1, MapSameMap DEF MapIInv, MapThreadOK, MapCallOK, MapLockOK, MapPendingOK,
       MapExcludes, MapCreating, Collection!NoStrong
<1>4. MapValueOK'
  BY <1>1 DEF MapIInv, MapValueOK
<1>5. MapKnown' /\ MapFindable'
  BY <1>1 DEF MapIInv, MapKnown, MapFindable, Collection!Kept
<1>6. QED
  BY <1>2, <1>3, <1>4, <1>5 DEF MapIInv

-----------------------------------------------------------------------------
(* A step of a call that changes neither objects nor the collection.       *)
MapMoves(t) ==
  /\ UNCHANGED <<backend, value, alive, made, holds, op, arg, map, known, lost>>
  /\ pc' = [pc EXCEPT ![t] = pc'[t]]
  /\ temp' = [temp EXCEPT ![t] = temp'[t]]
  /\ current' = [current EXCEPT ![t] = current'[t]]

LEMMA MapMovesInv ==
  ASSUME MapIInv, NEW t \in Threads, MapMoves(t),
         lock' \in {lock, t, NoThread},
         lock' # lock => lock \in {t, NoThread},
         pc[t] # "insert", pc'[t] # "insert",
         pc'[t] \in {"entry", "search", "lock", "recheck", "create", "done"},
         temp'[t] \in alive \cup {NoObject},
         \A u \in Threads : pc[u] = "insert" => temp'[t] # temp[u],
         current'[t] \in {current[t], map},
         MapCallOK(t)', MapLockOK(t)'
  PROVE  MapIInv'
<1> USE DEF MapMoves
<1>1. \A u \in Threads : u # t =>
        pc'[u] = pc[u] /\ temp'[u] = temp[u] /\ current'[u] = current[u]
  BY DEF MapIInv, Collection!TypeOK, Collection!ClientTypeOK
<1>2. Collection!TypeOK'
  <2> USE DEF MapIInv, Collection!TypeOK, Collection!ClientTypeOK
  <2>1. lock' \in Threads \cup {NoThread}
    OBVIOUS
  <2>2. pc' \in [Threads -> {"idle", "lookup", "entry", "search", "lock", "recheck", "create",
                            "insert", "done"}]
    BY Zenon
  <2>3. temp' \in [Threads -> alive \cup {NoObject}]
    BY Zenon
  <2>4. current' \in [Threads -> [Values -> 1 .. made \cup {NoObject}]]
    <3>1. current'[t] \in [Values -> 1 .. made \cup {NoObject}]
      OBVIOUS
    <3>2. QED
      BY <3>1, Zenon
  <2>5. QED
    BY <2>1, <2>2, <2>3, <2>4
<1>3. ASSUME NEW u \in Threads, u # t
      PROVE  MapThreadOK(u)'
  <2>1. MapCallOK(u)'
    BY <1>1, <1>3 DEF MapIInv, MapThreadOK, MapCallOK
  <2>2. MapLockOK(u)'
    BY <1>1, <1>3, MapFacts DEF MapIInv, MapThreadOK, MapLockOK, MapExcludes, MapCreating,
         Collection!Has
  <2>3. MapPendingOK(u)'
    BY <1>1, <1>3 DEF MapIInv, MapThreadOK, MapPendingOK
  <2>4. QED
    BY <2>1, <2>2, <2>3 DEF MapThreadOK
<1>4. MapThreadOK(t)'
  BY DEF MapThreadOK, MapPendingOK
<1>5. MapValueOK' /\ MapKnown' /\ MapFindable'
  BY DEF MapIInv, MapValueOK, MapKnown, MapFindable
<1>6. QED
  BY <1>2, <1>3, <1>4, <1>5 DEF MapIInv

(* Objects in the collection are not pending.                              *)
LEMMA MapNotPending ==
  ASSUME MapIInv, NEW v \in Values, Collection!Has(v)
  PROVE  /\ map[v] \in known \cap alive
         /\ value[map[v]] = v
         /\ \A u \in Threads : pc[u] = "insert" => map[v] # temp[u]
BY DEF MapIInv, MapKnown, Collection!Has, MapThreadOK, MapPendingOK

LEMMA MapLookupInv ==
  ASSUME MapIInv, NEW t \in Threads, Collection!Lookup(t) \/ Collection!Entry(t)
         \/ Collection!Search(t) \/ Collection!WriteLock(t) \/ Collection!Recheck(t)
  PROVE  MapIInv'
<1>0. MapCallOK(t) /\ MapLockOK(t)
  BY DEF MapIInv, MapThreadOK
<1>1. pc \in [Threads -> {"idle", "lookup", "entry", "search", "lock", "recheck", "create",
                         "insert", "done"}]
      /\ temp \in [Threads -> alive \cup {NoObject}]
      /\ current \in [Threads -> [Values -> 1 .. made \cup {NoObject}]]
      /\ backend \in Collection!Strong \cup {"WeakHashSet"}
  BY DEF MapIInv, Collection!TypeOK, Collection!ClientTypeOK
<1>2. \A u \in Threads : pc[u] = "insert" => NoObject # temp[u]
  BY MapFacts DEF MapIInv, MapThreadOK, MapPendingOK
<1> USE DEF Collection!Answer, Collection!Goto, Collection!objects, Collection!call,
            Collection!collection, MapMoves
<1>3. CASE Collection!Lookup(t)
  <2>1. MapMoves(t) /\ pc[t] = "lookup" /\ arg[t] \in Values /\ temp[t] = NoObject /\ op' = op
    BY <1>0, <1>1, <1>3 DEF Collection!Lookup, MapCallOK
  <2>2. CASE Collection!Has(arg[t])
    <3>1. pc'[t] = "done" /\ temp'[t] = map[arg[t]] /\ lock' = lock /\ current' = current
      BY <1>1, <1>3, <2>2 DEF Collection!Lookup
    <3>2. MapCallOK(t)' /\ MapLockOK(t)'
      BY <2>1, <3>1 DEF MapCallOK, MapLockOK, MapExcludes, MapCreating
    <3>3. QED
      BY <2>1, <2>2, <3>1, <3>2, MapMovesInv, MapNotPending
  <2>3. CASE ~Collection!Has(arg[t]) /\ op[t] = "get"
    <3>1. pc'[t] = "done" /\ temp'[t] = NoObject /\ lock' = lock /\ current' = current
      BY <1>1, <1>3, <2>3 DEF Collection!Lookup
    <3>2. MapCallOK(t)' /\ MapLockOK(t)'
      BY <2>1, <3>1 DEF MapCallOK, MapLockOK, MapExcludes, MapCreating
    <3>3. QED
      BY <1>2, <2>1, <3>1, <3>2, MapMovesInv
  <2>4. CASE ~Collection!Has(arg[t]) /\ op[t] # "get"
    <3>1. /\ pc'[t] = Collection!AfterMiss /\ temp'[t] = NoObject /\ current' = current
          /\ op[t] = "get_or_insert" /\ Collection!MayLook(t)
          /\ lock' = IF backend = "WeakHashSet" THEN t ELSE lock
      BY <1>1, <1>3, <2>1, <2>4 DEF Collection!Lookup
    <3>2. MapCallOK(t)'
      BY <1>1, <2>1, <3>1 DEF MapCallOK, Collection!AfterMiss, Collection!Strong
    <3>3. MapLockOK(t)'
      BY <1>1, <2>1, <2>4, <3>1 DEF MapLockOK, MapExcludes, MapCreating, Collection!AfterMiss,
           Collection!Strong, Collection!LockFree, Collection!Has
    <3>4. backend = "WeakHashSet" => lock \in {NoThread, t}
      BY <3>1 DEF Collection!MayLook, Collection!LockFree
    <3>5. pc'[t] \in {"entry", "search", "lock", "create"}
      BY <3>1 DEF Collection!AfterMiss
    <3>6. QED
      BY <1>2, <2>1, <3>1, <3>2, <3>3, <3>4, <3>5, MapMovesInv
  <2>5. QED
    BY <2>2, <2>3, <2>4
<1>4. CASE Collection!Entry(t)
  <2>1. /\ MapMoves(t) /\ pc[t] = "entry" /\ arg[t] \in Values /\ temp[t] = NoObject /\ op' = op
        /\ backend = "DashMap" /\ lock = NoThread /\ current' = current
    BY <1>0, <1>1, <1>4 DEF Collection!Entry, MapCallOK
  <2>2. CASE Collection!Has(arg[t])
    <3>1. pc'[t] = "done" /\ temp'[t] = map[arg[t]] /\ lock' = lock
      BY <1>1, <1>4, <2>2 DEF Collection!Entry
    <3>2. MapCallOK(t)' /\ MapLockOK(t)'
      BY <2>1, <3>1 DEF MapCallOK, MapLockOK, MapExcludes, MapCreating
    <3>3. QED
      BY <2>1, <2>2, <3>1, <3>2, MapMovesInv, MapNotPending
  <2>3. CASE ~Collection!Has(arg[t])
    <3>1. pc'[t] = "create" /\ temp'[t] = NoObject /\ lock' = t
      BY <1>1, <1>4, <2>1, <2>3 DEF Collection!Entry
    <3>2. MapCallOK(t)' /\ MapLockOK(t)'
      BY <1>0, <2>1, <2>3, <3>1 DEF MapCallOK, MapLockOK, MapExcludes, MapCreating,
           Collection!Has
    <3>3. QED
      BY <1>2, <2>1, <3>1, <3>2, MapMovesInv
  <2>4. QED
    BY <2>2, <2>3
<1>5. CASE Collection!Search(t)
  <2>1. /\ MapMoves(t) /\ pc[t] = "search" /\ arg[t] \in Values /\ temp[t] = NoObject /\ op' = op
        /\ backend = "SkipMap" /\ lock' = lock /\ current' = current
    BY <1>0, <1>1, <1>5 DEF Collection!Search, MapCallOK
  <2>2. CASE Collection!Has(arg[t])
    <3>1. pc'[t] = "done" /\ temp'[t] = map[arg[t]]
      BY <1>1, <1>5, <2>2 DEF Collection!Search
    <3>2. MapCallOK(t)' /\ MapLockOK(t)'
      BY <2>1, <3>1 DEF MapCallOK, MapLockOK, MapExcludes, MapCreating
    <3>3. QED
      BY <2>1, <2>2, <3>1, <3>2, MapMovesInv, MapNotPending
  <2>3. CASE ~Collection!Has(arg[t])
    <3>1. pc'[t] = "create" /\ temp'[t] = NoObject
      BY <1>1, <1>5, <2>1, <2>3 DEF Collection!Search
    <3>2. MapCallOK(t)' /\ MapLockOK(t)'
      BY <1>0, <2>1, <3>1 DEF MapCallOK, MapLockOK, MapExcludes, Collection!LockFree
    <3>3. QED
      BY <1>2, <2>1, <3>1, <3>2, MapMovesInv
  <2>4. QED
    BY <2>2, <2>3
<1>6. CASE Collection!WriteLock(t)
  <2>1. /\ MapMoves(t) /\ pc[t] = "lock" /\ arg[t] \in Values /\ temp[t] = NoObject /\ op' = op
        /\ backend = "ArcSwap" /\ lock = NoThread /\ lock' = t /\ current' = current
        /\ pc'[t] = "recheck" /\ temp'[t] = NoObject
    BY <1>0, <1>1, <1>6 DEF Collection!WriteLock, Collection!NoWriter, MapCallOK
  <2>2. MapCallOK(t)' /\ MapLockOK(t)'
    BY <1>0, <2>1 DEF MapCallOK, MapLockOK, MapCreating
  <2>3. QED
    BY <1>2, <2>1, <2>2, MapMovesInv
<1>7. CASE Collection!Recheck(t)
  <2>1. /\ MapMoves(t) /\ pc[t] = "recheck" /\ arg[t] \in Values /\ temp[t] = NoObject /\ op' = op
        /\ backend = "ArcSwap" /\ lock = t
    BY <1>0, <1>1, <1>7 DEF Collection!Recheck, MapCallOK, MapLockOK, MapExcludes,
         Collection!LockFree
  <2>2. CASE Collection!Has(arg[t])
    <3>1. pc'[t] = "done" /\ temp'[t] = map[arg[t]] /\ lock' = NoThread /\ current' = current
      BY <1>1, <1>7, <2>2 DEF Collection!Recheck
    <3>2. MapCallOK(t)' /\ MapLockOK(t)'
      BY <2>1, <3>1 DEF MapCallOK, MapLockOK, MapExcludes, MapCreating
    <3>3. QED
      BY <2>1, <2>2, <3>1, <3>2, MapMovesInv, MapNotPending
  <2>3. CASE ~Collection!Has(arg[t])
    <3>1. pc'[t] = "create" /\ temp'[t] = NoObject /\ lock' = lock /\ current'[t] = map
      BY <1>1, <1>7, <2>1, <2>3 DEF Collection!Recheck
    <3>2. MapCallOK(t)' /\ MapLockOK(t)'
      BY <1>0, <2>1, <2>3, <3>1 DEF MapCallOK, MapLockOK, MapExcludes, MapCreating,
           Collection!Has
    <3>3. QED
      BY <1>2, <2>1, <3>1, <3>2, MapMovesInv
  <2>4. QED
    BY <2>2, <2>3
<1>8. QED
  BY <1>3, <1>4, <1>5, <1>6, <1>7

-----------------------------------------------------------------------------
(* Creation, insertion and reset.                                          *)
LEMMA MapCreateInv ==
  ASSUME MapIInv, NEW t \in Threads, Collection!CreateForMap(t)
  PROVE  MapIInv'
<1> USE DEF Collection!CreateForMap, Collection!Create, Collection!Goto, Collection!call,
            Collection!collection
<1> DEFINE n == made + 1
<1>1. /\ n \in Collection!Objects /\ n \notin alive /\ n \notin known /\ n \notin lost
      /\ n # NoObject /\ made \in Nat
  <2>1. made \in Nat /\ MaxObjects \in Nat /\ made < MaxObjects
    BY MapFacts, ClientAssumption
  <2>2. n \in Collection!Objects /\ n \notin 1 .. made
    BY <2>1 DEF Collection!Objects
  <2>3. alive \subseteq 1 .. made /\ known \subseteq 1 .. made /\ lost \subseteq 1 .. made
    BY DEF MapIInv, Collection!TypeOK, Collection!ClientTypeOK
  <2>4. QED
    BY <2>1, <2>2, <2>3, MapFacts
<1>2. /\ UNCHANGED <<backend, lock, holds, op, arg, map, current, known, lost>>
      /\ made' = n /\ alive' = alive \cup {n}
      /\ value' = [value EXCEPT ![n] = arg[t]]
      /\ temp' = [temp EXCEPT ![t] = n] /\ pc' = [pc EXCEPT ![t] = "insert"]
      /\ pc[t] = "create" /\ arg[t] \in Values
  BY DEF MapIInv, MapThreadOK, MapCallOK
<1> USE DEF MapIInv
<1>3. Collection!TypeOK'
  <2>1. 1 .. made \subseteq 1 .. made' /\ n \in 1 .. made' /\ made' \in 0 .. MaxObjects
    BY <1>1, <1>2 DEF Collection!Objects
  <2>2. value' \in [Collection!Objects -> Values \cup {NoValue}]
    BY <1>1, <1>2 DEF Collection!TypeOK, Collection!ClientTypeOK
  <2>3. alive' \in SUBSET (1 .. made') /\ alive \subseteq alive'
    BY <1>2, <2>1 DEF Collection!TypeOK, Collection!ClientTypeOK
  <2>4. holds' \in [Threads -> SUBSET alive'] /\ temp' \in [Threads -> alive' \cup {NoObject}]
    BY <1>2, <2>3 DEF Collection!TypeOK, Collection!ClientTypeOK
  <2>5. pc' \in [Threads -> {"idle", "lookup", "entry", "search", "lock", "recheck", "create",
                            "insert", "done"}]
    BY <1>2 DEF Collection!TypeOK, Collection!ClientTypeOK
  <2>6. map' \in [Values -> 1 .. made' \cup {NoObject}]
    BY <1>2, <2>1 DEF Collection!TypeOK, Collection!ClientTypeOK
  <2>7. current' \in [Threads -> [Values -> 1 .. made' \cup {NoObject}]]
    BY <1>2, <2>1 DEF Collection!TypeOK, Collection!ClientTypeOK
  <2>8. known' \in SUBSET (1 .. made') /\ lost' \in SUBSET (1 .. made' \ known')
    BY <1>2, <2>1 DEF Collection!TypeOK, Collection!ClientTypeOK
  <2>9. QED
    BY <1>2, <2>1, <2>2, <2>3, <2>4, <2>5, <2>6, <2>7, <2>8 DEF Collection!TypeOK,
         Collection!ClientTypeOK
<1>4. \A u \in Threads : u # t => pc'[u] = pc[u] /\ temp'[u] = temp[u]
  BY <1>2 DEF Collection!TypeOK, Collection!ClientTypeOK
<1>5. pc'[t] = "insert" /\ temp'[t] = n
  BY <1>2 DEF Collection!TypeOK, Collection!ClientTypeOK
<1>6. \A v \in Values : Collection!Has(v)' <=> Collection!Has(v)
  BY <1>1, <1>2 DEF Collection!Has, MapKnown
<1>7. \A o \in Collection!Objects : o # n => value'[o] = value[o]
  BY <1>2 DEF Collection!TypeOK, Collection!ClientTypeOK
<1>8. value'[n] = arg[t]
  BY <1>1, <1>2 DEF Collection!TypeOK, Collection!ClientTypeOK
<1>9. \A u \in Threads : temp[u] # n /\ n \notin holds[u]
  BY <1>1 DEF Collection!TypeOK, Collection!ClientTypeOK
<1>10. ASSUME NEW u \in Threads
       PROVE  MapThreadOK(u)'
  <2>1. MapCallOK(u)'
    BY <1>2, <1>4, <1>5 DEF MapThreadOK, MapCallOK
  <2>2. MapLockOK(u)'
    <3>1. MapCreating(u)' => MapCreating(u)
      BY <1>2, <1>4, <1>5 DEF MapCreating
    <3>2. MapExcludes(u)' => MapExcludes(u)
      BY <1>2, <1>4, <1>5, <3>1 DEF MapExcludes
    <3>3. MapExcludes(u) => arg[u] \in Values
      BY DEF MapThreadOK, MapCallOK, MapExcludes, MapCreating
    <3>4. QED
      BY <1>2, <1>6, <3>1, <3>2, <3>3 DEF MapThreadOK, MapLockOK
  <2>3. MapPendingOK(u)'
    <3>1. CASE u = t
      BY <1>1, <1>2, <1>4, <1>5, <1>8, <1>9, <3>1 DEF MapPendingOK
    <3>2. CASE u # t
      <4>1. pc[u] = "insert" => temp[u] \in Collection!Objects
        BY MapFacts DEF MapThreadOK, MapPendingOK
      <4>2. QED
        BY <1>2, <1>4, <1>5, <1>7, <1>9, <3>2, <4>1 DEF MapThreadOK, MapPendingOK
    <3>3. QED
      BY <3>1, <3>2
  <2>4. QED
    BY <2>1, <2>2, <2>3 DEF MapThreadOK
<1>11. MapValueOK'
  <2>1. ASSUME NEW o \in Collection!Objects
        PROVE  value'[o] \in Values <=> o <= made'
    <3>1. o # n => (o <= made <=> o <= n)
      BY <1>1 DEF Collection!Objects
    <3>2. QED
      BY <1>1, <1>2, <1>7, <1>8, <3>1 DEF MapValueOK
  <2>2. QED
    BY <2>1 DEF MapValueOK, Collection!Objects
<1>12. \A o \in known : o \in Collection!Objects /\ o # n
  BY <1>1, MapFacts
<1>13. MapKnown' /\ MapFindable'
  BY <1>2, <1>7, <1>12 DEF MapKnown, MapFindable
<1>14. QED
  BY <1>3, <1>10, <1>11, <1>13

(* What is inserted was not there.                                         *)
LEMMA MapInsertFacts ==
  ASSUME MapIInv, NEW t \in Threads, Collection!Insert(t)
  PROVE  /\ map' = [map EXCEPT ![arg[t]] = temp[t]]
         /\ pc[t] = "insert" /\ arg[t] \in Values /\ ~Collection!Has(arg[t])
         /\ op[t] = "get_or_insert"
         /\ temp[t] \in alive \ (known \cup lost) /\ value[temp[t]] = arg[t]
         /\ pc' = [pc EXCEPT ![t] = "done"] /\ temp' = temp
         /\ known' = known \cup {temp[t]}
         /\ UNCHANGED <<backend, value, alive, made, holds, op, arg, lost>>
<1>1. pc[t] = "insert" /\ MapCallOK(t) /\ MapLockOK(t) /\ MapPendingOK(t)
  BY DEF MapIInv, MapThreadOK, Collection!Insert
<1>2. ~Collection!Has(arg[t]) /\ (backend = "ArcSwap" => current[t] = map)
  BY <1>1 DEF Collection!Insert, Collection!LosesRace, MapLockOK, MapExcludes, MapCreating,
       Collection!LockFree
<1>3. temp' = temp
  BY DEF Collection!Insert, Collection!Answer, MapIInv, Collection!TypeOK,
       Collection!ClientTypeOK
<1>4. QED
  BY <1>1, <1>2, <1>3 DEF Collection!Insert, Collection!Answer, Collection!Goto, MapCallOK,
       MapPendingOK, Collection!objects, Collection!call

LEMMA MapInsertInv ==
  ASSUME MapIInv, NEW t \in Threads, Collection!Insert(t)
  PROVE  MapIInv'
<1> DEFINE o == temp[t]
<1>1. /\ lock' = IF backend \in Collection!LockFree THEN lock ELSE NoThread
      /\ current' = [current EXCEPT ![t] = Collection!Empty]
  BY DEF Collection!Insert
<1>2. /\ o \in 1 .. made /\ o # NoObject
      /\ \A u \in Threads : u # t => pc'[u] = pc[u] /\ (pc[u] = "insert" => temp[u] # o)
      /\ pc'[t] = "done"
  <2>1. alive \subseteq 1 .. made /\ pc \in [Threads -> {"idle", "lookup", "entry", "search",
            "lock", "recheck", "create", "insert", "done"}]
    BY DEF MapIInv, Collection!TypeOK, Collection!ClientTypeOK
  <2>2. o \in alive
    BY MapInsertFacts
  <2>3. \A u \in Threads : u # t => (pc[u] = "insert" => temp[u] # o)
    BY MapInsertFacts DEF MapIInv, MapThreadOK, MapPendingOK
  <2>4. \A u \in Threads : pc'[u] = IF u = t THEN "done" ELSE pc[u]
    BY MapInsertFacts, <2>1
  <2>5. QED
    BY <2>1, <2>2, <2>3, <2>4, MapFacts
<1> USE DEF MapIInv
<1>3. Collection!TypeOK'
  <2>1. map' \in [Values -> 1 .. made \cup {NoObject}]
    BY MapInsertFacts, <1>2 DEF Collection!TypeOK
  <2>2. current' \in [Threads -> [Values -> 1 .. made \cup {NoObject}]]
    BY <1>1 DEF Collection!TypeOK, Collection!Empty
  <2>3. known' \in SUBSET (1 .. made) /\ lost' \in SUBSET (1 .. made \ known')
    <3>1. \A p \in known \cup lost : p \in 1 .. made
      BY DEF Collection!TypeOK
    <3>2. \A p \in lost : p \notin known /\ p # o
      BY MapInsertFacts DEF Collection!TypeOK
    <3>3. known' = known \cup {o} /\ lost' = lost /\ o \in 1 .. made
      BY MapInsertFacts, <1>2
    <3>4. QED
      BY <3>1, <3>2, <3>3, Zenon
  <2>4. pc' \in [Threads -> {"idle", "lookup", "entry", "search", "lock", "recheck", "create",
                            "insert", "done"}]
    BY MapInsertFacts DEF Collection!TypeOK
  <2>5. lock' \in Threads \cup {NoThread}
    BY <1>1 DEF Collection!TypeOK, Collection!ClientTypeOK
  <2>6. QED
    BY MapInsertFacts, <2>1, <2>2, <2>3, <2>4, <2>5 DEF Collection!TypeOK,
         Collection!ClientTypeOK
<1>4. ASSUME NEW u \in Threads
      PROVE  MapThreadOK(u)'
  <2>1. MapCallOK(u)'
    BY MapInsertFacts, <1>2 DEF MapThreadOK, MapCallOK
  <2>2. MapLockOK(u)'
    <3>1. CASE u = t
      BY <1>2, <3>1 DEF MapLockOK, MapExcludes, MapCreating
    <3>2. CASE u # t
      <4>1. ~MapExcludes(u)
        BY MapInsertFacts, <3>2 DEF MapThreadOK, MapLockOK, MapExcludes, MapCreating
      <4>2. QED
        BY MapInsertFacts, <1>2, <3>2, <4>1 DEF MapLockOK, MapExcludes, MapCreating
    <3>3. QED
      BY <3>1, <3>2
  <2>3. MapPendingOK(u)'
    BY MapInsertFacts, <1>2 DEF MapThreadOK, MapPendingOK
  <2>4. QED
    BY <2>1, <2>2, <2>3 DEF MapThreadOK
<1>5. MapValueOK'
  BY MapInsertFacts DEF MapValueOK
<1>6. map'[arg[t]] = o /\ \A v \in Values \ {arg[t]} : map'[v] = map[v]
  BY MapInsertFacts DEF Collection!TypeOK
<1>7. MapKnown'
  <2>1. ASSUME NEW v \in Values, map'[v] # NoObject
        PROVE  map'[v] \in known' /\ value[map'[v]] = v /\ (backend \in Collection!Strong
               => map'[v] \in alive)
    <3>1. CASE v = arg[t]
      BY <1>6, <3>1, MapInsertFacts
    <3>2. CASE v # arg[t]
      BY <1>6, <2>1, <3>2, MapInsertFacts DEF MapKnown
    <3>3. QED
      BY <3>1, <3>2
  <2>2. QED
    BY <2>1, MapInsertFacts DEF MapKnown
<1>8. MapFindable'
  <2>1. ASSUME NEW p \in known', backend \in Collection!Strong \/ p \in alive
        PROVE  map'[value[p]] = p
    <3>1. CASE p = o
      BY <1>6, <3>1, MapInsertFacts
    <3>2. CASE p # o
      <4>1. p \in known /\ map[value[p]] = p /\ p # NoObject
        BY <2>1, <3>2, MapInsertFacts, MapFacts DEF MapFindable
      <4>2. value[p] \in Values
        BY <4>1, MapFacts DEF MapValueOK, Collection!TypeOK
      <4>3. value[p] # arg[t]
        BY <2>1, <4>1, MapInsertFacts DEF Collection!Has
      <4>4. QED
        BY <1>6, <4>1, <4>2, <4>3
    <3>3. QED
      BY <3>1, <3>2
  <2>2. QED
    BY <2>1, MapInsertFacts DEF MapFindable
<1>9. QED
  BY <1>3, <1>4, <1>5, <1>7, <1>8

LEMMA MapLosesFacts ==
  ASSUME MapIInv, NEW t \in Threads, Collection!InsertLoses(t)
  PROVE  /\ pc[t] = "insert" /\ arg[t] \in Values /\ Collection!Has(arg[t])
         /\ op[t] = "get_or_insert"
         /\ temp[t] \in alive \ (known \cup lost)
         /\ map[arg[t]] \in known \cap alive /\ value[map[arg[t]]] = arg[t]
         /\ pc' = [pc EXCEPT ![t] = "done"] /\ temp' = [temp EXCEPT ![t] = map[arg[t]]]
         /\ lost' = lost \cup {temp[t]}
         /\ UNCHANGED <<backend, lock, value, alive, made, holds, op, arg, map, current, known>>
<1>1. pc[t] = "insert" /\ MapCallOK(t) /\ MapPendingOK(t) /\ Collection!Has(arg[t])
  BY DEF MapIInv, MapThreadOK, Collection!InsertLoses, Collection!LosesRace
<1>2. QED
  BY <1>1, MapNotPending DEF Collection!InsertLoses, Collection!Answer, Collection!Goto,
       MapCallOK, MapPendingOK, Collection!objects, Collection!call

LEMMA MapLosesInv ==
  ASSUME MapIInv, NEW t \in Threads, Collection!InsertLoses(t)
  PROVE  MapIInv'
<1> USE DEF MapIInv
<1>1. /\ \A u \in Threads : u # t =>
           /\ pc'[u] = pc[u] /\ temp'[u] = temp[u]
           /\ pc[u] = "insert" => temp[u] # temp[t] /\ temp[u] # map[arg[t]]
      /\ pc'[t] = "done" /\ temp'[t] = map[arg[t]]
  BY MapLosesFacts, MapNotPending DEF Collection!TypeOK, Collection!ClientTypeOK, MapThreadOK,
       MapPendingOK
<1>2. Collection!TypeOK'
  <2>1. known' \in SUBSET (1 .. made) /\ lost' \in SUBSET (1 .. made \ known')
    <3>1. temp[t] \in 1 .. made
      BY MapLosesFacts DEF Collection!TypeOK, Collection!ClientTypeOK
    <3>2. \A p \in known \cup lost : p \in 1 .. made
      BY DEF Collection!TypeOK
    <3>3. \A p \in lost' : p \notin known
      BY MapLosesFacts DEF Collection!TypeOK
    <3>4. known' = known /\ lost' = lost \cup {temp[t]}
      BY MapLosesFacts
    <3>5. QED
      BY <3>1, <3>2, <3>3, <3>4, Zenon
  <2>2. pc' \in [Threads -> {"idle", "lookup", "entry", "search", "lock", "recheck", "create",
                            "insert", "done"}]
    BY MapLosesFacts DEF Collection!TypeOK
  <2>3. temp' \in [Threads -> alive \cup {NoObject}]
    BY MapLosesFacts DEF Collection!TypeOK, Collection!ClientTypeOK
  <2>4. UNCHANGED <<backend, lock, value, alive, made, holds, op, arg, map, current>>
    BY MapLosesFacts
  <2>5. QED
    BY <2>1, <2>2, <2>3, <2>4 DEF Collection!TypeOK, Collection!ClientTypeOK
<1>3. ASSUME NEW u \in Threads
      PROVE  MapThreadOK(u)'
  <2>1. MapCallOK(u)'
    BY MapLosesFacts, <1>1 DEF MapThreadOK, MapCallOK
  <2>2. MapLockOK(u)'
    BY MapLosesFacts, <1>1 DEF MapThreadOK, MapLockOK, MapExcludes, MapCreating, Collection!Has
  <2>3. MapPendingOK(u)'
    BY MapLosesFacts, <1>1 DEF MapThreadOK, MapPendingOK
  <2>4. QED
    BY <2>1, <2>2, <2>3 DEF MapThreadOK
<1>4. MapValueOK' /\ MapKnown' /\ MapFindable'
  BY MapLosesFacts DEF MapValueOK, MapKnown, MapFindable
<1>5. QED
  BY <1>2, <1>3, <1>4

LEMMA MapResetInv ==
  ASSUME MapIInv, NEW S \in SUBSET Values, Collection!Reset(S)
  PROVE  MapIInv'
<1> USE DEF MapIInv
<1>1. /\ UNCHANGED <<backend, lock, value, alive, made, holds, pc, op, arg, temp, current, lost>>
      /\ map' = [v \in Values |-> IF v \in S THEN NoObject ELSE map[v]]
      /\ known' = {o \in known : value[o] \notin S}
      /\ backend \in Collection!LockFree \/ lock = NoThread
  BY DEF Collection!Reset, Collection!ResetAllowed, Collection!client, Collection!objects,
       Collection!call
<1>2. Collection!TypeOK'
  <2>1. map' \in [Values -> 1 .. made \cup {NoObject}]
    BY <1>1 DEF Collection!TypeOK
  <2>2. QED
    BY <1>1, <2>1 DEF Collection!TypeOK, Collection!ClientTypeOK
<1>3. ASSUME NEW u \in Threads
      PROVE  MapThreadOK(u)'
  <2>1. ~MapExcludes(u)
    BY <1>1, MapFacts DEF MapThreadOK, MapLockOK, MapExcludes
  <2>2. QED
    BY <1>1, <2>1 DEF MapThreadOK, MapCallOK, MapLockOK, MapPendingOK, MapExcludes, MapCreating
<1>4. MapValueOK'
  BY <1>1 DEF MapValueOK
<1>5. MapKnown'
  BY <1>1 DEF MapKnown
<1>6. MapFindable'
  <2>1. ASSUME NEW o \in known', backend \in Collection!Strong \/ o \in alive
        PROVE  map'[value[o]] = o
    <3>1. o \in known /\ value[o] \notin S /\ value[o] \in Values
      BY <1>1, MapFacts DEF MapValueOK, Collection!TypeOK
    <3>2. QED
      BY <1>1, <2>1, <3>1 DEF MapFindable
  <2>2. QED
    BY <1>1, <2>1 DEF MapFindable
<1>7. QED
  BY <1>2, <1>3, <1>4, <1>5, <1>6

LEMMA MapNextInv == MapIInv /\ [Collection!Next]_(Collection!vars) => MapIInv'
<1> SUFFICES ASSUME MapIInv, [Collection!Next]_(Collection!vars) PROVE MapIInv'
  OBVIOUS
<1>1. CASE Collection!ClientNext /\ UNCHANGED Collection!collection
  BY <1>1, MapCallInv, MapHoldsInv, MapReturnInv DEF Collection!ClientNext
<1>2. ASSUME NEW o \in Collection!Objects, Collection!ExpireUnkept(o)
      PROVE  MapIInv'
  BY <1>2, MapExpireInv
<1>3. ASSUME NEW t \in Threads,
             \/ Collection!Lookup(t) \/ Collection!Entry(t) \/ Collection!Search(t)
                \/ Collection!WriteLock(t) \/ Collection!Recheck(t)
             \/ Collection!CreateForMap(t) \/ Collection!Insert(t) \/ Collection!InsertLoses(t)
      PROVE  MapIInv'
  BY <1>3, MapLookupInv, MapCreateInv, MapInsertInv, MapLosesInv
<1>4. ASSUME NEW S \in SUBSET Values, Collection!Reset(S)
      PROVE  MapIInv'
  BY <1>4, MapResetInv
<1>5. CASE UNCHANGED Collection!vars
  BY <1>5 DEF Collection!vars, Collection!client, Collection!objects, Collection!call,
       Collection!collection, MapIInv, Collection!TypeOK, Collection!ClientTypeOK, MapThreadOK,
              MapCallOK, MapLockOK, MapPendingOK, MapExcludes, MapCreating, Collection!Has,
              MapValueOK, MapKnown, MapFindable
<1>6. QED
  BY <1>1, <1>2, <1>3, <1>4, <1>5 DEF Collection!Next
LEMMA MapFindableRetains == MapIInv => Collection!Retained
  BY DEF MapIInv, MapFindable, Collection!Retained

-----------------------------------------------------------------------------
(***************************************************************************)
(* The refinement of Interning.                                            *)
(***************************************************************************)
MapOpen == {"lookup", "entry", "search", "lock", "recheck", "create"}

(* What the table knows is stored, and what a caller holds is alive.       *)
LEMMA MapAbstraction ==
  ASSUME MapIInv
  PROVE  /\ \A o \in known : o \in Collection!Objects /\ Collection!ValueStored[o] = value[o]
         /\ \A o : Collection!Table!Held(o) => o \in alive \/ o = NoObject
<1> USE DEF MapIInv
<1>1. \A o \in known : o \in Collection!Objects /\ ~Collection!Pending(o) /\ o \notin lost
  BY MapFacts DEF Collection!TypeOK, MapThreadOK, MapPendingOK, Collection!Pending
<1>2. \A o \in known : Collection!ValueStored[o] = value[o]
  BY <1>1 DEF Collection!ValueStored
<1>3. \A o : Collection!Table!Held(o) => o \in alive \/ o = NoObject
  BY DEF Collection!TypeOK, Collection!ClientTypeOK, Collection!Table!Held, Collection!Got
<1>4. QED
  BY <1>1, <1>2, <1>3

(* A lookup of v can only answer with the object the map has for v.        *)
LEMMA MapCanonicalInMap ==
  ASSUME MapIInv, NEW v
  PROVE  /\ Collection!Table!Canonical(v) \subseteq {map[v]}
         /\ ~Collection!Has(v) => Collection!Table!Canonical(v) = {}
<1>1. ASSUME NEW o \in Collection!Table!Canonical(v)
      PROVE  o = map[v] /\ Collection!Has(v)
  <2>1. o \in known /\ value[o] = v /\ o \in alive /\ o # NoObject
    BY <1>1, MapAbstraction, MapFacts DEF Collection!Table!Canonical
  <2>2. map[v] = o
    BY <2>1 DEF MapIInv, MapFindable
  <2>3. QED
    BY <2>1, <2>2 DEF Collection!Has
<1>2. QED
  BY <1>1

LEMMA MapRefineInit == Collection!Init => Collection!Table!Init
<1> SUFFICES ASSUME Collection!Init PROVE Collection!Table!Init
  OBVIOUS
<1>1. Collection!Reclaimed = {}
  BY DEF Collection!Init, Collection!ClientInit, Collection!Reclaimed
<1>2. Collection!ValueStored = [o \in Collection!Objects |-> NoValue]
  BY DEF Collection!Init, Collection!ClientInit, Collection!ValueStored
<1>3. Collection!Stage = [t \in Threads |-> "idle"]
      /\ Collection!Got = [t \in Threads |-> NoObject]
  BY DEF Collection!Init, Collection!ClientInit, Collection!Stage, Collection!Got
<1>4. QED
  BY <1>1, <1>2, <1>3 DEF Collection!Init, Collection!ClientInit, Collection!Table!Init

(* A step that inserts nothing leaves the contents as they are.            *)
LEMMA MapSameValues ==
  ASSUME UNCHANGED <<value, lost>>,
         \A t \in Threads :
            \/ pc'[t] = pc[t] /\ temp'[t] = temp[t]
            \/ pc[t] # "insert" /\ pc'[t] # "insert"
  PROVE  UNCHANGED Collection!ValueStored
<1>1. \A o \in Collection!Objects : Collection!Pending(o)' <=> Collection!Pending(o)
  BY DEF Collection!Pending
<1>2. QED
  BY <1>1 DEF Collection!ValueStored

(* A step inside a call without effect for callers.                        *)
LEMMA MapStutter ==
  ASSUME NEW t \in Threads, MapIInv,
         UNCHANGED <<arg, op, holds, value, alive, made, known, lost, temp>>,
         pc' = [pc EXCEPT ![t] = pc'[t]],
         pc[t] \in MapOpen, pc'[t] \in MapOpen
  PROVE  UNCHANGED Collection!Table!vars
<1>1. \A u \in Threads \ {t} : pc'[u] = pc[u]
  BY DEF MapIInv, Collection!TypeOK
<1>2. UNCHANGED Collection!ValueStored
  BY <1>1, MapSameValues DEF MapOpen
<1>3. UNCHANGED <<Collection!Stage, Collection!Got>>
  BY <1>1 DEF Collection!Stage, Collection!Got, MapOpen
<1>4. QED
  BY <1>2, <1>3 DEF Collection!Table!vars, Collection!Reclaimed

LEMMA MapRefineStutter ==
  ASSUME MapIInv, NEW t \in Threads,
         \/ Collection!Lookup(t) /\ ~Collection!Has(arg[t]) /\ op[t] # "get"
         \/ (Collection!Entry(t) \/ Collection!Search(t) \/ Collection!Recheck(t))
            /\ ~Collection!Has(arg[t])
         \/ Collection!WriteLock(t)
  PROVE  UNCHANGED Collection!Table!vars
<1> USE DEF Collection!Goto, Collection!objects, Collection!call, Collection!collection,
            MapIInv, Collection!TypeOK, MapOpen
<1>1. CASE Collection!Lookup(t) /\ ~Collection!Has(arg[t]) /\ op[t] # "get"
  <2>1. Collection!AfterMiss \in MapOpen
    BY DEF Collection!AfterMiss
  <2>2. QED
    BY <1>1, <2>1, MapStutter DEF Collection!Lookup
<1>2. CASE Collection!Entry(t) /\ ~Collection!Has(arg[t])
  BY <1>2, MapStutter DEF Collection!Entry
<1>3. CASE Collection!Search(t) /\ ~Collection!Has(arg[t])
  BY <1>3, MapStutter DEF Collection!Search
<1>4. CASE Collection!Recheck(t) /\ ~Collection!Has(arg[t])
  BY <1>4, MapStutter DEF Collection!Recheck
<1>5. CASE Collection!WriteLock(t)
  BY <1>5, MapStutter DEF Collection!WriteLock
<1>6. QED
  BY <1>1, <1>2, <1>3, <1>4, <1>5

LEMMA MapRefineCreate ==
  ASSUME MapIInv, NEW t \in Threads, Collection!CreateForMap(t)
  PROVE  UNCHANGED Collection!Table!vars
<1> USE DEF MapIInv, Collection!TypeOK, Collection!ClientTypeOK
<1>0. PICK n \in Collection!Objects : n = made + 1
  <2>1. made \in Nat /\ MaxObjects \in Nat /\ made < MaxObjects
    BY ClientAssumption DEF Objects, Collection!CreateForMap, Collection!Create
  <2>2. QED
    BY <2>1 DEF Collection!Objects
<1>1. /\ pc[t] = "create" /\ pc' = [pc EXCEPT ![t] = "insert"]
      /\ temp' = [temp EXCEPT ![t] = n] /\ value' = [value EXCEPT ![n] = arg[t]]
      /\ alive' = alive \cup {n} /\ made' = n /\ made < MaxObjects
      /\ UNCHANGED <<arg, op, holds, known, lost>>
  BY <1>0 DEF Collection!CreateForMap, Collection!Create, Collection!Goto, Collection!call,
       Collection!collection
<1>2. /\ n \in Collection!Objects /\ n # NoObject /\ made \in Nat
      /\ n \notin alive
      /\ 1 .. n = 1 .. made \cup {n} /\ n \notin 1 .. made
  <2>1. made \in Nat /\ MaxObjects \in Nat
    BY ClientAssumption
  <2>2. QED
    BY <1>0, <1>1, <2>1, MapFacts
<1>3. \A u \in Threads :
        /\ pc'[u] = IF u = t THEN "insert" ELSE pc[u]
        /\ temp'[u] = IF u = t THEN n ELSE temp[u]
        /\ temp[u] # n
  BY <1>1, <1>2
<1>4. value[n] = NoValue
  BY <1>2 DEF MapValueOK
<1>5. \A o \in Collection!Objects \ {n} : Collection!Pending(o)' <=> Collection!Pending(o)
  BY <1>1, <1>3 DEF Collection!Pending
<1>6. Collection!Pending(n)'
  <2>1. temp'[t] = n /\ pc'[t] = "insert"
    BY <1>3
  <2>2. QED
    BY <2>1 DEF Collection!Pending
<1>7. UNCHANGED Collection!ValueStored
  <2>1. \A o \in Collection!Objects \ {n} : value'[o] = value[o]
    BY <1>1
  <2>2. ASSUME NEW o \in Collection!Objects
        PROVE  Collection!ValueStored'[o] = Collection!ValueStored[o]
    <3>1. CASE o = n
      BY <1>4, <1>6, <3>1 DEF Collection!ValueStored
    <3>2. CASE o # n
      BY <1>1, <1>5, <2>1, <3>2 DEF Collection!ValueStored
    <3>3. QED
      BY <3>1, <3>2
  <2>3. QED
    BY <2>2 DEF Collection!ValueStored
<1>8. UNCHANGED <<Collection!Stage, Collection!Got>>
  BY <1>1, <1>3 DEF Collection!Stage, Collection!Got
<1>9. UNCHANGED Collection!Reclaimed
  BY <1>1, <1>2 DEF Collection!Reclaimed
<1>10. QED
  BY <1>1, <1>7, <1>8, <1>9 DEF Collection!Table!vars

(* A call that finds an object in the map.                                 *)
LEMMA MapRefineFind ==
  ASSUME MapIInv, NEW t \in Threads, Collection!Has(arg[t]),
         Collection!Lookup(t) \/ Collection!Entry(t) \/ Collection!Search(t)
         \/ Collection!Recheck(t)
  PROVE  Collection!Table!Find(t, map[arg[t]]) /\ map[arg[t]] \in Collection!Objects
<1> DEFINE o == map[arg[t]]
<1>1. /\ pc[t] \in MapOpen /\ arg[t] \in Values
      /\ pc' = [pc EXCEPT ![t] = "done"] /\ temp' = [temp EXCEPT ![t] = o]
      /\ UNCHANGED <<arg, op, holds, value, alive, made, known, lost>>
  <2> USE DEF Collection!Answer, Collection!Goto, Collection!objects, Collection!call,
              Collection!collection, MapOpen, MapIInv, MapThreadOK, MapCallOK
  <2>1. CASE Collection!Lookup(t)
    BY <2>1 DEF Collection!Lookup
  <2>2. CASE Collection!Entry(t)
    BY <2>2 DEF Collection!Entry
  <2>3. CASE Collection!Search(t)
    BY <2>3 DEF Collection!Search
  <2>4. CASE Collection!Recheck(t)
    BY <2>4 DEF Collection!Recheck
  <2>5. QED
    BY <2>1, <2>2, <2>3, <2>4
<1> USE DEF MapIInv, Collection!TypeOK, Collection!ClientTypeOK
<1>2. o \in known /\ o \in alive /\ value[o] = arg[t]
  BY <1>1, MapNotPending
<1>3. \A u \in Threads :
        /\ pc'[u] = IF u = t THEN "done" ELSE pc[u]
        /\ temp'[u] = IF u = t THEN o ELSE temp[u]
  BY <1>1
<1>4. UNCHANGED <<Collection!ValueStored, Collection!Reclaimed>>
  BY <1>1, <1>3, MapSameValues DEF Collection!Reclaimed, MapOpen
<1>5. Collection!Stage[t] \in {"get", "get_or_insert"}
      /\ Collection!Stage' = [Collection!Stage EXCEPT ![t] = "done"]
  BY <1>1, <1>3 DEF Collection!Stage, MapOpen
<1>6. Collection!Got' = [Collection!Got EXCEPT ![t] = o]
  BY <1>1, <1>3 DEF Collection!Got
<1>7. Collection!ValueStored[o] = arg[t] /\ o \in known \ Collection!Reclaimed
      /\ o \in Collection!Objects
  BY <1>2, MapAbstraction DEF Collection!Reclaimed
<1>8. QED
  BY <1>1, <1>4, <1>5, <1>6, <1>7, MapCanonicalInMap DEF Collection!Table!Find

(* The call whose insertion loses finds the winner.                        *)
LEMMA MapRefineLoses ==
  ASSUME MapIInv, NEW t \in Threads, Collection!InsertLoses(t)
  PROVE  Collection!Table!Find(t, map[arg[t]]) /\ map[arg[t]] \in Collection!Objects
<1> USE DEF MapIInv, Collection!TypeOK, Collection!ClientTypeOK
<1> DEFINE o == map[arg[t]]
<1>1. \A u \in Threads :
        /\ pc'[u] = IF u = t THEN "done" ELSE pc[u]
        /\ temp'[u] = IF u = t THEN o ELSE temp[u]
  BY MapLosesFacts
<1>2. UNCHANGED Collection!ValueStored
  <2>1. \A p \in Collection!Objects : p # temp[t]
        => (Collection!Pending(p)' <=> Collection!Pending(p))
    BY <1>1, MapLosesFacts DEF Collection!Pending
  <2>2. Collection!Pending(temp[t])
    BY MapLosesFacts DEF Collection!Pending
  <2>3. \A p \in Collection!Objects :
          (Collection!Pending(p)' \/ p \in lost') <=> (Collection!Pending(p) \/ p \in lost)
    BY MapLosesFacts, <2>1, <2>2
  <2>4. QED
    BY MapLosesFacts, <2>3 DEF Collection!ValueStored
<1>3. UNCHANGED Collection!Reclaimed
  BY MapLosesFacts DEF Collection!Reclaimed
<1>4. Collection!Stage[t] \in {"get", "get_or_insert"}
      /\ Collection!Stage' = [Collection!Stage EXCEPT ![t] = "done"]
  <2>1. pc[t] = "insert" /\ op[t] = "get_or_insert" /\ op' = op
    BY MapLosesFacts
  <2>2. QED
    BY <1>1, <2>1 DEF Collection!Stage
<1>5. Collection!Got' = [Collection!Got EXCEPT ![t] = o]
  BY <1>1 DEF Collection!Got
<1>6. Collection!ValueStored[o] = arg[t] /\ o \in known \ Collection!Reclaimed
      /\ o \in Collection!Objects
  BY MapLosesFacts, MapAbstraction DEF Collection!Reclaimed
<1>7. QED
  BY MapLosesFacts, <1>2, <1>3, <1>4, <1>5, <1>6, MapCanonicalInMap DEF Collection!Table!Find

(* A get that finds nothing.                                               *)
LEMMA MapRefineMiss ==
  ASSUME MapIInv, NEW t \in Threads, Collection!Lookup(t), ~Collection!Has(arg[t]), op[t] = "get"
  PROVE  Collection!Table!Miss(t)
<1> USE DEF MapIInv, Collection!TypeOK, Collection!ClientTypeOK
<1>1. /\ pc[t] = "lookup" /\ pc' = [pc EXCEPT ![t] = "done"]
      /\ temp' = [temp EXCEPT ![t] = NoObject]
      /\ UNCHANGED <<arg, op, holds, value, alive, made, known, lost>>
  BY DEF Collection!Lookup, Collection!Answer, Collection!Goto, Collection!call,
       Collection!objects, Collection!collection
<1>2. \A u \in Threads :
        /\ pc'[u] = IF u = t THEN "done" ELSE pc[u]
        /\ temp'[u] = IF u = t THEN NoObject ELSE temp[u]
  BY <1>1
<1>3. UNCHANGED <<Collection!ValueStored, Collection!Reclaimed>>
  BY <1>1, <1>2, MapSameValues DEF Collection!Reclaimed
<1>4. Collection!Stage[t] = "get" /\ Collection!Stage' = [Collection!Stage EXCEPT ![t] = "done"]
  BY <1>1, <1>2 DEF Collection!Stage
<1>5. UNCHANGED Collection!Got
  BY <1>1, <1>2 DEF Collection!Got
<1>6. QED
  BY <1>1, <1>3, <1>4, <1>5, MapCanonicalInMap DEF Collection!Table!Miss

(* The insertion is where a created object appears.                        *)
LEMMA MapRefineInsert ==
  ASSUME MapIInv, NEW t \in Threads, Collection!Insert(t)
  PROVE  Collection!Table!Create(t, temp[t]) /\ temp[t] \in Collection!Objects
<1> USE DEF MapIInv, Collection!TypeOK, Collection!ClientTypeOK
<1> DEFINE o == temp[t]
<1>1. \A u \in Threads : pc'[u] = IF u = t THEN "done" ELSE pc[u]
  BY MapInsertFacts
<1>2. o \in Collection!Objects /\ \A u \in Threads : pc[u] = "insert" /\ u # t => temp[u] # o
  BY MapInsertFacts, MapFacts DEF MapThreadOK, MapPendingOK
<1>3. Collection!ValueStored[o] = NoValue
  BY <1>2, MapInsertFacts DEF Collection!ValueStored, Collection!Pending
<1>4. Collection!ValueStored' = [Collection!ValueStored EXCEPT ![o] = arg[t]]
  <2>1. \A p \in Collection!Objects \ {o} : Collection!Pending(p)' <=> Collection!Pending(p)
    BY <1>1, MapInsertFacts DEF Collection!Pending
  <2>2. ~Collection!Pending(o)'
    BY <1>1, <1>2, MapInsertFacts DEF Collection!Pending
  <2>3. \A p \in Collection!Objects : Collection!ValueStored'[p] = IF p = o THEN arg[t] ELSE Collection!ValueStored[p]
    BY <2>1, <2>2, MapInsertFacts DEF Collection!ValueStored
  <2>4. QED
    BY <1>2, <2>3 DEF Collection!ValueStored
<1>5. Collection!Stage[t] = "get_or_insert"
      /\ Collection!Stage' = [Collection!Stage EXCEPT ![t] = "done"]
  <2>1. pc[t] = "insert" /\ op[t] = "get_or_insert" /\ op' = op
    BY MapInsertFacts
  <2>2. pc'[t] = "done" /\ \A u \in Threads : u # t => pc'[u] = pc[u]
    BY <1>1
  <2>3. QED
    BY ONLY t \in Threads, <2>1, <2>2 DEF Collection!Stage
<1>6. Collection!Got' = [Collection!Got EXCEPT ![t] = o]
  BY <1>1, MapInsertFacts DEF Collection!Got
<1>7. UNCHANGED Collection!Reclaimed
  BY MapInsertFacts DEF Collection!Reclaimed
<1>8. QED
  BY MapInsertFacts, <1>2, <1>3, <1>4, <1>5, <1>6, <1>7, MapCanonicalInMap
     DEF Collection!Table!Create

LEMMA MapRefineReturn ==
  ASSUME MapIInv, UNCHANGED Collection!collection, NEW t \in Threads, Collection!Return(t)
  PROVE  Collection!Table!Return(t)
<1> USE DEF MapIInv, Collection!TypeOK, Collection!ClientTypeOK
<1>1. /\ pc[t] = "done" /\ pc' = [pc EXCEPT ![t] = "idle"]
      /\ temp' = [temp EXCEPT ![t] = NoObject]
      /\ op' = [op EXCEPT ![t] = "get"] /\ arg' = [arg EXCEPT ![t] = NoValue]
      /\ holds' = [holds EXCEPT ![t] = @ \cup ({temp[t]} \ {NoObject})]
      /\ UNCHANGED <<value, alive, made, known, lost>>
  BY DEF Collection!Return, Collection!Goto, Collection!objects, Collection!collection
<1>2. \A u \in Threads :
        /\ pc'[u] = IF u = t THEN "idle" ELSE pc[u]
        /\ temp'[u] = IF u = t THEN NoObject ELSE temp[u]
        /\ op'[u] = IF u = t THEN "get" ELSE op[u]
  BY <1>1
<1>3. UNCHANGED <<Collection!ValueStored, Collection!Reclaimed>>
  BY <1>1, <1>2, MapSameValues DEF Collection!Reclaimed
<1>4. Collection!Stage[t] = "done" /\ Collection!Stage' = [Collection!Stage EXCEPT ![t] = "idle"]
  BY <1>1, <1>2 DEF Collection!Stage
<1>5. Collection!Got[t] = temp[t] /\ Collection!Got' = [Collection!Got EXCEPT ![t] = NoObject]
  BY <1>1, <1>2 DEF Collection!Got
<1>6. QED
  BY <1>1, <1>3, <1>4, <1>5 DEF Collection!Table!Return

LEMMA MapRefineCall ==
  ASSUME MapIInv, UNCHANGED Collection!collection,
         NEW t \in Threads, NEW o \in {"get", "get_or_insert"}, NEW v \in Values,
         Collection!Call(t, o, v)
  PROVE  Collection!Table!Call(t, o, v)
<1> USE DEF MapIInv, Collection!TypeOK, Collection!ClientTypeOK
<1>1. /\ pc[t] = "idle" /\ pc' = [pc EXCEPT ![t] = "lookup"]
      /\ op' = [op EXCEPT ![t] = o] /\ arg' = [arg EXCEPT ![t] = v]
      /\ UNCHANGED <<temp, holds, value, alive, made, known, lost>>
  BY DEF Collection!Call, Collection!Goto, Collection!objects, Collection!collection
<1>2. \A u \in Threads :
        /\ pc'[u] = IF u = t THEN "lookup" ELSE pc[u]
        /\ op'[u] = IF u = t THEN o ELSE op[u]
  BY <1>1
<1>3. UNCHANGED <<Collection!ValueStored, Collection!Reclaimed>>
  BY <1>1, <1>2, MapSameValues DEF Collection!Reclaimed
<1>4. Collection!Stage[t] = "idle" /\ Collection!Stage' = [Collection!Stage EXCEPT ![t] = o]
  BY <1>1, <1>2 DEF Collection!Stage
<1>5. UNCHANGED Collection!Got
  BY <1>1, <1>2 DEF Collection!Got
<1>6. QED
  BY <1>1, <1>3, <1>4, <1>5 DEF Collection!Table!Call

(* Clone and Drop leave everything but `holds' alone.                      *)
LEMMA MapRefineHolds ==
  ASSUME MapIInv, UNCHANGED Collection!collection, NEW t \in Threads, NEW o \in Collection!Objects
  PROVE  /\ \A q \in Threads : Collection!Clone(t, q, o) => Collection!Table!Clone(t, q, o)
         /\ Collection!Drop(t, o) => Collection!Table!Drop(t, o)
<1>1. ASSUME UNCHANGED <<pc, op, temp, value, alive, made, lost>>
      PROVE  UNCHANGED <<Collection!Stage, Collection!Got, Collection!ValueStored,
             Collection!Reclaimed>>
  BY <1>1 DEF Collection!Stage, Collection!Got, Collection!ValueStored, Collection!Pending,
       Collection!Reclaimed
<1>2. QED
  BY <1>1 DEF Collection!Clone, Collection!Drop, Collection!Table!Clone, Collection!Table!Drop,
       Collection!call, Collection!objects, Collection!collection

(* The object that lost the race never existed for the callers.            *)
LEMMA MapRefineExpire ==
  ASSUME MapIInv, NEW o \in Collection!Objects, Collection!ExpireUnkept(o)
  PROVE  Collection!Table!Reclaim(o) \/ UNCHANGED Collection!Table!vars
<1> USE DEF MapIInv, Collection!TypeOK, Collection!ClientTypeOK
<1>1. /\ o \in alive /\ alive' = alive \ {o} /\ Collection!NoStrong(o)
      /\ UNCHANGED <<pc, op, arg, temp, holds, value, made, known, lost>>
  BY DEF Collection!ExpireUnkept, Collection!Expire, Collection!call, Collection!collection
<1>2. UNCHANGED <<Collection!Stage, Collection!Got, Collection!ValueStored>>
  BY <1>1 DEF Collection!Stage, Collection!Got, Collection!ValueStored, Collection!Pending
<1>3. CASE o \in lost
  <2>1. UNCHANGED Collection!Reclaimed
    BY <1>1, <1>3 DEF Collection!Reclaimed
  <2>2. QED
    BY <1>1, <1>2, <2>1 DEF Collection!Table!vars
<1>4. CASE o \notin lost
  <2>1. ~Collection!Table!Held(o)
    BY <1>1, MapFacts DEF Collection!NoStrong, Collection!Table!Held, Collection!Got
  <2>2. Collection!ValueStored[o] # NoValue
    <3>1. o <= made /\ NoValue \notin Values
      BY <1>1, MapFacts
    <3>2. QED
      BY <1>1, <1>4, <3>1 DEF Collection!ValueStored, Collection!Pending, Collection!NoStrong,
           MapValueOK
  <2>3. Collection!Reclaimed' = Collection!Reclaimed \cup {o}
    BY <1>1, <1>4 DEF Collection!Reclaimed
  <2>4. QED
    BY <1>1, <1>2, <2>1, <2>2, <2>3 DEF Collection!Table!Reclaim
<1>5. QED
  BY <1>3, <1>4

LEMMA MapRefineReset ==
  ASSUME MapIInv, NEW S \in SUBSET Values, Collection!Reset(S)
  PROVE  \E F \in SUBSET known : Collection!Table!Forget(F)
<1>1. /\ known' \subseteq known
      /\ UNCHANGED <<pc, op, arg, temp, holds, value, alive, made, lost>>
  BY DEF Collection!Reset, Collection!client, Collection!call, Collection!objects
<1>2. known' = known \ (known \ known')
  BY <1>1
<1>3. UNCHANGED <<Collection!Stage, Collection!Got, Collection!ValueStored, Collection!Reclaimed>>
  BY <1>1 DEF Collection!Stage, Collection!Got, Collection!ValueStored, Collection!Pending,
       Collection!Reclaimed
<1>4. Collection!Table!Forget(known \ known')
  BY <1>1, <1>2, <1>3 DEF Collection!Table!Forget
<1>5. QED
  BY <1>4

LEMMA MapRefineNext == MapIInv /\ [Collection!Next]_(Collection!vars)
    => [Collection!Table!Next]_(Collection!Table!vars)
<1> SUFFICES ASSUME MapIInv, [Collection!Next]_(Collection!vars)
                    PROVE [Collection!Table!Next]_(Collection!Table!vars)
  OBVIOUS
<1>1. ASSUME NEW t \in Threads,
             Collection!Lookup(t) \/ Collection!Entry(t) \/ Collection!Search(t)
             \/ Collection!WriteLock(t) \/ Collection!Recheck(t)
      PROVE  [Collection!Table!Next]_(Collection!Table!vars)
  <2>1. CASE Collection!Has(arg[t]) /\ ~Collection!WriteLock(t)
    BY <1>1, <2>1, MapRefineFind DEF Collection!Table!Next
  <2>2. CASE Collection!Lookup(t) /\ ~Collection!Has(arg[t]) /\ op[t] = "get"
    BY <2>2, MapRefineMiss DEF Collection!Table!Next
  <2>3. QED
    BY <1>1, <2>1, <2>2, MapRefineStutter
<1>2. ASSUME NEW t \in Threads, Collection!CreateForMap(t) \/ Collection!Insert(t)
             \/ Collection!InsertLoses(t)
      PROVE  [Collection!Table!Next]_(Collection!Table!vars)
  BY <1>2, MapRefineCreate, MapRefineInsert, MapRefineLoses DEF Collection!Table!Next
<1>3. CASE Collection!ClientNext /\ UNCHANGED Collection!collection
  BY <1>3, MapRefineCall, MapRefineReturn, MapRefineHolds DEF Collection!ClientNext,
       Collection!Table!Next
<1>4. ASSUME NEW o \in Collection!Objects, Collection!ExpireUnkept(o)
      PROVE  [Collection!Table!Next]_(Collection!Table!vars)
  BY <1>4, MapRefineExpire DEF Collection!Table!Next
<1>5. ASSUME NEW S \in SUBSET Values, Collection!Reset(S)
      PROVE  [Collection!Table!Next]_(Collection!Table!vars)
  BY <1>5, MapRefineReset DEF Collection!Table!Next
<1>6. CASE UNCHANGED Collection!vars
  BY <1>6 DEF Collection!vars, Collection!client, Collection!objects, Collection!call,
       Collection!collection, Collection!Table!vars, Collection!Stage, Collection!Got,
       Collection!ValueStored,
              Collection!Pending, Collection!Reclaimed
<1>7. QED
  BY <1>1, <1>2, <1>3, <1>4, <1>5, <1>6 DEF Collection!Next

-----------------------------------------------------------------------------
(***************************************************************************)
(* The sorted vector: a position of the run of a hash and the order of the *)
(* vector are all a scan needs (VecIdxOK): what it has passed does not     *)
(* match (VecScanOK), and it stops where the hash changes.  Objects only   *)
(* expire meanwhile, so an object is inserted only if no live one has its  *)
(* content (VecUnique).                                                    *)
(***************************************************************************)
VecPCs == {"idle", "lookup", "up", "down", "create", "insert", "done"}
VecInside(t) == pc[t] \in {"up", "down", "create", "insert"}

VecCallOK(t) ==
  /\ pc[t] # "idle" => arg[t] \in Values
  /\ pc[t] \notin {"insert", "done"} => temp[t] = NoObject
  /\ pc[t] \in {"create", "insert"} => op[t] = "get_or_insert"
  /\ VecInside(t) => lock = t

(* Where the search of a call began, or was never.                         *)
VecIdxOK(t) ==
  IF VecInside(t)
  THEN \A i \in DOMAIN vec :
         /\ i < idx[t] => Sorted!EntryHash(i) <= Sorted!Hash(t)
         /\ i >= idx[t] => Sorted!Hash(t) <= Sorted!EntryHash(i)
  ELSE idx[t] = 1 /\ pos[t] = 0

VecMatch(i, t) == vec[i] \in alive /\ value[vec[i]] = arg[t]

(* What a scan has passed.                                                 *)
VecScanOK(t) ==
  /\ pc[t] = "up" =>
        /\ idx[t] <= pos[t]
        /\ \A i \in DOMAIN vec : idx[t] <= i /\ i < pos[t] => ~VecMatch(i, t)
  /\ pc[t] = "down" =>
        /\ pos[t] < idx[t]
        /\ \A i \in DOMAIN vec : pos[t] < i => ~VecMatch(i, t)
  /\ pc[t] \in {"create", "insert"} => \A i \in DOMAIN vec : ~VecMatch(i, t)

(* A new object is its creator's alone.                                    *)
VecPendingOK(t) ==
  pc[t] = "insert" =>
    /\ temp[t] \in alive
    /\ value[temp[t]] = arg[t]
    /\ temp[t] \notin Sorted!Known
    /\ \A u \in Threads : temp[t] \notin holds[u] /\ (u # t => temp[u] # temp[t])

VecThreadOK(t) == VecCallOK(t) /\ VecIdxOK(t) /\ VecScanOK(t) /\ VecPendingOK(t)

VecValueOK == \A o \in Sorted!Objects : value[o] \in Values <=> o <= made
VecOrdered == \A i, j \in DOMAIN vec : i <= j => Sorted!EntryHash(i) <= Sorted!EntryHash(j)
VecUnique ==
  \A i, j \in DOMAIN vec :
     vec[i] \in alive /\ vec[j] \in alive /\ value[vec[i]] = value[vec[j]] => i = j

VecIInv == Sorted!TypeOK /\ (\A t \in Threads : VecThreadOK(t)) /\ VecValueOK /\ VecOrdered
/\ VecUnique

(* What the constants say, and the objects there are.                      *)
LEMMA VecFacts ==
  ASSUME VecIInv
  PROVE  /\ NoThread \notin Threads /\ NoValue \notin Values /\ NoObject \notin Sorted!Objects
         /\ made \in Nat /\ 1 .. made \subseteq Sorted!Objects
         /\ alive \subseteq 1 .. made /\ Sorted!Known \subseteq 1 .. made
         /\ \A o \in Sorted!Objects : o <= made <=> o \in 1 .. made
         /\ Len(vec) \in Nat /\ DOMAIN vec = 1 .. Len(vec)
BY ClientAssumption DEF Objects, VecIInv, Sorted!TypeOK, Sorted!ClientTypeOK, Sorted!Objects,
     Sorted!Known

(* Entries have contents, and contents hashes.                             *)
LEMMA VecEntries ==
  ASSUME VecIInv
  PROVE  /\ \A v \in Values : HashOf[v] \in Nat
         /\ \A i \in DOMAIN vec :
              vec[i] \in Sorted!Known /\ value[vec[i]] \in Values /\ Sorted!EntryHash(i) \in Nat
<1>1. \A v \in Values : HashOf[v] \in Nat
  BY ClientAssumption
<1>2. ASSUME NEW i \in DOMAIN vec
      PROVE  vec[i] \in Sorted!Known /\ value[vec[i]] \in Values
  <2>1. vec[i] \in Sorted!Known
    BY DEF Sorted!Known
  <2>2. vec[i] \in Sorted!Objects /\ vec[i] <= made
    BY <2>1, VecFacts
  <2>3. QED
    BY <2>1, <2>2 DEF VecIInv, VecValueOK
<1>3. QED
  BY <1>1, <1>2 DEF Sorted!EntryHash

(* A set of positions closed under smaller ones is an initial segment.     *)
LEMMA VecSegment ==
  ASSUME NEW n \in Nat, NEW S \in SUBSET (1 .. n),
         \A i \in S, j \in 1 .. n : j <= i => j \in S
  PROVE  /\ Cardinality(S) \in Nat /\ Cardinality(S) <= n
         /\ S = 1 .. Cardinality(S)
<1> DEFINE k == Cardinality(S)
<1>1. IsFiniteSet(1 .. n) /\ Cardinality(1 .. n) = n
  BY FS_Interval
<1>2. IsFiniteSet(S) /\ k \in Nat /\ k <= n
  BY <1>1, FS_Subset, FS_CardinalityType
<1>3. IsFiniteSet(1 .. k) /\ Cardinality(1 .. k) = k
  BY <1>2, FS_Interval
<1>4. ASSUME NEW i \in S
      PROVE  i \in 1 .. k
  <2>1. 1 .. i \in SUBSET S
    OBVIOUS
  <2>2. Cardinality(1 .. i) = i
    BY FS_Interval
  <2>3. i <= k
    BY <1>2, <2>1, <2>2, FS_Subset
  <2>4. QED
    BY <1>2, <2>3
<1>5. S = 1 .. k
  BY <1>2, <1>3, <1>4, FS_Subset
<1>6. QED
  BY <1>2, <1>5

(* Whatever position a binary search answers with, smaller hashes lie      *)
(* below it and larger ones do not.                                        *)
LEMMA VecSearchFacts ==
  ASSUME VecIInv, NEW h \in Nat, NEW i \in Sorted!BinarySearch(h)
  PROVE  /\ i \in 1 .. Len(vec) + 1
         /\ \A j \in DOMAIN vec :
              /\ j < i => Sorted!EntryHash(j) <= h
              /\ j >= i => h <= Sorted!EntryHash(j)
<1>1. CASE Sorted!Run(h) # {}
  BY <1>1, VecFacts, VecEntries DEF Sorted!BinarySearch, Sorted!Run, VecIInv, VecOrdered
<1>2. CASE Sorted!Run(h) = {}
  <2> DEFINE S == {j \in DOMAIN vec : Sorted!EntryHash(j) < h}
  <2>1. i = Cardinality(S) + 1
    BY <1>2 DEF Sorted!BinarySearch, Sorted!InsertionPoint, Sorted!Cardinality, Cardinality
  <2>2. S \in SUBSET (1 .. Len(vec))
    BY VecFacts
  <2>3. \A j \in S, l \in 1 .. Len(vec) : l <= j => l \in S
    BY VecFacts, VecEntries DEF VecIInv, VecOrdered
  <2> HIDE DEF S
  <2>4. Cardinality(S) \in Nat /\ Cardinality(S) <= Len(vec) /\ S = 1 .. Cardinality(S)
    BY <2>2, <2>3, VecFacts, VecSegment
  <2>5. \A j \in DOMAIN vec : j < i <=> j \in S
    BY <2>1, <2>4, VecFacts
  <2>6. \A j \in DOMAIN vec : j \in S <=> Sorted!EntryHash(j) < h
    BY DEF S
  <2>7. QED
    BY <2>1, <2>4, <2>5, <2>6, VecFacts, VecEntries
<1>3. QED
  BY <1>1, <1>2

LEMMA VecInitInv == Sorted!Init => VecIInv
<1> SUFFICES ASSUME Sorted!Init PROVE VecIInv
  OBVIOUS
<1> USE DEF Sorted!Init, Sorted!ClientInit
<1>1. Sorted!TypeOK
  BY ClientAssumption DEF Objects, Sorted!TypeOK, Sorted!ClientTypeOK
<1>2. \A t \in Threads : VecThreadOK(t)
  BY DEF VecThreadOK, VecCallOK, VecIdxOK, VecScanOK, VecPendingOK, VecInside
<1>3. VecValueOK
  BY ClientAssumption DEF Objects, VecValueOK, Sorted!Objects
<1>4. VecOrdered /\ VecUnique
  BY DEF VecOrdered, VecUnique
<1>5. QED
  BY <1>1, <1>2, <1>3, <1>4 DEF VecIInv
-----------------------------------------------------------------------------
(* Handles, calls and returns.                                             *)
LEMMA VecCallInv ==
  ASSUME VecIInv, UNCHANGED Sorted!vector,
         NEW t \in Threads, NEW o \in {"get", "get_or_insert"}, NEW v \in Values, Sorted!Call(t,
         o, v)
  PROVE  VecIInv'
<1> USE DEF Sorted!Call, Sorted!Goto, Sorted!objects, Sorted!vector
<1>1. Sorted!TypeOK'
  BY DEF VecIInv, Sorted!TypeOK, Sorted!ClientTypeOK
<1>2. ASSUME NEW u \in Threads
      PROVE  VecThreadOK(u)'
  <2>1. CASE u = t
    BY <2>1 DEF VecIInv, Sorted!TypeOK, Sorted!ClientTypeOK, VecThreadOK, VecCallOK, VecIdxOK,
         VecScanOK, VecPendingOK, VecInside
  <2>2. CASE u # t
    <3>1. pc'[u] = pc[u] /\ arg'[u] = arg[u] /\ op'[u] = op[u]
      BY <2>2 DEF VecIInv, Sorted!TypeOK, Sorted!ClientTypeOK
    <3>2. QED
      BY <3>1 DEF VecIInv, VecThreadOK, VecCallOK, VecIdxOK, VecScanOK, VecPendingOK,
           VecInside, VecMatch, Sorted!EntryHash,
                  Sorted!Hash, Sorted!Known
  <2>3. QED
    BY <2>1, <2>2
<1>3. VecValueOK' /\ VecOrdered' /\ VecUnique'
  BY DEF VecIInv, VecValueOK, VecOrdered, VecUnique, Sorted!EntryHash
<1>4. QED
  BY <1>1, <1>2, <1>3 DEF VecIInv

LEMMA VecHoldsInv ==
  ASSUME VecIInv, UNCHANGED Sorted!vector,
         NEW t \in Threads, NEW o \in Sorted!Objects,
         Sorted!Drop(t, o) \/ \E q \in Threads : Sorted!Clone(t, q, o)
  PROVE  VecIInv'
<1> USE DEF Sorted!objects, Sorted!call, Sorted!vector
<1>1. /\ UNCHANGED <<backend, lock, value, alive, made, pc, op, arg, temp, vec, idx, pos>>
      /\ holds' \in [Threads -> SUBSET alive]
      /\ \A u \in Threads : \A p \in holds'[u] : \E q \in Threads : p \in holds[q]
  <2>1. CASE Sorted!Drop(t, o)
    <3>1. \A u \in Threads : holds'[u] \subseteq holds[u]
      BY <2>1 DEF Sorted!Drop, VecIInv, Sorted!TypeOK, Sorted!ClientTypeOK
    <3>2. holds' \in [Threads -> SUBSET alive]
      BY <2>1 DEF Sorted!Drop, VecIInv, Sorted!TypeOK, Sorted!ClientTypeOK
    <3>3. QED
      BY <2>1, <3>1, <3>2 DEF Sorted!Drop
  <2>2. ASSUME NEW q \in Threads, Sorted!Clone(t, q, o)
        PROVE  <1>1!1 /\ <1>1!2 /\ <1>1!3
    <3>1. \A u \in Threads : holds'[u] \subseteq holds[u] \cup {o}
      BY <2>2 DEF Sorted!Clone, VecIInv, Sorted!TypeOK, Sorted!ClientTypeOK
    <3>2. o \in alive /\ o \in holds[t]
      BY <2>2 DEF Sorted!Clone, VecIInv, Sorted!TypeOK, Sorted!ClientTypeOK
    <3>3. holds' \in [Threads -> SUBSET alive]
      BY <2>2, <3>2 DEF Sorted!Clone, VecIInv, Sorted!TypeOK, Sorted!ClientTypeOK
    <3>4. QED
      BY <2>2, <3>1, <3>2, <3>3 DEF Sorted!Clone
  <2>3. QED
    BY <2>1, <2>2
<1>2. Sorted!TypeOK'
  BY <1>1 DEF VecIInv, Sorted!TypeOK, Sorted!ClientTypeOK
<1>3. \A u \in Threads : VecThreadOK(u)'
  BY <1>1 DEF VecIInv, VecThreadOK, VecCallOK, VecIdxOK, VecScanOK, VecPendingOK, VecInside,
       VecMatch, Sorted!EntryHash, Sorted!Hash, Sorted!Known
<1>4. VecValueOK' /\ VecOrdered' /\ VecUnique'
  BY <1>1 DEF VecIInv, VecValueOK, VecOrdered, VecUnique, Sorted!EntryHash
<1>5. QED
  BY <1>2, <1>3, <1>4 DEF VecIInv

LEMMA VecReturnInv ==
  ASSUME VecIInv, UNCHANGED Sorted!vector, NEW t \in Threads, Sorted!Return(t)
  PROVE  VecIInv'
<1> USE DEF Sorted!Return, Sorted!Goto, Sorted!objects, Sorted!vector
<1>0. \A u \in Threads : u # t =>
        pc'[u] = pc[u] /\ arg'[u] = arg[u] /\ op'[u] = op[u] /\ temp'[u] = temp[u]
        /\ holds'[u] = holds[u]
  BY DEF VecIInv, Sorted!TypeOK, Sorted!ClientTypeOK
<1>1. Sorted!TypeOK'
  BY DEF VecIInv, Sorted!TypeOK, Sorted!ClientTypeOK
<1>2. VecThreadOK(t)'
  BY DEF VecIInv, Sorted!TypeOK, Sorted!ClientTypeOK, VecThreadOK, VecCallOK, VecIdxOK,
       VecScanOK, VecPendingOK, VecInside
<1>3. ASSUME NEW u \in Threads, u # t
      PROVE  VecThreadOK(u)'
  <2>1. VecCallOK(u)' /\ VecIdxOK(u)' /\ VecScanOK(u)'
    BY <1>0, <1>3 DEF VecIInv, VecThreadOK, VecCallOK, VecIdxOK, VecScanOK, VecInside,
         VecMatch, Sorted!EntryHash, Sorted!Hash
  <2>2. VecPendingOK(u)'
    <3>1. ASSUME pc[u] = "insert"
          PROVE  temp[u] # NoObject /\ temp[u] \notin holds'[t] /\ temp'[t] # temp[u]
      BY <1>3, <3>1, VecFacts DEF VecIInv, Sorted!TypeOK, Sorted!ClientTypeOK, VecThreadOK,
           VecPendingOK
    <3>2. QED
      BY <1>0, <1>3, <3>1 DEF VecIInv, VecThreadOK, VecPendingOK, Sorted!Known
  <2>3. QED
    BY <2>1, <2>2 DEF VecThreadOK
<1>4. VecValueOK' /\ VecOrdered' /\ VecUnique'
  BY DEF VecIInv, VecValueOK, VecOrdered, VecUnique, Sorted!EntryHash
<1>5. QED
  BY <1>1, <1>2, <1>3, <1>4 DEF VecIInv

LEMMA VecExpireInv ==
  ASSUME VecIInv, NEW o \in Sorted!Objects, Sorted!ExpireEntry(o)
  PROVE  VecIInv'
<1> USE DEF Sorted!ExpireEntry, Sorted!Expire, Sorted!call, Sorted!vector
<1>1. /\ UNCHANGED <<backend, lock, value, made, holds, pc, op, arg, temp, vec, idx, pos>>
      /\ alive' = alive \ {o}
      /\ Sorted!NoStrong(o)
  OBVIOUS
<1>2. Sorted!TypeOK'
  BY <1>1 DEF VecIInv, Sorted!TypeOK, Sorted!ClientTypeOK, Sorted!NoStrong
<1>3. ASSUME NEW t \in Threads
      PROVE  VecThreadOK(t)'
  <2>1. VecCallOK(t)' /\ VecIdxOK(t)'
    BY <1>1 DEF VecIInv, VecThreadOK, VecCallOK, VecIdxOK, VecInside, Sorted!EntryHash,
         Sorted!Hash
  <2>2. VecScanOK(t)'
    BY <1>1 DEF VecIInv, VecThreadOK, VecScanOK, VecMatch
  <2>3. VecPendingOK(t)'
    BY <1>1 DEF VecIInv, VecThreadOK, VecPendingOK, Sorted!NoStrong, Sorted!Known
  <2>4. QED
    BY <2>1, <2>2, <2>3 DEF VecThreadOK
<1>4. VecValueOK' /\ VecOrdered' /\ VecUnique'
  BY <1>1 DEF VecIInv, VecValueOK, VecOrdered, VecUnique, Sorted!EntryHash
<1>5. QED
  BY <1>2, <1>3, <1>4 DEF VecIInv

-----------------------------------------------------------------------------
(* A step of a call that changes neither objects nor the vector.           *)
VecMoves(t) ==
  /\ UNCHANGED <<backend, value, alive, made, holds, op, arg, vec>>
  /\ pc' = [pc EXCEPT ![t] = pc'[t]]
  /\ temp' = [temp EXCEPT ![t] = temp'[t]]
  /\ idx' = [idx EXCEPT ![t] = idx'[t]]
  /\ pos' = [pos EXCEPT ![t] = pos'[t]]

LEMMA VecMovesInv ==
  ASSUME VecIInv, NEW t \in Threads, VecMoves(t),
         lock' \in {lock, t, NoThread},
         lock' # lock => lock \in {t, NoThread},
         pc[t] # "insert",
         pc'[t] \in {"up", "down", "create", "done"},
         temp'[t] \in alive \cup {NoObject},
         \A u \in Threads : pc[u] = "insert" => temp'[t] # temp[u],
         idx'[t] \in 1 .. Len(vec) + 1,
         pos'[t] \in 0 .. Len(vec) + 1,
         VecCallOK(t)', VecIdxOK(t)', VecScanOK(t)'
  PROVE  VecIInv'
<1> USE DEF VecMoves
<1>1. \A u \in Threads : u # t =>
        pc'[u] = pc[u] /\ temp'[u] = temp[u] /\ idx'[u] = idx[u] /\ pos'[u] = pos[u]
  BY DEF VecIInv, Sorted!TypeOK, Sorted!ClientTypeOK
<1>2. Sorted!TypeOK'
  <2> USE DEF VecIInv, Sorted!TypeOK, Sorted!ClientTypeOK
  <2>1. lock' \in Threads \cup {NoThread}
    OBVIOUS
  <2>2. pc' \in [Threads -> VecPCs]
    BY Zenon DEF VecPCs
  <2>3. temp' \in [Threads -> alive \cup {NoObject}]
    BY Zenon
  <2>4. idx' \in [Threads -> 1 .. Len(vec) + 1]
    BY Zenon
  <2>5. pos' \in [Threads -> 0 .. Len(vec) + 1]
    BY Zenon
  <2>6. QED
    BY <2>1, <2>2, <2>3, <2>4, <2>5 DEF VecPCs
<1>3. ASSUME NEW u \in Threads, u # t
      PROVE  VecThreadOK(u)'
  <2>1. VecCallOK(u)'
    BY <1>1, <1>3, VecFacts DEF VecIInv, VecThreadOK, VecCallOK, VecInside
  <2>2. VecIdxOK(u)'
    BY <1>1, <1>3 DEF VecIInv, VecThreadOK, VecIdxOK, VecInside, Sorted!EntryHash, Sorted!Hash
  <2>3. VecScanOK(u)'
    BY <1>1, <1>3 DEF VecIInv, VecThreadOK, VecScanOK, VecMatch
  <2>4. VecPendingOK(u)'
    BY <1>1, <1>3 DEF VecIInv, VecThreadOK, VecPendingOK, Sorted!Known
  <2>5. QED
    BY <2>1, <2>2, <2>3, <2>4 DEF VecThreadOK
<1>4. VecThreadOK(t)'
  BY DEF VecThreadOK, VecPendingOK
<1>5. VecValueOK' /\ VecOrdered' /\ VecUnique'
  BY DEF VecIInv, VecValueOK, VecOrdered, VecUnique, Sorted!EntryHash
<1>6. QED
  BY <1>2, <1>3, <1>4, <1>5 DEF VecIInv

LEMMA VecShape ==
  ASSUME VecIInv
  PROVE  /\ pc \in [Threads -> VecPCs]
         /\ temp \in [Threads -> alive \cup {NoObject}]
         /\ idx \in [Threads -> 1 .. Len(vec) + 1]
         /\ pos \in [Threads -> 0 .. Len(vec) + 1]
         /\ op \in [Threads -> {"get", "get_or_insert"}]
         /\ \A u \in Threads : pc[u] = "insert" => temp[u] # NoObject
            /\ temp[u] \notin Sorted!Known
  BY VecFacts DEF VecIInv, Sorted!TypeOK, Sorted!ClientTypeOK, VecPCs, VecThreadOK, VecPendingOK

LEMMA VecSearchInv ==
  ASSUME VecIInv, NEW t \in Threads, Sorted!Search(t)
  PROVE  VecIInv'
<1>1. PICK i \in Sorted!BinarySearch(Sorted!Hash(t)) :
        idx' = [idx EXCEPT ![t] = i] /\ pos' = [pos EXCEPT ![t] = i]
  BY DEF Sorted!Search
<1>2. /\ pc[t] = "lookup" /\ lock = NoThread /\ lock' = t
      /\ pc' = [pc EXCEPT ![t] = "up"]
      /\ UNCHANGED <<backend, value, alive, made, holds, op, arg, temp, vec>>
  BY DEF Sorted!Search, Sorted!Goto, Sorted!objects, Sorted!call
<1>3. pc'[t] = "up" /\ idx'[t] = i /\ pos'[t] = i /\ temp'[t] = NoObject /\ arg[t] \in Values
  BY <1>1, <1>2, VecShape DEF VecIInv, VecThreadOK, VecCallOK
<1>4. VecMoves(t)
  BY <1>1, <1>2, VecShape DEF VecMoves
<1>5. i \in 1 .. Len(vec) + 1
      /\ \A j \in DOMAIN vec : (j < i => Sorted!EntryHash(j) <= Sorted!Hash(t)) /\ (j >= i
         => Sorted!Hash(t) <= Sorted!EntryHash(j))
  BY <1>3, VecEntries, VecSearchFacts DEF Sorted!Hash
<1>6. VecCallOK(t)'
  BY <1>2, <1>3 DEF VecCallOK
<1>7. VecIdxOK(t)'
  BY <1>2, <1>3, <1>5 DEF VecIdxOK, VecInside, Sorted!EntryHash, Sorted!Hash
<1>8. VecScanOK(t)'
  BY <1>2, <1>3, <1>5, VecFacts DEF VecScanOK
<1>9. i \in 0 .. Len(vec) + 1
  BY <1>5, VecFacts
<1>10. QED
  BY <1>2, <1>3, <1>4, <1>5, <1>6, <1>7, <1>8, <1>9, VecShape, VecMovesInv

(* The entry a scan answers with.                                          *)
LEMMA VecHitFacts ==
  ASSUME VecIInv, NEW t \in Threads, Sorted!Scan(t), Sorted!Hit(t)
  PROVE  /\ pc[t] \in {"up", "down"} /\ lock = t
         /\ vec[pos[t]] \in Sorted!Known \cap alive /\ value[vec[pos[t]]] = arg[t]
         /\ pc' = [pc EXCEPT ![t] = "done"]
         /\ temp' = [temp EXCEPT ![t] = vec[pos[t]]]
         /\ Sorted!Unlocked(t)
         /\ UNCHANGED <<backend, value, alive, made, holds, op, arg, vec>>
<1>1. pc[t] \in {"up", "down"} /\ pos[t] \in DOMAIN vec
  BY DEF Sorted!Scan, Sorted!InRun, Sorted!IsSameHash
<1>2. lock = t
  BY <1>1 DEF VecIInv, VecThreadOK, VecCallOK, VecInside
<1>3. QED
  BY <1>1, <1>2 DEF Sorted!Scan, Sorted!Hit, Sorted!Known, Sorted!Answer, Sorted!Goto,
       Sorted!objects, Sorted!call

LEMMA VecScanInv ==
  ASSUME VecIInv, NEW t \in Threads, Sorted!Scan(t)
  PROVE  VecIInv'
<1>1. /\ pc[t] \in {"up", "down"} /\ pos[t] \in DOMAIN vec /\ lock = t
      /\ arg[t] \in Values /\ temp[t] = NoObject
  BY DEF Sorted!Scan, Sorted!InRun, Sorted!IsSameHash, VecIInv, VecThreadOK, VecCallOK,
       VecInside
<1>2. CASE Sorted!Hit(t)
  <2>1. /\ pc'[t] = "done" /\ temp'[t] = vec[pos[t]] /\ idx'[t] = 1 /\ pos'[t] = 0
        /\ lock' = NoThread /\ arg'[t] = arg[t]
    BY <1>2, VecHitFacts, VecShape DEF Sorted!Unlocked
  <2>2. VecMoves(t)
    BY <1>2, VecHitFacts, VecShape DEF VecMoves, Sorted!Unlocked
  <2>3. VecCallOK(t)' /\ VecIdxOK(t)' /\ VecScanOK(t)'
    BY <1>1, <2>1 DEF VecCallOK, VecIdxOK, VecScanOK, VecInside
  <2>4. vec[pos[t]] \in Sorted!Known \cap alive
    BY <1>2, VecHitFacts
  <2>5. 1 \in 1 .. Len(vec) + 1 /\ 0 \in 0 .. Len(vec) + 1
    BY VecFacts
  <2>6. QED
    BY <1>1, <2>1, <2>2, <2>3, <2>4, <2>5, VecShape, VecMovesInv
<1>3. CASE ~Sorted!Hit(t)
  <2> DEFINE q == IF pc[t] = "up" THEN pos[t] + 1 ELSE pos[t] - 1
  <2>1. /\ pos' = [pos EXCEPT ![t] = q]
        /\ UNCHANGED <<backend, lock, value, alive, made, holds, pc, op, arg, temp, vec, idx>>
    BY <1>3 DEF Sorted!Scan, Sorted!objects, Sorted!call
  <2>2. VecMoves(t) /\ pos'[t] = q
    BY <2>1, VecShape DEF VecMoves
  <2>3. q \in 0 .. Len(vec) + 1
    BY <1>1, VecFacts
  <2>4. ~VecMatch(pos[t], t)
    BY <1>3 DEF Sorted!Hit, VecMatch
  <2>5. VecCallOK(t)' /\ VecIdxOK(t)'
    BY <1>1, <2>1 DEF VecIInv, VecThreadOK, VecCallOK, VecIdxOK, VecInside, Sorted!EntryHash,
         Sorted!Hash
  <2>6. VecScanOK(t)'
    <3>1. \A i \in DOMAIN vec : VecMatch(i, t)' <=> VecMatch(i, t)
      BY <2>1 DEF VecMatch
    <3>2. CASE pc[t] = "up"
      <4>1. \A i \in DOMAIN vec : i < pos[t] + 1 => i < pos[t] \/ i = pos[t]
        BY <1>1, VecFacts
      <4>2. idx[t] <= pos[t] + 1
        BY <1>1, <3>2, VecFacts, VecShape DEF VecIInv, VecThreadOK, VecScanOK
      <4>3. QED
        BY <2>1, <2>2, <2>4, <3>1, <3>2, <4>1, <4>2 DEF VecIInv, VecThreadOK, VecScanOK
    <3>3. CASE pc[t] = "down"
      <4>1. \A i \in DOMAIN vec : pos[t] - 1 < i => pos[t] < i \/ i = pos[t]
        BY <1>1, VecFacts
      <4>2. pos[t] - 1 < idx[t]
        BY <1>1, <3>3, VecFacts, VecShape DEF VecIInv, VecThreadOK, VecScanOK
      <4>3. QED
        BY <2>1, <2>2, <2>4, <3>1, <3>3, <4>1, <4>2 DEF VecIInv, VecThreadOK, VecScanOK
    <3>4. QED
      BY <1>1, <3>2, <3>3
  <2>7. QED
    BY <1>1, <2>1, <2>2, <2>3, <2>5, <2>6, VecShape, VecMovesInv
<1>4. QED
  BY <1>2, <1>3

(* The end of the run: whatever comes after has another hash.              *)
LEMMA VecEndUpFacts ==
  ASSUME VecIInv, NEW t \in Threads, pc[t] = "up", ~Sorted!InRun(t)
  PROVE  \A i \in DOMAIN vec : idx[t] - 1 < i => ~VecMatch(i, t)
<1>1. arg[t] \in Values /\ Sorted!Hash(t) \in Nat /\ idx[t] <= pos[t]
  BY VecEntries DEF VecIInv, VecThreadOK, VecCallOK, VecScanOK, Sorted!Hash
<1>2. ASSUME NEW i \in DOMAIN vec, pos[t] <= i
      PROVE  ~VecMatch(i, t)
  <2>1. pos[t] \in DOMAIN vec
    BY <1>1, <1>2, VecFacts, VecShape
  <2>2. Sorted!EntryHash(pos[t]) # Sorted!Hash(t)
    BY <2>1 DEF Sorted!InRun, Sorted!IsSameHash
  <2>3. Sorted!Hash(t) <= Sorted!EntryHash(pos[t])
    BY <1>1, <2>1 DEF VecIInv, VecThreadOK, VecIdxOK, VecInside
  <2>4. Sorted!EntryHash(pos[t]) <= Sorted!EntryHash(i)
    BY <1>2, <2>1 DEF VecIInv, VecOrdered
  <2>5. Sorted!Hash(t) < Sorted!EntryHash(i)
    BY <1>1, <2>1, <2>2, <2>3, <2>4, VecEntries
  <2>6. QED
    BY <1>1, <2>5 DEF VecMatch, Sorted!EntryHash, Sorted!Hash
<1>3. \A i \in DOMAIN vec : idx[t] - 1 < i => idx[t] <= i /\ (i < pos[t] \/ pos[t] <= i)
  BY VecFacts, VecShape
<1>4. QED
  BY <1>2, <1>3 DEF VecIInv, VecThreadOK, VecScanOK

LEMMA VecEndDownFacts ==
  ASSUME VecIInv, NEW t \in Threads, pc[t] = "down", ~Sorted!InRun(t)
  PROVE  \A i \in DOMAIN vec : ~VecMatch(i, t)
<1>1. arg[t] \in Values /\ Sorted!Hash(t) \in Nat /\ pos[t] < idx[t]
  BY VecEntries DEF VecIInv, VecThreadOK, VecCallOK, VecScanOK, Sorted!Hash
<1>2. ASSUME NEW i \in DOMAIN vec, i <= pos[t]
      PROVE  ~VecMatch(i, t)
  <2>1. pos[t] \in DOMAIN vec
    BY <1>1, <1>2, VecFacts, VecShape
  <2>2. Sorted!EntryHash(pos[t]) # Sorted!Hash(t)
    BY <2>1 DEF Sorted!InRun, Sorted!IsSameHash
  <2>3. Sorted!EntryHash(pos[t]) <= Sorted!Hash(t)
    BY <1>1, <2>1 DEF VecIInv, VecThreadOK, VecIdxOK, VecInside
  <2>4. Sorted!EntryHash(i) <= Sorted!EntryHash(pos[t])
    BY <1>2, <2>1 DEF VecIInv, VecOrdered
  <2>5. Sorted!EntryHash(i) < Sorted!Hash(t)
    BY <1>1, <2>1, <2>2, <2>3, <2>4, VecEntries
  <2>6. QED
    BY <1>1, <2>5 DEF VecMatch, Sorted!EntryHash, Sorted!Hash
<1>3. \A i \in DOMAIN vec : pos[t] < i \/ i <= pos[t]
  BY VecFacts, VecShape
<1>4. QED
  BY <1>2, <1>3 DEF VecIInv, VecThreadOK, VecScanOK

LEMMA VecEndUpInv ==
  ASSUME VecIInv, NEW t \in Threads, Sorted!EndUp(t)
  PROVE  VecIInv'
<1>1. /\ pc[t] = "up" /\ pc' = [pc EXCEPT ![t] = "down"]
      /\ pos' = [pos EXCEPT ![t] = idx[t] - 1]
      /\ UNCHANGED <<backend, lock, value, alive, made, holds, op, arg, temp, vec, idx>>
  BY DEF Sorted!EndUp, Sorted!Below, Sorted!Goto, Sorted!objects, Sorted!call
<1>2. /\ pc'[t] = "down" /\ pos'[t] = idx[t] - 1 /\ VecMoves(t)
      /\ temp[t] = NoObject
  <2>1. pc'[t] = "down" /\ pos'[t] = idx[t] - 1 /\ temp[t] = NoObject
    BY <1>1, VecShape DEF VecIInv, VecThreadOK, VecCallOK
  <2>2. VecMoves(t)
    BY <1>1, <2>1, VecShape DEF VecMoves
  <2>3. QED
    BY <2>1, <2>2
<1>3. idx[t] - 1 \in 0 .. Len(vec) + 1 /\ idx[t] - 1 < idx[t]
  BY VecFacts, VecShape
<1>4. VecCallOK(t)' /\ VecIdxOK(t)'
  BY <1>1, <1>2 DEF VecIInv, VecThreadOK, VecCallOK, VecIdxOK, VecInside, Sorted!EntryHash,
       Sorted!Hash
<1>5. VecScanOK(t)'
  <2>1. \A i \in DOMAIN vec : VecMatch(i, t)' <=> VecMatch(i, t)
    BY <1>1 DEF VecMatch
  <2>2. \A i \in DOMAIN vec : idx[t] - 1 < i => ~VecMatch(i, t)
    BY <1>1, VecEndUpFacts DEF Sorted!EndUp
  <2>3. QED
    BY <1>1, <1>2, <1>3, <2>1, <2>2 DEF VecScanOK
<1>6. QED
  BY <1>1, <1>2, <1>3, <1>4, <1>5, VecShape, VecMovesInv

LEMMA VecEndDownInv ==
  ASSUME VecIInv, NEW t \in Threads, Sorted!EndDown(t)
  PROVE  VecIInv'
<1>1. /\ pc[t] = "down" /\ lock = t /\ arg[t] \in Values /\ temp[t] = NoObject
      /\ UNCHANGED <<backend, value, alive, made, holds, op, arg, vec>>
      /\ \A i \in DOMAIN vec : ~VecMatch(i, t)
  BY VecEndDownFacts DEF Sorted!EndDown, Sorted!objects, Sorted!call, VecIInv, VecThreadOK,
       VecCallOK, VecInside
<1>2. CASE op[t] = "get"
  <2>1. /\ pc' = [pc EXCEPT ![t] = "done"] /\ temp' = [temp EXCEPT ![t] = NoObject]
        /\ lock' = NoThread /\ idx' = [idx EXCEPT ![t] = 1] /\ pos' = [pos EXCEPT ![t] = 0]
    BY <1>2 DEF Sorted!EndDown, Sorted!Answer, Sorted!Goto, Sorted!Unlocked
  <2>2. /\ pc'[t] = "done" /\ temp'[t] = NoObject /\ idx'[t] = 1 /\ pos'[t] = 0 /\ VecMoves(t)
    BY <1>1, <2>1, VecShape DEF VecMoves
  <2>3. VecCallOK(t)' /\ VecIdxOK(t)' /\ VecScanOK(t)'
    BY <1>1, <2>2 DEF VecCallOK, VecIdxOK, VecScanOK, VecInside
  <2>4. 1 \in 1 .. Len(vec) + 1 /\ 0 \in 0 .. Len(vec) + 1
    BY VecFacts
  <2>5. QED
    BY <1>1, <2>1, <2>2, <2>3, <2>4, VecShape, VecMovesInv
<1>3. CASE op[t] = "get_or_insert"
  <2>1. pc' = [pc EXCEPT ![t] = "create"] /\ UNCHANGED <<lock, temp, idx, pos>>
    BY <1>3 DEF Sorted!EndDown, Sorted!Goto
  <2>2. pc'[t] = "create" /\ VecMoves(t)
    BY <1>1, <2>1, VecShape DEF VecMoves
  <2>3. VecCallOK(t)' /\ VecIdxOK(t)'
    BY <1>1, <1>3, <2>1, <2>2 DEF VecIInv, VecThreadOK, VecCallOK, VecIdxOK, VecInside,
         Sorted!EntryHash, Sorted!Hash
  <2>4. VecScanOK(t)'
    BY <1>1, <2>1, <2>2 DEF VecScanOK, VecMatch
  <2>5. QED
    BY <1>1, <2>1, <2>2, <2>3, <2>4, VecShape, VecMovesInv
<1>4. QED
  BY <1>2, <1>3, VecShape

-----------------------------------------------------------------------------
(* Creation, insertion and reset.                                          *)
LEMMA VecCreateInv ==
  ASSUME VecIInv, NEW t \in Threads, Sorted!CreateForVector(t)
  PROVE  VecIInv'
<1>0. PICK n \in Sorted!Objects : n = made + 1
  <2>1. made \in Nat /\ MaxObjects \in Nat /\ made < MaxObjects
    BY VecFacts, ClientAssumption DEF Sorted!CreateForVector, Sorted!Create
  <2>2. QED
    BY <2>1 DEF Sorted!Objects
<1>1. /\ pc[t] = "create" /\ pc' = [pc EXCEPT ![t] = "insert"]
      /\ temp' = [temp EXCEPT ![t] = n] /\ value' = [value EXCEPT ![n] = arg[t]]
      /\ alive' = alive \cup {n} /\ made' = n
      /\ UNCHANGED <<backend, lock, holds, op, arg, vec, idx, pos>>
  BY <1>0 DEF Sorted!CreateForVector, Sorted!Create, Sorted!Goto, Sorted!call, Sorted!vector
<1>2. /\ n \notin 1 .. made /\ n \notin alive /\ n \notin Sorted!Known /\ n # NoObject
      /\ 1 .. made \subseteq 1 .. n /\ n \in 1 .. n /\ made \in Nat
  BY <1>0, VecFacts
<1>3. arg[t] \in Values
  BY <1>1 DEF VecIInv, VecThreadOK, VecCallOK
<1>4. \A u \in Threads :
        /\ pc'[u] = IF u = t THEN "insert" ELSE pc[u]
        /\ temp'[u] = IF u = t THEN n ELSE temp[u]
        /\ temp[u] # n /\ n \notin holds[u]
  BY <1>1, <1>2, VecShape DEF VecIInv, Sorted!TypeOK, Sorted!ClientTypeOK
<1>5. /\ \A o \in Sorted!Objects : o # n => value'[o] = value[o]
      /\ value'[n] = arg[t]
  BY <1>1 DEF VecIInv, Sorted!TypeOK, Sorted!ClientTypeOK
<1>6. \A i \in DOMAIN vec : vec[i] # n /\ vec[i] \in Sorted!Objects
  BY <1>2, VecFacts, VecEntries
<1>7. \A i \in DOMAIN vec : value'[vec[i]] = value[vec[i]]
  BY <1>5, <1>6
<1>8. \A i \in DOMAIN vec : Sorted!EntryHash(i)' = Sorted!EntryHash(i)
  BY <1>1, <1>7 DEF Sorted!EntryHash
<1>9. \A i \in DOMAIN vec, u \in Threads : VecMatch(i, u)' <=> VecMatch(i, u)
  BY <1>1, <1>6, <1>7 DEF VecMatch
<1>10. Sorted!TypeOK'
  <2> USE DEF VecIInv, Sorted!TypeOK, Sorted!ClientTypeOK
  <2>1. made' \in 0 .. MaxObjects /\ alive' \in SUBSET (1 .. made') /\ alive \subseteq alive'
    <3>1. n \in 0 .. MaxObjects
      BY <1>0, <1>2 DEF Sorted!Objects
    <3>2. alive \subseteq 1 .. made
      OBVIOUS
    <3>3. QED
      BY <1>1, <1>2, <3>1, <3>2
  <2>2. value' \in [Sorted!Objects -> Values \cup {NoValue}]
    BY <1>1, <1>3
  <2>3. holds' \in [Threads -> SUBSET alive'] /\ temp' \in [Threads -> alive' \cup {NoObject}]
    BY <1>1, <2>1
  <2>4. pc' \in [Threads -> VecPCs]
    BY <1>1 DEF VecPCs
  <2>5. vec' \in Seq(1 .. made')
    BY <1>1, <1>2
  <2>6. QED
    BY <1>1, <2>1, <2>2, <2>3, <2>4, <2>5 DEF VecPCs
<1>11. ASSUME NEW u \in Threads
       PROVE  VecThreadOK(u)'
  <2>1. VecCallOK(u)'
    BY <1>1, <1>4 DEF VecIInv, VecThreadOK, VecCallOK, VecInside
  <2>2. VecIdxOK(u)'
    BY <1>1, <1>4, <1>8 DEF VecIInv, VecThreadOK, VecIdxOK, VecInside, Sorted!Hash
  <2>3. VecScanOK(u)'
    BY <1>1, <1>4, <1>9 DEF VecIInv, VecThreadOK, VecScanOK
  <2>4. VecPendingOK(u)'
    <3>1. Sorted!Known' = Sorted!Known
      BY <1>1 DEF Sorted!Known
    <3>2. CASE u = t
      BY <1>1, <1>2, <1>4, <1>5, <3>1, <3>2 DEF VecPendingOK
    <3>3. CASE u # t
      <4>1. pc[u] = "insert" => temp[u] \in Sorted!Objects
        BY VecFacts DEF VecIInv, VecThreadOK, VecPendingOK
      <4>2. QED
        BY <1>1, <1>4, <1>5, <3>1, <3>3, <4>1 DEF VecIInv, VecThreadOK, VecPendingOK
    <3>4. QED
      BY <3>2, <3>3
  <2>5. QED
    BY <2>1, <2>2, <2>3, <2>4 DEF VecThreadOK
<1>12. VecValueOK'
  <2>1. ASSUME NEW o \in Sorted!Objects
        PROVE  value'[o] \in Values <=> o <= n
    <3>1. o # n => (o <= made <=> o <= n)
      BY <1>0, <1>2 DEF Sorted!Objects
    <3>2. QED
      BY <1>0, <1>2, <1>3, <1>5, <3>1 DEF VecIInv, VecValueOK, Sorted!Objects
  <2>2. QED
    BY <1>1, <2>1 DEF VecValueOK
<1>13. VecOrdered'
  BY <1>1, <1>8 DEF VecIInv, VecOrdered
<1>14. VecUnique'
  BY <1>1, <1>6, <1>7 DEF VecIInv, VecUnique
<1>15. QED
  BY <1>10, <1>11, <1>12, <1>13, <1>14 DEF VecIInv

(* Inserting at a position moves up what lies there and above.             *)
VecHasInserted(w, s, i, e) ==
  /\ Len(w) = Len(s) + 1
  /\ \A j \in 1 .. Len(s) + 1 : w[j] = IF j < i THEN s[j] ELSE IF j = i THEN e ELSE s[j - 1]

LEMMA VecInsertAtFacts ==
  ASSUME NEW S, NEW s \in Seq(S), NEW i \in 1 .. Len(s) + 1, NEW e \in S
  PROVE  Sorted!InsertAt(s, i, e) \in Seq(S) /\ VecHasInserted(Sorted!InsertAt(s, i, e), s, i, e)
<1> DEFINE a == SubSeq(s, 1, i - 1)  b == SubSeq(s, i, Len(s))
<1>1. /\ a \in Seq(S) /\ Len(a) = i - 1
      /\ \A j \in 1 .. i - 1 : a[j] = s[j]
  OBVIOUS
<1>2. /\ b \in Seq(S) /\ Len(b) = Len(s) - i + 1
      /\ \A j \in 1 .. Len(s) - i + 1 : b[j] = s[i + j - 1]
  OBVIOUS
<1>3. Sorted!InsertAt(s, i, e) = (a \o <<e>>) \o b
  BY DEF Sorted!InsertAt
<1> HIDE DEF a, b
<1> DEFINE c == a \o <<e>>
<1>4. /\ c \in Seq(S) /\ Len(c) = i
      /\ \A j \in 1 .. i : c[j] = IF j < i THEN s[j] ELSE e
  BY <1>1
<1> HIDE DEF c
<1>5. /\ c \o b \in Seq(S) /\ Len(c \o b) = Len(s) + 1
      /\ \A j \in 1 .. Len(s) + 1 : (c \o b)[j] = IF j <= i THEN c[j] ELSE b[j - i]
  <2>1. Len(s) \in Nat /\ i \in Nat /\ i + (Len(s) - i + 1) = Len(s) + 1
    OBVIOUS
  <2>2. c \o b \in Seq(S) /\ Len(c \o b) = Len(c) + Len(b)
    BY <1>2, <1>4, ConcatProperties
  <2>3. \A j \in 1 .. Len(c) + Len(b) :
          (c \o b)[j] = IF j <= Len(c) THEN c[j] ELSE b[j - Len(c)]
    BY <1>2, <1>4, ConcatProperties
  <2>4. QED
    BY <1>2, <1>4, <2>1, <2>2, <2>3
<1>6. ASSUME NEW j \in 1 .. Len(s) + 1
      PROVE  (c \o b)[j] = IF j < i THEN s[j] ELSE IF j = i THEN e ELSE s[j - 1]
  <2>1. CASE j <= i
    BY <1>4, <1>5, <2>1
  <2>2. CASE j > i
    <3>1. j - i \in 1 .. Len(s) - i + 1 /\ i + (j - i) - 1 = j - 1
      BY <2>2
    <3>2. QED
      BY <1>2, <1>5, <2>2, <3>1
  <2>3. j <= i \/ j > i
    OBVIOUS
  <2>4. QED
    BY <2>1, <2>2, <2>3, Zenon
<1>7. QED
  BY <1>3, <1>5, <1>6 DEF c, VecHasInserted

LEMMA VecInsertFacts ==
  ASSUME VecIInv, NEW t \in Threads, Sorted!Insert(t)
  PROVE  /\ pc[t] = "insert" /\ arg[t] \in Values /\ lock = t
         /\ op[t] = "get_or_insert"
         /\ \A i \in DOMAIN vec : ~VecMatch(i, t)
         /\ temp[t] \in alive \ Sorted!Known /\ value[temp[t]] = arg[t]
         /\ pc' = [pc EXCEPT ![t] = "done"] /\ temp' = temp
         /\ Sorted!Unlocked(t)
         /\ vec' \in Seq(1 .. made) /\ VecHasInserted(vec', vec, idx[t], temp[t])
         /\ Sorted!Known' = Sorted!Known \cup {temp[t]}
         /\ UNCHANGED <<backend, value, alive, made, holds, op, arg>>
<1>1. pc[t] = "insert" /\ VecCallOK(t) /\ VecScanOK(t) /\ VecPendingOK(t)
  BY DEF VecIInv, VecThreadOK, Sorted!Insert
<1>2. temp' = temp
  BY DEF Sorted!Insert, Sorted!Answer, VecIInv, Sorted!TypeOK, Sorted!ClientTypeOK
<1>3. vec' \in Seq(1 .. made) /\ VecHasInserted(vec', vec, idx[t], temp[t])
  <2>1. idx[t] \in 1 .. Len(vec) + 1 /\ vec \in Seq(1 .. made) /\ temp[t] \in 1 .. made
    BY <1>1, VecFacts DEF VecIInv, Sorted!TypeOK, VecPendingOK
  <2>2. vec' = Sorted!InsertAt(vec, idx[t], temp[t])
    BY DEF Sorted!Insert, Sorted!Inserted
  <2>3. QED
    BY <2>1, <2>2, VecInsertAtFacts
<1>4. Sorted!Known' = Sorted!Known \cup {temp[t]}
  <2>1. idx[t] \in 1 .. Len(vec) + 1 /\ idx[t] \in Nat
    BY VecFacts DEF VecIInv, Sorted!TypeOK
  <2>2. /\ Len(vec') = Len(vec) + 1 /\ DOMAIN vec' = 1 .. Len(vec) + 1
        /\ \A j \in 1 .. Len(vec) + 1 :
             vec'[j] = IF j < idx[t] THEN vec[j] ELSE IF j = idx[t] THEN temp[t] ELSE vec[j - 1]
    BY <1>3 DEF VecHasInserted
  <2>3. ASSUME NEW j \in DOMAIN vec'
        PROVE  vec'[j] \in Sorted!Known \cup {temp[t]}
    <3>1. j < idx[t] => j \in DOMAIN vec
      BY <2>1, <2>2, VecFacts
    <3>2. j > idx[t] => j - 1 \in DOMAIN vec
      BY <2>1, <2>2, VecFacts
    <3>3. j < idx[t] \/ j = idx[t] \/ j > idx[t]
      BY <2>1, <2>2, VecFacts
    <3>4. QED
      BY <2>1, <2>2, <3>1, <3>2, <3>3, VecFacts DEF Sorted!Known
  <2>4. ASSUME NEW i \in DOMAIN vec
        PROVE  vec[i] \in Sorted!Known'
    <3>1. CASE i < idx[t]
      <4>1. i \in 1 .. Len(vec) + 1
        BY VecFacts
      <4>2. QED
        BY <2>2, <3>1, <4>1 DEF Sorted!Known
    <3>2. CASE i >= idx[t]
      <4>1. i + 1 \in 1 .. Len(vec) + 1 /\ ~(i + 1 < idx[t]) /\ i + 1 # idx[t] /\ (i + 1) - 1 = i
        BY <2>1, <3>2, VecFacts
      <4>2. vec'[i + 1] = vec[i]
        BY <2>2, <4>1
      <4>3. QED
        BY <2>2, <4>1, <4>2 DEF Sorted!Known
    <3>3. QED
      BY <2>1, <3>1, <3>2, VecFacts
  <2>5. temp[t] \in Sorted!Known'
    BY <2>1, <2>2 DEF Sorted!Known
  <2>6. Sorted!Known' = {vec'[j] : j \in DOMAIN vec'}
        /\ Sorted!Known = {vec[i] : i \in DOMAIN vec}
    BY DEF Sorted!Known
  <2>7. QED
    BY <2>3, <2>4, <2>5, <2>6
<1>5. QED
  BY <1>1, <1>2, <1>3, <1>4
     DEF Sorted!Insert, Sorted!Answer, Sorted!Goto, VecCallOK, VecScanOK, VecPendingOK,
         VecInside, Sorted!objects, Sorted!call

LEMMA VecInsertInv ==
  ASSUME VecIInv, NEW t \in Threads, Sorted!Insert(t)
  PROVE  VecIInv'
<1> DEFINE o == temp[t]
<1> DEFINE Old(j) == IF j < idx[t] THEN j ELSE j - 1
<1>1. /\ Len(vec) \in Nat /\ Len(vec') = Len(vec) + 1
      /\ DOMAIN vec = 1 .. Len(vec) /\ DOMAIN vec' = 1 .. Len(vec')
      /\ idx[t] \in 1 .. Len(vec')
      /\ o \in 1 .. made /\ o # NoObject /\ o \in alive /\ value[o] = arg[t]
      /\ arg[t] \in Values /\ pc[t] = "insert" /\ lock = t
      /\ UNCHANGED <<backend, value, alive, made, holds, op, arg, temp>>
  <2>1. Len(vec') = Len(vec) + 1
    BY VecInsertFacts DEF VecHasInserted
  <2>2. DOMAIN vec' = 1 .. Len(vec')
    BY VecInsertFacts
  <2>3. o \in alive /\ o \in 1 .. made
    BY VecInsertFacts, VecFacts
  <2>4. QED
    BY <2>1, <2>2, <2>3, VecInsertFacts, VecFacts, VecShape
<1>2. ASSUME NEW j \in DOMAIN vec', j # idx[t]
      PROVE  Old(j) \in DOMAIN vec /\ vec'[j] = vec[Old(j)]
  <2>1. j \in 1 .. Len(vec) + 1 /\ j \in Nat /\ idx[t] \in Nat
    BY <1>1
  <2>2. vec'[j] = IF j < idx[t] THEN vec[j] ELSE vec[j - 1]
    BY <1>2, <2>1, VecInsertFacts DEF VecHasInserted
  <2>3. CASE j < idx[t]
    BY <1>1, <2>1, <2>2, <2>3
  <2>4. CASE j > idx[t]
    BY <1>1, <2>1, <2>2, <2>4
  <2>5. QED
    BY <1>2, <2>1, <2>3, <2>4
<1>3. vec'[idx[t]] = o
  BY <1>1, VecInsertFacts DEF VecHasInserted
<1>5. /\ \A j \in DOMAIN vec' : j # idx[t] => HashOf[value[vec'[j]]] = Sorted!EntryHash(Old(j))
      /\ HashOf[value[vec'[idx[t]]]] = Sorted!Hash(t)
  BY <1>1, <1>2, <1>3 DEF Sorted!EntryHash, Sorted!Hash
<1>6. /\ \A u \in Threads : u # t => pc'[u] = pc[u] /\ idx'[u] = idx[u] /\ pos'[u] = pos[u]
      /\ pc'[t] = "done" /\ idx'[t] = 1 /\ pos'[t] = 0 /\ lock' = NoThread
  BY VecInsertFacts, VecShape DEF Sorted!Unlocked
<1>7. \A u \in Threads : u # t => ~VecInside(u)
  BY <1>1 DEF VecIInv, VecThreadOK, VecCallOK
<1>8. Sorted!TypeOK'
  <2>1. pc' \in [Threads -> VecPCs]
    BY VecInsertFacts, VecShape DEF VecPCs
  <2>2. idx' \in [Threads -> 1 .. Len(vec') + 1] /\ pos' \in [Threads -> 0 .. Len(vec') + 1]
    <3>1. 1 .. Len(vec) + 1 \subseteq 1 .. Len(vec') + 1 /\ 1 \in 1 .. Len(vec') + 1
      BY <1>1
    <3>2. 0 .. Len(vec) + 1 \subseteq 0 .. Len(vec') + 1 /\ 0 \in 0 .. Len(vec') + 1
      BY <1>1
    <3>3. idx' = [idx EXCEPT ![t] = 1] /\ pos' = [pos EXCEPT ![t] = 0]
      BY VecInsertFacts DEF Sorted!Unlocked
    <3>4. QED
      BY <3>1, <3>2, <3>3, VecShape
  <2>3. vec' \in Seq(1 .. made)
    BY VecInsertFacts
  <2>4. QED
    BY <1>1, <1>6, <2>1, <2>2, <2>3 DEF VecIInv, Sorted!TypeOK, Sorted!ClientTypeOK, VecPCs
<1>9. ASSUME NEW u \in Threads
      PROVE  VecThreadOK(u)'
  <2>1. ~VecInside(u)'
    BY <1>6, <1>7 DEF VecInside
  <2>2. VecIdxOK(u)'
    BY <1>6, <1>7, <2>1 DEF VecIInv, VecThreadOK, VecIdxOK
  <2>3. VecCallOK(u)'
    BY <1>1, <1>6, <2>1 DEF VecIInv, VecThreadOK, VecCallOK, VecInside
  <2>4. QED
    BY <2>1, <2>2, <2>3 DEF VecThreadOK, VecScanOK, VecPendingOK, VecInside
<1>10. VecValueOK'
  BY <1>1 DEF VecIInv, VecValueOK
<1>11. VecOrdered'
  <2>1. ASSUME NEW i \in DOMAIN vec', NEW j \in DOMAIN vec', i <= j
        PROVE  HashOf[value[vec'[i]]] <= HashOf[value[vec'[j]]]
    <3>0. i \in Nat /\ j \in Nat /\ idx[t] \in Nat /\ Sorted!Hash(t) \in Nat
      BY <1>1, VecEntries DEF Sorted!Hash
    <3>1. CASE i = idx[t] /\ j = idx[t]
      BY <3>0, <3>1, <1>5
    <3>2. CASE i = idx[t] /\ j # idx[t]
      <4>1. Old(j) \in DOMAIN vec /\ Old(j) >= idx[t]
        BY <1>2, <2>1, <3>0, <3>2
      <4>2. QED
        BY <1>1, <1>5, <3>2, <4>1 DEF VecIInv, VecThreadOK, VecIdxOK, VecInside
    <3>3. CASE i # idx[t] /\ j = idx[t]
      <4>1. Old(i) \in DOMAIN vec /\ Old(i) < idx[t]
        BY <1>2, <2>1, <3>0, <3>3
      <4>2. QED
        BY <1>1, <1>5, <3>3, <4>1 DEF VecIInv, VecThreadOK, VecIdxOK, VecInside
    <3>4. CASE i # idx[t] /\ j # idx[t]
      <4>1. Old(i) \in DOMAIN vec /\ Old(j) \in DOMAIN vec /\ Old(i) <= Old(j)
        BY <1>2, <2>1, <3>0, <3>4
      <4>2. QED
        BY <1>5, <3>4, <4>1 DEF VecIInv, VecOrdered
    <3>5. QED
      BY <3>1, <3>2, <3>3, <3>4
  <2>2. QED
    BY <1>1, <2>1 DEF VecOrdered, Sorted!EntryHash
<1>12. VecUnique'
  <2>1. \A j \in DOMAIN vec' : j # idx[t] /\ vec'[j] \in alive => value[vec'[j]] # arg[t]
    BY <1>2, VecInsertFacts DEF VecMatch
  <2>2. ASSUME NEW i \in DOMAIN vec', NEW j \in DOMAIN vec',
               vec'[i] \in alive, vec'[j] \in alive, value[vec'[i]] = value[vec'[j]]
        PROVE  i = j
    <3>1. CASE i = idx[t] \/ j = idx[t]
      BY <1>1, <1>3, <2>1, <2>2, <3>1
    <3>2. CASE i # idx[t] /\ j # idx[t]
      <4>1. Old(i) = Old(j)
        BY <1>2, <2>2, <3>2 DEF VecIInv, VecUnique
      <4>2. i \in Nat /\ j \in Nat /\ idx[t] \in Nat
        BY <1>1
      <4>3. QED
        BY <3>2, <4>1, <4>2
    <3>3. QED
      BY <3>1, <3>2
  <2>3. QED
    BY <1>1, <2>2 DEF VecUnique
<1>13. QED
  BY <1>8, <1>9, <1>10, <1>11, <1>12 DEF VecIInv

LEMMA VecResetInv ==
  ASSUME VecIInv, Sorted!Reset
  PROVE  VecIInv'
<1>1. /\ UNCHANGED <<backend, lock, value, alive, made, holds, pc, op, arg, temp, idx, pos>>
      /\ vec' = <<>> /\ lock = NoThread /\ Sorted!Known' = {}
  BY DEF Sorted!Reset, Sorted!client, Sorted!objects, Sorted!call, Sorted!Known
<1>2. \A u \in Threads : ~VecInside(u) /\ idx[u] = 1 /\ pos[u] = 0
  BY <1>1, VecFacts DEF VecIInv, VecThreadOK, VecCallOK, VecIdxOK
<1>3. Sorted!TypeOK'
  <2>1. idx' \in [Threads -> 1 .. Len(vec') + 1] /\ pos' \in [Threads -> 0 .. Len(vec') + 1]
    BY <1>1, <1>2, VecShape
  <2>2. vec' \in Seq(1 .. made)
    BY <1>1
  <2>3. QED
    BY <1>1, <2>1, <2>2 DEF VecIInv, Sorted!TypeOK, Sorted!ClientTypeOK
<1>4. ASSUME NEW u \in Threads
      PROVE  VecThreadOK(u)'
  BY <1>1, <1>2 DEF VecIInv, VecThreadOK, VecCallOK, VecIdxOK, VecScanOK, VecPendingOK,
       VecInside
<1>5. VecValueOK' /\ VecOrdered' /\ VecUnique'
  BY <1>1 DEF VecIInv, VecValueOK, VecOrdered, VecUnique
<1>6. QED
  BY <1>3, <1>4, <1>5 DEF VecIInv

LEMMA VecNextInv == VecIInv /\ [Sorted!Next]_(Sorted!vars) => VecIInv'
<1> SUFFICES ASSUME VecIInv, [Sorted!Next]_(Sorted!vars) PROVE VecIInv'
  OBVIOUS
<1>1. CASE Sorted!ClientNext /\ UNCHANGED Sorted!vector
  BY <1>1, VecCallInv, VecHoldsInv, VecReturnInv DEF Sorted!ClientNext
<1>2. ASSUME NEW o \in Sorted!Objects, Sorted!ExpireEntry(o)
      PROVE  VecIInv'
  BY <1>2, VecExpireInv
<1>3. ASSUME NEW t \in Threads,
             Sorted!Search(t) \/ Sorted!Scan(t) \/ Sorted!EndUp(t) \/ Sorted!EndDown(t)
             \/ Sorted!CreateForVector(t) \/ Sorted!Insert(t)
      PROVE  VecIInv'
  BY <1>3, VecSearchInv, VecScanInv, VecEndUpInv, VecEndDownInv, VecCreateInv, VecInsertInv
<1>4. CASE Sorted!Reset
  BY <1>4, VecResetInv
<1>5. CASE UNCHANGED Sorted!vars
  BY <1>5 DEF Sorted!vars, Sorted!client, Sorted!objects, Sorted!call, Sorted!vector, VecIInv,
       Sorted!TypeOK, Sorted!ClientTypeOK, VecThreadOK,
              VecCallOK, VecIdxOK, VecScanOK, VecPendingOK, VecInside, VecMatch,
              Sorted!EntryHash, Sorted!Hash, Sorted!Known, VecValueOK,
              VecOrdered, VecUnique
<1>6. QED
  BY <1>1, <1>2, <1>3, <1>4, <1>5 DEF Sorted!Next
(* The order every binary search relies on: insertions at whatever         *)
(* position of a run a search returned keep equal hashes together.         *)
LEMMA VecOrderedSorts == ASSUME VecIInv PROVE Sorted!HashSorted
<1> SUFFICES ASSUME NEW i \in 1 .. Len(vec) - 1
                    PROVE Sorted!EntryHash(i) <= Sorted!EntryHash(i + 1)
  BY DEF Sorted!HashSorted
<1>1. i \in DOMAIN vec /\ i + 1 \in DOMAIN vec /\ i <= i + 1
  BY VecFacts
<1>2. QED
  BY <1>1 DEF VecIInv, VecOrdered
-----------------------------------------------------------------------------
(***************************************************************************)
(* The refinement of Interning.                                            *)
(***************************************************************************)
(* What the table knows is stored, and what a caller holds is alive.       *)
LEMMA VecAbstraction ==
  ASSUME VecIInv
  PROVE  /\ \A o \in Sorted!Known : o \in Sorted!Objects /\ Sorted!ValueStored[o] = value[o]
         /\ \A o : Sorted!Table!Held(o) => o \in alive \/ o = NoObject
<1> USE DEF VecIInv
<1>1. \A o \in Sorted!Known : o \in Sorted!Objects /\ ~Sorted!Pending(o)
  BY VecFacts DEF VecThreadOK, VecPendingOK, Sorted!Pending
<1>2. \A o \in Sorted!Known : Sorted!ValueStored[o] = value[o]
  BY <1>1 DEF Sorted!ValueStored
<1>3. \A o : Sorted!Table!Held(o) => o \in alive \/ o = NoObject
  BY DEF Sorted!TypeOK, Sorted!ClientTypeOK, Sorted!Table!Held, Sorted!Got
<1>4. QED
  BY <1>1, <1>2, <1>3

(* The objects a lookup of v must answer with are live entries with v.     *)
LEMMA VecCanonicalIsEntry ==
  ASSUME VecIInv, NEW v, NEW o \in Sorted!Table!Canonical(v)
  PROVE  \E i \in DOMAIN vec : o = vec[i] /\ o \in alive /\ value[o] = v
<1>1. o \in Sorted!Known /\ value[o] = v /\ o \in alive
  BY VecAbstraction, VecFacts DEF Sorted!Table!Canonical
<1>2. QED
  BY <1>1 DEF Sorted!Known

LEMMA VecRefineInit == Sorted!Init => Sorted!Table!Init
<1> SUFFICES ASSUME Sorted!Init PROVE Sorted!Table!Init
  OBVIOUS
<1>1. Sorted!Reclaimed = {} /\ Sorted!Known = {}
  BY DEF Sorted!Init, Sorted!ClientInit, Sorted!Reclaimed, Sorted!Known
<1>2. Sorted!ValueStored = [o \in Sorted!Objects |-> NoValue]
  BY DEF Sorted!Init, Sorted!ClientInit, Sorted!ValueStored
<1>3. Sorted!Stage = [t \in Threads |-> "idle"] /\ Sorted!Got = [t \in Threads |-> NoObject]
  BY DEF Sorted!Init, Sorted!ClientInit, Sorted!Stage, Sorted!Got
<1>4. QED
  BY <1>1, <1>2, <1>3 DEF Sorted!Init, Sorted!ClientInit, Sorted!Table!Init

(* A step that inserts nothing leaves the contents as they are.            *)
LEMMA VecSameValues ==
  ASSUME UNCHANGED value,
         \A t \in Threads :
            \/ pc'[t] = pc[t] /\ temp'[t] = temp[t]
            \/ pc[t] # "insert" /\ pc'[t] # "insert"
  PROVE  UNCHANGED Sorted!ValueStored
<1>1. \A o \in Sorted!Objects : Sorted!Pending(o)' <=> Sorted!Pending(o)
  BY DEF Sorted!Pending
<1>2. QED
  BY <1>1 DEF Sorted!ValueStored

(* A step inside a call without effect for callers.                        *)
VecOpen == {"lookup", "up", "down", "create"}

LEMMA VecStutter ==
  ASSUME NEW t \in Threads, VecIInv,
         UNCHANGED <<arg, op, holds, value, alive, made, vec, temp>>,
         pc' = [pc EXCEPT ![t] = pc'[t]],
         pc[t] \in VecOpen, pc'[t] \in VecOpen
  PROVE  UNCHANGED Sorted!Table!vars
<1>1. \A u \in Threads \ {t} : pc'[u] = pc[u]
  BY DEF VecIInv, Sorted!TypeOK
<1>2. UNCHANGED Sorted!ValueStored
  BY <1>1, VecSameValues DEF VecOpen
<1>3. UNCHANGED <<Sorted!Stage, Sorted!Got>>
  BY <1>1 DEF Sorted!Stage, Sorted!Got, VecOpen
<1>4. QED
  BY <1>2, <1>3 DEF Sorted!Table!vars, Sorted!Reclaimed, Sorted!Known

LEMMA VecRefineStutter ==
  ASSUME VecIInv, NEW t \in Threads,
         \/ Sorted!Search(t) \/ Sorted!EndUp(t)
         \/ Sorted!Scan(t) /\ ~Sorted!Hit(t)
         \/ Sorted!EndDown(t) /\ op[t] # "get"
  PROVE  UNCHANGED Sorted!Table!vars
<1> USE DEF Sorted!Goto, Sorted!objects, Sorted!call, VecOpen, VecIInv, Sorted!TypeOK
<1>1. CASE Sorted!Search(t)
  BY <1>1, VecStutter DEF Sorted!Search
<1>2. CASE Sorted!EndUp(t)
  BY <1>2, VecStutter DEF Sorted!EndUp
<1>3. CASE Sorted!Scan(t) /\ ~Sorted!Hit(t)
  <2>1. pc' = [pc EXCEPT ![t] = pc'[t]] /\ pc'[t] \in VecOpen /\ pc[t] \in VecOpen
    BY <1>3 DEF Sorted!Scan
  <2>2. QED
    BY <1>3, <2>1, VecStutter DEF Sorted!Scan
<1>4. CASE Sorted!EndDown(t) /\ op[t] # "get"
  BY <1>4, VecStutter DEF Sorted!EndDown
<1>5. QED
  BY <1>1, <1>2, <1>3, <1>4

LEMMA VecRefineCreate ==
  ASSUME VecIInv, NEW t \in Threads, Sorted!CreateForVector(t)
  PROVE  UNCHANGED Sorted!Table!vars
<1> USE DEF VecIInv, Sorted!TypeOK, Sorted!ClientTypeOK
<1>0. PICK n \in Sorted!Objects : n = made + 1
  <2>1. made \in Nat /\ MaxObjects \in Nat /\ made < MaxObjects
    BY ClientAssumption DEF Objects, Sorted!CreateForVector, Sorted!Create
  <2>2. QED
    BY <2>1 DEF Sorted!Objects
<1>1. /\ pc[t] = "create" /\ pc' = [pc EXCEPT ![t] = "insert"]
      /\ temp' = [temp EXCEPT ![t] = n] /\ value' = [value EXCEPT ![n] = arg[t]]
      /\ alive' = alive \cup {n} /\ made' = n
      /\ UNCHANGED <<arg, op, holds, vec>>
  BY <1>0 DEF Sorted!CreateForVector, Sorted!Create, Sorted!Goto, Sorted!call, Sorted!vector
<1>2. /\ n # NoObject /\ n \notin alive
      /\ 1 .. n = 1 .. made \cup {n} /\ n \notin 1 .. made
  BY <1>0, VecFacts
<1>3. \A u \in Threads :
        /\ pc'[u] = IF u = t THEN "insert" ELSE pc[u]
        /\ temp'[u] = IF u = t THEN n ELSE temp[u]
        /\ temp[u] # n
  BY <1>1, <1>2
<1>4. value[n] = NoValue
  BY <1>0, VecFacts DEF VecValueOK
<1>5. \A o \in Sorted!Objects \ {n} : Sorted!Pending(o)' <=> Sorted!Pending(o)
  BY <1>1, <1>3 DEF Sorted!Pending
<1>6. Sorted!Pending(n)'
  <2>1. temp'[t] = n /\ pc'[t] = "insert"
    BY <1>3
  <2>2. QED
    BY <2>1 DEF Sorted!Pending
<1>7. UNCHANGED Sorted!ValueStored
  <2>1. \A o \in Sorted!Objects \ {n} : value'[o] = value[o]
    BY <1>1
  <2>2. ASSUME NEW o \in Sorted!Objects
        PROVE  Sorted!ValueStored'[o] = Sorted!ValueStored[o]
    <3>1. CASE o = n
      BY <1>4, <1>6, <3>1 DEF Sorted!ValueStored
    <3>2. CASE o # n
      BY <1>5, <2>1, <3>2 DEF Sorted!ValueStored
    <3>3. QED
      BY <3>1, <3>2
  <2>3. QED
    BY <2>2 DEF Sorted!ValueStored
<1>8. UNCHANGED <<Sorted!Stage, Sorted!Got>>
  BY <1>1, <1>3 DEF Sorted!Stage, Sorted!Got
<1>9. UNCHANGED <<Sorted!Reclaimed, Sorted!Known>>
  BY <1>1, <1>2 DEF Sorted!Reclaimed, Sorted!Known
<1>10. QED
  BY <1>1, <1>7, <1>8, <1>9 DEF Sorted!Table!vars

(* A scan that finds a live equal entry.                                   *)
LEMMA VecRefineFind ==
  ASSUME VecIInv, NEW t \in Threads, Sorted!Scan(t), Sorted!Hit(t)
  PROVE  Sorted!Table!Find(t, vec[pos[t]]) /\ vec[pos[t]] \in Sorted!Objects
<1> DEFINE o == vec[pos[t]]
<1> USE DEF VecIInv, Sorted!TypeOK, Sorted!ClientTypeOK
<1>1. \A u \in Threads :
        /\ pc'[u] = IF u = t THEN "done" ELSE pc[u]
        /\ temp'[u] = IF u = t THEN o ELSE temp[u]
  BY VecHitFacts
<1>2. UNCHANGED <<Sorted!ValueStored, Sorted!Reclaimed, Sorted!Known>>
  <2>1. pc[t] # "insert" /\ UNCHANGED <<value, alive, made, vec>>
    BY VecHitFacts
  <2>2. UNCHANGED Sorted!ValueStored
    BY <1>1, <2>1, VecSameValues
  <2>3. QED
    BY <2>1, <2>2 DEF Sorted!Reclaimed, Sorted!Known
<1>3. Sorted!Stage[t] \in {"get", "get_or_insert"}
      /\ Sorted!Stage' = [Sorted!Stage EXCEPT ![t] = "done"]
  <2>1. pc[t] \in {"up", "down"} /\ op' = op
    BY VecHitFacts
  <2>2. QED
    BY <1>1, <2>1 DEF Sorted!Stage
<1>4. Sorted!Got' = [Sorted!Got EXCEPT ![t] = o]
  BY <1>1 DEF Sorted!Got
<1>5. Sorted!ValueStored[o] = arg[t] /\ o \in Sorted!Known \ Sorted!Reclaimed
      /\ o \in Sorted!Objects
  BY VecHitFacts, VecAbstraction DEF Sorted!Reclaimed
<1>6. Sorted!Table!Canonical(arg[t]) \subseteq {o}
  <2>1. pos[t] \in DOMAIN vec
    BY DEF Sorted!Scan, Sorted!InRun, Sorted!IsSameHash
  <2>2. ASSUME NEW p \in Sorted!Table!Canonical(arg[t])
        PROVE  p = o
    <3>1. PICK i \in DOMAIN vec : p = vec[i] /\ p \in alive /\ value[p] = arg[t]
      BY VecCanonicalIsEntry
    <3>2. QED
      BY <2>1, <3>1, VecHitFacts DEF VecUnique
  <2>3. QED
    BY <2>2
<1>7. QED
  BY VecHitFacts, <1>2, <1>3, <1>4, <1>5, <1>6 DEF Sorted!Table!Find

LEMMA VecNothingCanonical ==
  ASSUME VecIInv, NEW t \in Threads, \A i \in DOMAIN vec : ~VecMatch(i, t)
  PROVE  Sorted!Table!Canonical(arg[t]) = {}
  BY VecCanonicalIsEntry DEF VecMatch

(* A get whose scans end.                                                  *)
LEMMA VecRefineMiss ==
  ASSUME VecIInv, NEW t \in Threads, Sorted!EndDown(t), op[t] = "get"
  PROVE  Sorted!Table!Miss(t)
<1>0. \A i \in DOMAIN vec : ~VecMatch(i, t)
  BY VecEndDownFacts DEF Sorted!EndDown
<1> USE DEF VecIInv, Sorted!TypeOK, Sorted!ClientTypeOK
<1>1. /\ pc[t] = "down" /\ pc' = [pc EXCEPT ![t] = "done"]
      /\ temp' = [temp EXCEPT ![t] = NoObject]
      /\ UNCHANGED <<arg, op, holds, value, alive, made, vec>>
  BY DEF Sorted!EndDown, Sorted!Answer, Sorted!Goto, Sorted!call, Sorted!objects
<1>2. \A u \in Threads :
        /\ pc'[u] = IF u = t THEN "done" ELSE pc[u]
        /\ temp'[u] = IF u = t THEN NoObject ELSE temp[u]
  BY <1>1
<1>3. UNCHANGED <<Sorted!ValueStored, Sorted!Reclaimed, Sorted!Known>>
  BY <1>1, <1>2, VecSameValues DEF Sorted!Reclaimed, Sorted!Known
<1>4. Sorted!Stage[t] = "get" /\ Sorted!Stage' = [Sorted!Stage EXCEPT ![t] = "done"]
  BY <1>1, <1>2 DEF Sorted!Stage
<1>5. UNCHANGED Sorted!Got
  BY <1>1, <1>2 DEF Sorted!Got
<1>6. QED
  BY <1>0, <1>1, <1>3, <1>4, <1>5, VecNothingCanonical DEF Sorted!Table!Miss

(* The insertion is where a created object appears.                        *)
LEMMA VecRefineInsert ==
  ASSUME VecIInv, NEW t \in Threads, Sorted!Insert(t)
  PROVE  Sorted!Table!Create(t, temp[t]) /\ temp[t] \in Sorted!Objects
<1> USE DEF VecIInv, Sorted!TypeOK, Sorted!ClientTypeOK
<1> DEFINE o == temp[t]
<1>1. \A u \in Threads : pc'[u] = IF u = t THEN "done" ELSE pc[u]
  BY VecInsertFacts
<1>2. o \in Sorted!Objects /\ \A u \in Threads : pc[u] = "insert" /\ u # t => temp[u] # o
  BY VecInsertFacts, VecFacts DEF VecThreadOK, VecPendingOK
<1>3. Sorted!ValueStored[o] = NoValue
  BY <1>2, VecInsertFacts DEF Sorted!ValueStored, Sorted!Pending
<1>4. Sorted!ValueStored' = [Sorted!ValueStored EXCEPT ![o] = arg[t]]
  <2>1. \A p \in Sorted!Objects \ {o} : Sorted!Pending(p)' <=> Sorted!Pending(p)
    BY <1>1, VecInsertFacts DEF Sorted!Pending
  <2>2. ~Sorted!Pending(o)'
    BY <1>1, <1>2, VecInsertFacts DEF Sorted!Pending
  <2>3. \A p \in Sorted!Objects : Sorted!ValueStored'[p] = IF p = o THEN arg[t] ELSE Sorted!ValueStored[p]
    BY <2>1, <2>2, VecInsertFacts DEF Sorted!ValueStored
  <2>4. QED
    BY <1>2, <2>3 DEF Sorted!ValueStored
<1>5. Sorted!Stage[t] = "get_or_insert" /\ Sorted!Stage' = [Sorted!Stage EXCEPT ![t] = "done"]
  <2>1. pc[t] = "insert" /\ op[t] = "get_or_insert" /\ op' = op
    BY VecInsertFacts
  <2>2. QED
    BY <1>1, <2>1 DEF Sorted!Stage
<1>6. Sorted!Got' = [Sorted!Got EXCEPT ![t] = o]
  <2>1. temp' = temp
    BY VecInsertFacts
  <2>2. QED
    BY <1>1, <2>1 DEF Sorted!Got
<1>7. UNCHANGED Sorted!Reclaimed
  BY VecInsertFacts DEF Sorted!Reclaimed
<1>8. Sorted!Table!Canonical(arg[t]) = {}
  BY VecInsertFacts, VecNothingCanonical
<1>9. Sorted!Known' = Sorted!Known \cup {o} /\ UNCHANGED <<arg, holds>>
  BY VecInsertFacts
<1>10. QED
  BY <1>2, <1>3, <1>4, <1>5, <1>6, <1>7, <1>8, <1>9 DEF Sorted!Table!Create

LEMMA VecRefineReturn ==
  ASSUME VecIInv, UNCHANGED Sorted!vector, NEW t \in Threads, Sorted!Return(t)
  PROVE  Sorted!Table!Return(t)
<1> USE DEF VecIInv, Sorted!TypeOK, Sorted!ClientTypeOK
<1>1. /\ pc[t] = "done" /\ pc' = [pc EXCEPT ![t] = "idle"]
      /\ temp' = [temp EXCEPT ![t] = NoObject]
      /\ op' = [op EXCEPT ![t] = "get"] /\ arg' = [arg EXCEPT ![t] = NoValue]
      /\ holds' = [holds EXCEPT ![t] = @ \cup ({temp[t]} \ {NoObject})]
      /\ UNCHANGED <<value, alive, made, vec>>
  BY DEF Sorted!Return, Sorted!Goto, Sorted!objects, Sorted!vector
<1>2. \A u \in Threads :
        /\ pc'[u] = IF u = t THEN "idle" ELSE pc[u]
        /\ temp'[u] = IF u = t THEN NoObject ELSE temp[u]
        /\ op'[u] = IF u = t THEN "get" ELSE op[u]
  BY <1>1
<1>3. UNCHANGED <<Sorted!ValueStored, Sorted!Reclaimed, Sorted!Known>>
  BY <1>1, <1>2, VecSameValues DEF Sorted!Reclaimed, Sorted!Known
<1>4. Sorted!Stage[t] = "done" /\ Sorted!Stage' = [Sorted!Stage EXCEPT ![t] = "idle"]
  BY <1>1, <1>2 DEF Sorted!Stage
<1>5. Sorted!Got[t] = temp[t] /\ Sorted!Got' = [Sorted!Got EXCEPT ![t] = NoObject]
  BY <1>1, <1>2 DEF Sorted!Got
<1>6. QED
  BY <1>1, <1>3, <1>4, <1>5 DEF Sorted!Table!Return

LEMMA VecRefineCall ==
  ASSUME VecIInv, UNCHANGED Sorted!vector,
         NEW t \in Threads, NEW o \in {"get", "get_or_insert"}, NEW v \in Values, Sorted!Call(t,
         o, v)
  PROVE  Sorted!Table!Call(t, o, v)
<1> USE DEF VecIInv, Sorted!TypeOK, Sorted!ClientTypeOK
<1>1. /\ pc[t] = "idle" /\ pc' = [pc EXCEPT ![t] = "lookup"]
      /\ op' = [op EXCEPT ![t] = o] /\ arg' = [arg EXCEPT ![t] = v]
      /\ UNCHANGED <<temp, holds, value, alive, made, vec>>
  BY DEF Sorted!Call, Sorted!Goto, Sorted!objects, Sorted!vector
<1>2. \A u \in Threads :
        /\ pc'[u] = IF u = t THEN "lookup" ELSE pc[u]
        /\ op'[u] = IF u = t THEN o ELSE op[u]
  BY <1>1
<1>3. UNCHANGED <<Sorted!ValueStored, Sorted!Reclaimed, Sorted!Known>>
  BY <1>1, <1>2, VecSameValues DEF Sorted!Reclaimed, Sorted!Known
<1>4. Sorted!Stage[t] = "idle" /\ Sorted!Stage' = [Sorted!Stage EXCEPT ![t] = o]
  BY <1>1, <1>2 DEF Sorted!Stage
<1>5. UNCHANGED Sorted!Got
  BY <1>1, <1>2 DEF Sorted!Got
<1>6. QED
  BY <1>1, <1>3, <1>4, <1>5 DEF Sorted!Table!Call

(* Clone and Drop leave everything but `holds' alone.                      *)
LEMMA VecRefineHolds ==
  ASSUME VecIInv, UNCHANGED Sorted!vector, NEW t \in Threads, NEW o \in Sorted!Objects
  PROVE  /\ \A q \in Threads : Sorted!Clone(t, q, o) => Sorted!Table!Clone(t, q, o)
         /\ Sorted!Drop(t, o) => Sorted!Table!Drop(t, o)
<1>1. ASSUME UNCHANGED <<pc, op, temp, value, alive, made, vec>>
      PROVE  UNCHANGED <<Sorted!Stage, Sorted!Got, Sorted!ValueStored, Sorted!Reclaimed,
             Sorted!Known>>
  BY <1>1 DEF Sorted!Stage, Sorted!Got, Sorted!ValueStored, Sorted!Pending, Sorted!Reclaimed,
       Sorted!Known
<1>2. QED
  BY <1>1 DEF Sorted!Clone, Sorted!Drop, Sorted!Table!Clone, Sorted!Table!Drop, Sorted!call,
       Sorted!objects, Sorted!vector

LEMMA VecRefineExpire ==
  ASSUME VecIInv, NEW o \in Sorted!Objects, Sorted!ExpireEntry(o)
  PROVE  Sorted!Table!Reclaim(o)
<1> USE DEF VecIInv, Sorted!TypeOK, Sorted!ClientTypeOK
<1>1. /\ o \in alive /\ alive' = alive \ {o} /\ Sorted!NoStrong(o)
      /\ UNCHANGED <<pc, op, arg, temp, holds, value, made, vec>>
  BY DEF Sorted!ExpireEntry, Sorted!Expire, Sorted!call, Sorted!vector
<1>2. UNCHANGED <<Sorted!Stage, Sorted!Got, Sorted!ValueStored, Sorted!Known>>
  BY <1>1 DEF Sorted!Stage, Sorted!Got, Sorted!ValueStored, Sorted!Pending, Sorted!Known
<1>3. ~Sorted!Table!Held(o)
  BY <1>1, VecFacts DEF Sorted!NoStrong, Sorted!Table!Held, Sorted!Got
<1>4. Sorted!ValueStored[o] # NoValue
  <2>1. o <= made /\ NoValue \notin Values
    BY <1>1, VecFacts
  <2>2. QED
    BY <1>1, <2>1 DEF Sorted!ValueStored, Sorted!Pending, Sorted!NoStrong, VecValueOK
<1>5. Sorted!Reclaimed' = Sorted!Reclaimed \cup {o}
  BY <1>1 DEF Sorted!Reclaimed
<1>6. QED
  BY <1>1, <1>2, <1>3, <1>4, <1>5 DEF Sorted!Table!Reclaim

LEMMA VecRefineReset ==
  ASSUME VecIInv, Sorted!Reset
  PROVE  Sorted!Table!Forget(Sorted!Known)
<1>1. /\ vec' = <<>>
      /\ UNCHANGED <<pc, op, arg, temp, holds, value, alive, made>>
  BY DEF Sorted!Reset, Sorted!client, Sorted!call, Sorted!objects
<1>2. Sorted!Known' = Sorted!Known \ Sorted!Known
  BY <1>1 DEF Sorted!Known
<1>3. UNCHANGED <<Sorted!Stage, Sorted!Got, Sorted!ValueStored, Sorted!Reclaimed>>
  BY <1>1 DEF Sorted!Stage, Sorted!Got, Sorted!ValueStored, Sorted!Pending, Sorted!Reclaimed
<1>4. QED
  BY <1>1, <1>2, <1>3 DEF Sorted!Table!Forget

LEMMA VecRefineNext == VecIInv /\ [Sorted!Next]_(Sorted!vars)
    => [Sorted!Table!Next]_(Sorted!Table!vars)
<1> SUFFICES ASSUME VecIInv, [Sorted!Next]_(Sorted!vars)
                    PROVE [Sorted!Table!Next]_(Sorted!Table!vars)
  OBVIOUS
<1>1. ASSUME NEW t \in Threads,
             Sorted!Search(t) \/ Sorted!Scan(t) \/ Sorted!EndUp(t) \/ Sorted!EndDown(t)
             \/ Sorted!CreateForVector(t) \/ Sorted!Insert(t)
      PROVE  [Sorted!Table!Next]_(Sorted!Table!vars)
  <2>1. CASE Sorted!Scan(t) /\ Sorted!Hit(t)
    BY <2>1, VecRefineFind DEF Sorted!Table!Next
  <2>2. CASE Sorted!EndDown(t) /\ op[t] = "get"
    BY <2>2, VecRefineMiss DEF Sorted!Table!Next
  <2>3. CASE Sorted!Insert(t)
    BY <2>3, VecRefineInsert DEF Sorted!Table!Next
  <2>4. QED
    BY <1>1, <2>1, <2>2, <2>3, VecRefineStutter, VecRefineCreate
<1>2. CASE Sorted!ClientNext /\ UNCHANGED Sorted!vector
  BY <1>2, VecRefineCall, VecRefineReturn, VecRefineHolds DEF Sorted!ClientNext,
       Sorted!Table!Next
<1>3. ASSUME NEW o \in Sorted!Objects, Sorted!ExpireEntry(o)
      PROVE  [Sorted!Table!Next]_(Sorted!Table!vars)
  BY <1>3, VecRefineExpire DEF Sorted!Table!Next
<1>4. CASE Sorted!Reset
  BY <1>4, VecRefineReset DEF Sorted!Table!Next
<1>5. CASE UNCHANGED Sorted!vars
  BY <1>5 DEF Sorted!vars, Sorted!client, Sorted!objects, Sorted!call, Sorted!vector,
       Sorted!Table!vars, Sorted!Stage, Sorted!Got, Sorted!ValueStored, Sorted!Pending,
              Sorted!Reclaimed, Sorted!Known
<1>6. QED
  BY <1>1, <1>2, <1>3, <1>4, <1>5 DEF Sorted!Next

-----------------------------------------------------------------------------
(***************************************************************************)
(* Either of them.                                                         *)
(***************************************************************************)

(* Each kind of table has its own invariant; a map leaves the vector alone. *)
IInv == IF InVector THEN VecIInv ELSE MapIInv /\ vec = <<>>

-----------------------------------------------------------------------------
(* Which table it is stays as it was built.                                *)
LEMMA Backends ==
  /\ MapIInv => ~InVector
  /\ VecIInv => InVector
  BY DEF InVector, MapIInv, Collection!TypeOK, Collection!Strong, VecIInv, Sorted!TypeOK

LEMMA InitInv == Init => IInv
<1> SUFFICES ASSUME Init PROVE IInv
  OBVIOUS
<1>1. CASE Collection!Init /\ vec = <<>>
  <2>1. MapIInv
    BY <1>1, MapInitInv
  <2>2. QED
    BY <2>1, <1>1, Backends DEF IInv
<1>2. CASE Sorted!Init
  <2>1. VecIInv
    BY <1>2, VecInitInv
  <2>2. QED
    BY <2>1, Backends DEF IInv
<1>3. QED
  BY <1>1, <1>2 DEF Init

LEMMA NextOfMap ==
  ASSUME ~InVector, IInv, [Next]_vars
  PROVE  /\ MapIInv
         /\ [Collection!Next]_(Collection!vars)
         /\ vec = <<>> /\ UNCHANGED vec
<1>1. MapIInv /\ vec = <<>>
  BY DEF IInv
<1>2. CASE Collection!Next /\ UNCHANGED <<vec, idx, pos>>
  BY <1>1, <1>2
<1>3. CASE UNCHANGED vars
  BY <1>1, <1>3 DEF vars, Collection!vars, client, objects, call, Collection!client,
                    Collection!objects, Collection!call, Collection!collection
<1>4. QED
  BY <1>2, <1>3 DEF Next, InVector

LEMMA NextOfVector ==
  ASSUME InVector, IInv, [Next]_vars
  PROVE  /\ VecIInv
         /\ [Sorted!Next]_(Sorted!vars)
<1>1. VecIInv
  BY DEF IInv
<1>2. CASE Sorted!Next
  BY <1>1, <1>2
<1>3. CASE UNCHANGED vars
  BY <1>1, <1>3 DEF vars, Sorted!vars, client, objects, call, Sorted!client, Sorted!objects,
                    Sorted!call, Sorted!vector
<1>4. QED
  BY <1>2, <1>3 DEF Next, InVector

LEMMA NextInv == IInv /\ [Next]_vars => IInv' /\ (InVector <=> InVector')
<1> SUFFICES ASSUME IInv, [Next]_vars PROVE IInv' /\ (InVector <=> InVector')
  OBVIOUS
<1>1. CASE ~InVector
  <2>1. (MapIInv)' /\ (vec = <<>>)'
    BY <1>1, NextOfMap, MapNextInv
  <2>2. ~InVector'
    BY <2>1 DEF InVector, MapIInv, Collection!TypeOK, Collection!Strong
  <2>3. QED
    BY <1>1, <2>1, <2>2 DEF IInv
<1>2. CASE InVector
  <2>1. (VecIInv)'
    BY <1>2, NextOfVector, VecNextInv
  <2>2. InVector'
    BY <2>1 DEF InVector, VecIInv, Sorted!TypeOK
  <2>3. QED
    BY <1>2, <2>1, <2>2 DEF IInv
<1>3. QED
  BY <1>1, <1>2

LEMMA Invariance == Spec => []IInv
<1>1. IInv /\ [Next]_vars => IInv'
  BY NextInv
<1>2. QED
  BY InitInv, <1>1, PTL DEF Spec

(* Each backend keeps the types of its state.                              *)
THEOREM TypeCorrect == Spec => []TypeOK
<1>1. IInv => TypeOK
  BY Backends DEF IInv, TypeOK, InVector, MapIInv, VecIInv
<1>2. QED
  BY <1>1, Invariance, PTL

(* No insertion of a table with strong handles loses what another one has  *)
(* inserted, whichever of the backends it is.                              *)
THEOREM TableRetains == Spec => []Retained
<1>1. IInv => Retained
  <2>1. CASE ~InVector
    BY <2>1, MapFindableRetains DEF IInv, Retained
  <2>2. CASE InVector
    BY <2>2 DEF Retained, InVector, Collection!Retained, Collection!Strong
  <2>3. QED
    BY <2>1, <2>2
<1>2. QED
  BY <1>1, Invariance, PTL

(* The vector a binary search goes through is sorted by hash.              *)
THEOREM TableSorted == Spec => []HashSorted
<1>1. IInv => HashSorted
  <2>1. CASE ~InVector
    BY <2>1 DEF IInv, HashSorted, Sorted!HashSorted
  <2>2. CASE InVector
    BY <2>2, VecOrderedSorts DEF IInv, HashSorted
  <2>3. QED
    BY <2>1, <2>2
<1>2. QED
  BY <1>1, Invariance, PTL
-----------------------------------------------------------------------------
(* The refinement: what Interning sees of a table is what it sees of the   *)
(* backend.                                                                *)
LEMMA SameView ==
  /\ Collection!Stage = Stage /\ Collection!Got = Got
  /\ Sorted!Stage = Stage /\ Sorted!Got = Got
  BY DEF Stage, Collection!Stage, Sorted!Stage, Got, Collection!Got, Sorted!Got

LEMMA SameNextView ==
  /\ (Collection!Stage)' = Stage' /\ (Collection!Got)' = Got'
  /\ (Sorted!Stage)' = Stage' /\ (Sorted!Got)' = Got'
  BY DEF Stage, Collection!Stage, Sorted!Stage, Got, Collection!Got, Sorted!Got

(* Equal content, same object, for all pairs of handles any threads hold.  *)
THEOREM TableHashConses == Spec => []HashConsing
<1>1. ASSUME IInv, ~InVector
      PROVE  HashConsing
  <2>1. MapIInv
    BY <1>1 DEF IInv
  <2>2. \A o : Table!Held(o) => Collection!Table!Held(o)
    BY SameView DEF Table!Held, Collection!Table!Held
  <2>3. ASSUME NEW o \in known, NEW p \in known, Table!Held(o), Table!Held(p),
               Collection!ValueStored[o] = Collection!ValueStored[p]
        PROVE  o = p
    <3>1. o \in alive /\ p \in alive /\ value[o] = value[p]
      BY <2>1, <2>2, <2>3, MapAbstraction, MapFacts
    <3>2. QED
      BY <2>1, <3>1 DEF MapIInv, MapFindable
  <2>4. QED
    BY <1>1, <2>3 DEF HashConsing, Table!HashConsing
<1>2. ASSUME IInv, InVector
      PROVE  HashConsing
  <2>1. VecIInv
    BY <1>2 DEF IInv
  <2>2. \A o : Table!Held(o) => Sorted!Table!Held(o)
    BY SameView DEF Table!Held, Sorted!Table!Held
  <2>3. ASSUME NEW o \in Sorted!Known, NEW p \in Sorted!Known, Table!Held(o), Table!Held(p),
               Sorted!ValueStored[o] = Sorted!ValueStored[p]
        PROVE  o = p
    <3>1. o \in alive /\ p \in alive /\ value[o] = value[p]
      BY <2>1, <2>2, <2>3, VecAbstraction, VecFacts
    <3>2. QED
      BY <2>1, <2>3, <3>1 DEF VecIInv, VecUnique, Sorted!Known
  <2>4. QED
    BY <1>2, <2>3 DEF HashConsing, Table!HashConsing
<1>3. IInv => HashConsing
  BY <1>1, <1>2
<1>4. QED
  BY <1>3, Invariance, PTL

LEMMA MapView ==
  ASSUME ~InVector
  PROVE  /\ Table!vars = Collection!Table!vars
         /\ Collection!Table!Init => Table!Init
  BY SameView DEF Table!vars, Collection!Table!vars, Table!Init, Collection!Table!Init,
                  Objects, Collection!Objects

LEMMA SearchView ==
  ASSUME InVector
  PROVE  /\ Table!vars = Sorted!Table!vars
         /\ Sorted!Table!Init => Table!Init
  BY SameView DEF Table!vars, Sorted!Table!vars, Table!Init, Sorted!Table!Init,
                  Objects, Sorted!Objects

LEMMA MapStep ==
  ASSUME ~InVector, (~InVector)', Collection!Table!Next
  PROVE  Table!Next
<1> USE DEF Objects, Collection!Objects
<1>1. /\ Collection!Stage = Stage /\ Collection!Got = Got
  BY SameView
<1>2. /\ (Collection!Stage)' = Stage' /\ (Collection!Got)' = Got'
  BY SameNextView
<1>3. ASSUME NEW o \in Objects PROVE Collection!Table!Held(o) <=> Table!Held(o)
  BY <1>1 DEF Collection!Table!Held, Table!Held
<1>4. ASSUME NEW v PROVE Collection!Table!Canonical(v) = Table!Canonical(v)
  BY <1>1 DEF Collection!Table!Canonical, Table!Canonical, Collection!Table!Held, Table!Held
<1>5. ASSUME NEW t \in Threads, NEW o \in {"get", "get_or_insert"}, NEW v \in Values,
             Collection!Table!Call(t, o, v)
      PROVE  Table!Call(t, o, v)
  BY <1>1, <1>2, <1>5 DEF Collection!Table!Call, Table!Call
<1>6. ASSUME NEW t \in Threads, NEW q \in Threads, NEW o \in Objects,
             Collection!Table!Clone(t, q, o)
      PROVE  Table!Clone(t, q, o)
  BY <1>1, <1>2, <1>6 DEF Collection!Table!Clone, Table!Clone
<1>7. ASSUME NEW t \in Threads, NEW o \in Objects, Collection!Table!Drop(t, o)
      PROVE  Table!Drop(t, o)
  BY <1>1, <1>2, <1>7 DEF Collection!Table!Drop, Table!Drop
<1>8. ASSUME NEW t \in Threads, NEW o \in Objects, Collection!Table!Find(t, o)
      PROVE  Table!Find(t, o)
  BY <1>1, <1>2, <1>4, <1>8 DEF Collection!Table!Find, Table!Find
<1>9. ASSUME NEW t \in Threads, NEW o \in Objects, Collection!Table!Create(t, o)
      PROVE  Table!Create(t, o)
  BY <1>1, <1>2, <1>4, <1>9 DEF Collection!Table!Create, Table!Create
<1>10. ASSUME NEW t \in Threads, Collection!Table!Miss(t)
       PROVE  Table!Miss(t)
  BY <1>1, <1>2, <1>4, <1>10 DEF Collection!Table!Miss, Table!Miss
<1>11. ASSUME NEW t \in Threads, Collection!Table!Return(t)
       PROVE  Table!Return(t)
  BY <1>1, <1>2, <1>11 DEF Collection!Table!Return, Table!Return
<1>12. ASSUME NEW o \in Objects, Collection!Table!Reclaim(o)
       PROVE  Table!Reclaim(o)
  BY <1>1, <1>2, <1>3, <1>12 DEF Collection!Table!Reclaim, Table!Reclaim
<1>13. ASSUME NEW S, Collection!Table!Forget(S)
       PROVE  Table!Forget(S)
  BY <1>1, <1>2, <1>13 DEF Collection!Table!Forget, Table!Forget
<1>14. QED
  BY <1>5, <1>6, <1>7, <1>8, <1>9, <1>10, <1>11, <1>12, <1>13
     DEF Collection!Table!Next, Table!Next

LEMMA SearchStep ==
  ASSUME InVector, (InVector)', Sorted!Table!Next
  PROVE  Table!Next
<1> USE DEF Objects, Sorted!Objects
<1>1. /\ Sorted!Stage = Stage /\ Sorted!Got = Got
  BY SameView
<1>2. /\ (Sorted!Stage)' = Stage' /\ (Sorted!Got)' = Got'
  BY SameNextView
<1>3. ASSUME NEW o \in Objects PROVE Sorted!Table!Held(o) <=> Table!Held(o)
  BY <1>1 DEF Sorted!Table!Held, Table!Held
<1>4. ASSUME NEW v PROVE Sorted!Table!Canonical(v) = Table!Canonical(v)
  BY <1>1 DEF Sorted!Table!Canonical, Table!Canonical, Sorted!Table!Held, Table!Held
<1>5. ASSUME NEW t \in Threads, NEW o \in {"get", "get_or_insert"}, NEW v \in Values,
             Sorted!Table!Call(t, o, v)
      PROVE  Table!Call(t, o, v)
  BY <1>1, <1>2, <1>5 DEF Sorted!Table!Call, Table!Call
<1>6. ASSUME NEW t \in Threads, NEW q \in Threads, NEW o \in Objects,
             Sorted!Table!Clone(t, q, o)
      PROVE  Table!Clone(t, q, o)
  BY <1>1, <1>2, <1>6 DEF Sorted!Table!Clone, Table!Clone
<1>7. ASSUME NEW t \in Threads, NEW o \in Objects, Sorted!Table!Drop(t, o)
      PROVE  Table!Drop(t, o)
  BY <1>1, <1>2, <1>7 DEF Sorted!Table!Drop, Table!Drop
<1>8. ASSUME NEW t \in Threads, NEW o \in Objects, Sorted!Table!Find(t, o)
      PROVE  Table!Find(t, o)
  BY <1>1, <1>2, <1>4, <1>8 DEF Sorted!Table!Find, Table!Find
<1>9. ASSUME NEW t \in Threads, NEW o \in Objects, Sorted!Table!Create(t, o)
      PROVE  Table!Create(t, o)
  BY <1>1, <1>2, <1>4, <1>9 DEF Sorted!Table!Create, Table!Create
<1>10. ASSUME NEW t \in Threads, Sorted!Table!Miss(t)
       PROVE  Table!Miss(t)
  BY <1>1, <1>2, <1>4, <1>10 DEF Sorted!Table!Miss, Table!Miss
<1>11. ASSUME NEW t \in Threads, Sorted!Table!Return(t)
       PROVE  Table!Return(t)
  BY <1>1, <1>2, <1>11 DEF Sorted!Table!Return, Table!Return
<1>12. ASSUME NEW o \in Objects, Sorted!Table!Reclaim(o)
       PROVE  Table!Reclaim(o)
  BY <1>1, <1>2, <1>3, <1>12 DEF Sorted!Table!Reclaim, Table!Reclaim
<1>13. ASSUME NEW S, Sorted!Table!Forget(S)
       PROVE  Table!Forget(S)
  BY <1>1, <1>2, <1>13 DEF Sorted!Table!Forget, Table!Forget
<1>14. QED
  BY <1>1, <1>5, <1>6, <1>7, <1>8, <1>9, <1>10, <1>11, <1>12, <1>13
     DEF Sorted!Table!Next, Table!Next

LEMMA RefineInit == Init => Table!Init
<1> SUFFICES ASSUME Init PROVE Table!Init
  OBVIOUS
<1>1. IInv
  BY InitInv
<1>2. CASE Collection!Init
  <2>1. ~InVector
    BY <1>2 DEF Collection!Init, Collection!Strong, InVector
  <2>2. Collection!Table!Init
    BY <1>2, MapRefineInit
  <2>3. QED
    BY <2>1, <2>2, MapView
<1>3. CASE Sorted!Init
  <2>1. InVector
    BY <1>3 DEF Sorted!Init, InVector
  <2>2. Sorted!Table!Init
    BY <1>3, VecRefineInit
  <2>3. QED
    BY <2>1, <2>2, SearchView
<1>4. QED
  BY <1>2, <1>3 DEF Init

LEMMA RefineNext == IInv /\ [Next]_vars => [Table!Next]_(Table!vars)
<1> SUFFICES ASSUME IInv, [Next]_vars PROVE [Table!Next]_(Table!vars)
  OBVIOUS
<1>1. InVector <=> InVector'
  BY NextInv
<1>2. CASE ~InVector
  <2>1. [Collection!Table!Next]_(Collection!Table!vars)
    BY <1>2, NextOfMap, MapRefineNext
  <2>2. Table!vars = Collection!Table!vars /\ (Table!vars)' = (Collection!Table!vars)'
    BY <1>1, <1>2, SameView, SameNextView DEF Table!vars, Collection!Table!vars
  <2>3. QED
    BY <1>1, <1>2, <2>1, <2>2, MapStep
<1>3. CASE InVector
  <2>1. [Sorted!Table!Next]_(Sorted!Table!vars)
    BY <1>3, NextOfVector, VecRefineNext
  <2>2. Table!vars = Sorted!Table!vars /\ (Table!vars)' = (Sorted!Table!vars)'
    BY <1>1, <1>3, SameView, SameNextView DEF Table!vars, Sorted!Table!vars
  <2>3. QED
    BY <1>1, <1>3, <2>1, <2>2, SearchStep
<1>4. QED
  BY <1>2, <1>3

(* Whichever table the configuration chooses, callers get the contract of  *)
(* Interning, for any number of threads, contents and objects.             *)
THEOREM TableRefines == Spec => ImplementsInterning
<1>1. Spec => Table!Init /\ [][Table!Next]_(Table!vars)
  BY RefineInit, RefineNext, Invariance, PTL DEF Spec
<1>2. QED
  BY <1>1 DEF ImplementsInterning, Table!Spec
=============================================================================
