-------------------------- MODULE CollectionTable --------------------------
(***************************************************************************)
(* The tables that keep objects in a collection of another crate           *)
(* (src/hirpdag_hashconsing/src/table/):                                   *)
(*                                                                         *)
(*   "DashMap"      dashmap_strong.rs: buckets under read-write locks      *)
(*   "Flurry"       flurry_strong.rs: a lock-free map, try_insert          *)
(*   "SkipMap"      skipmap_strong.rs: a lock-free map,                    *)
(*                  get_or_insert_with                                     *)
(*   "ArcSwap"      arcswap_strong.rs: writers publish a modified copy     *)
(*   "WeakHashSet"  tov_weak_table_threadunsafe.rs behind a mutex          *)
(*                                                                         *)
(* A collection is taken by the contract of its methods: a map from        *)
(* content to object, each of whose methods takes effect at an instant.    *)
(* The first four hold strong handles, so that an object of theirs lives   *)
(* until a reset; WeakHashSet holds weak ones.  The contents are those of  *)
(* one bucket of DashMap, or one shard around WeakHashSet.                 *)
(***************************************************************************)
EXTENDS TableClient

VARIABLES
  map,          (* map[v]: the object the collection has for content v     *)
  current,      (* current[t]: the map an ArcSwap writer loaded            *)
  known,        (* history: objects inserted and not removed by a reset    *)
  lost          (* history: objects another insertion was faster than      *)

collection == <<map, current, known, lost>>
vars == <<client, collection>>

Strong == {"DashMap", "Flurry", "SkipMap", "ArcSwap"}
LockFree == {"Flurry", "SkipMap"}

Empty == [v \in Values |-> NoObject]

TypeOK ==
  /\ ClientTypeOK
  /\ backend \in Strong \cup {"WeakHashSet"}
  /\ pc \in [Threads -> {"idle", "lookup", "entry", "search", "lock", "recheck", "create",
                         "insert", "done"}]
  /\ map \in [Values -> 1 .. made \cup {NoObject}]
  /\ current \in [Threads -> [Values -> 1 .. made \cup {NoObject}]]
  /\ known \in SUBSET (1 .. made)
  /\ lost \in SUBSET (1 .. made \ known)

Init ==
  /\ ClientInit
  /\ backend \in Strong \cup {"WeakHashSet"}
  /\ map = Empty
  /\ current = [t \in Threads |-> Empty]
  /\ known = {}
  /\ lost = {}

(* Whether a method of the collection may run: readers of ArcSwap and the  *)
(* lock-free maps never wait; DashMap and WeakHashSet are locked.          *)
MayLook(t) == backend \in LockFree \cup {"ArcSwap"} \/ lock \in {NoThread, t}

(* Finding and inserting: a weak collection skips what has expired.        *)
Has(v) == map[v] # NoObject /\ (backend \in Strong \/ map[v] \in alive)

(* The handles inside the collection keep its objects alive.               *)
HandleKept(o) == FALSE
Kept(o) == backend \in Strong /\ \E v \in Values : map[v] = o

ExpireUnkept(o) ==
  /\ ~Kept(o)
  /\ Expire(o)
  /\ UNCHANGED collection

(* What a get_or_insert that found nothing does next: take the entry of    *)
(* its bucket, insert through the lock-free map, or become the writer.     *)
AfterMiss ==
  CASE backend = "DashMap" -> "entry"
    [] backend = "SkipMap" -> "search"
    [] backend = "ArcSwap" -> "lock"
    [] OTHER -> "create"

(* get, and the fast path of get_or_insert.  Behind the mutex around       *)
(* WeakHashSet there is no fast path: the lock is kept.                    *)
Lookup(t) ==
  /\ pc[t] = "lookup"
  /\ MayLook(t)
  /\ \/ /\ Has(arg[t])
        /\ Answer(t, map[arg[t]])
        /\ UNCHANGED lock
     \/ /\ ~Has(arg[t]) /\ op[t] = "get"
        /\ Answer(t, NoObject)
        /\ UNCHANGED lock
     \/ /\ ~Has(arg[t]) /\ op[t] = "get_or_insert"
        /\ lock' = IF backend = "WeakHashSet" THEN t ELSE lock
        /\ Goto(t, AfterMiss)
        /\ UNCHANGED temp
  /\ UNCHANGED <<backend, objects, holds, call, collection>>

(* DashMap: the entry locks the bucket until it is filled; ...             *)
Entry(t) ==
  /\ pc[t] = "entry"
  /\ lock = NoThread
  /\ \/ Has(arg[t]) /\ Answer(t, map[arg[t]]) /\ UNCHANGED lock
     \/ ~Has(arg[t]) /\ lock' = t /\ Goto(t, "create") /\ UNCHANGED temp
  /\ UNCHANGED <<backend, objects, holds, call, collection>>

(* ... SkipMap: get_or_insert_with runs its closure if it finds no entry   *)
(* at first.                                                               *)
Search(t) ==
  /\ pc[t] = "search"
  /\ \/ Has(arg[t]) /\ Answer(t, map[arg[t]])
     \/ ~Has(arg[t]) /\ Goto(t, "create") /\ UNCHANGED temp
  /\ UNCHANGED <<backend, lock, objects, holds, call, collection>>

(* ArcSwap: writers exclude each other ...                                 *)
NoExclusion == TRUE
NoWriter == lock = NoThread

WriteLock(t) ==
  /\ pc[t] = "lock"
  /\ NoWriter
  /\ lock' = t
  /\ Goto(t, "recheck")
  /\ UNCHANGED <<backend, objects, holds, call, temp, collection>>

(* ... and look again in the map they will copy.                           *)
Recheck(t) ==
  /\ pc[t] = "recheck"
  /\ \/ Has(arg[t]) /\ Answer(t, map[arg[t]]) /\ lock' = NoThread /\ UNCHANGED current
     \/ /\ ~Has(arg[t])
        /\ current' = [current EXCEPT ![t] = map]
        /\ Goto(t, "create")
        /\ UNCHANGED <<temp, lock>>
  /\ UNCHANGED <<backend, objects, holds, call, map, known, lost>>

CreateForMap(t) == Create(t) /\ UNCHANGED collection

(* The object is stored, by ArcSwap's writer in the copy it publishes.     *)
(* try_insert and get_or_insert_with store nothing over an entry ...       *)
Overwrites(t) == FALSE
LosesRace(t) == backend \in LockFree /\ Has(arg[t])

Insert(t) ==
  /\ pc[t] = "insert"
  /\ ~LosesRace(t)
  /\ map' = [(IF backend = "ArcSwap" THEN current[t] ELSE map) EXCEPT ![arg[t]] = temp[t]]
  /\ current' = [current EXCEPT ![t] = Empty]
  /\ known' = known \cup {temp[t]}
  /\ lock' = IF backend \in LockFree THEN lock ELSE NoThread
  /\ Answer(t, temp[t])
  /\ UNCHANGED <<backend, objects, holds, call, lost>>

(* ... and answer with it: the object just created is dropped.             *)
InsertLoses(t) ==
  /\ pc[t] = "insert"
  /\ LosesRace(t)
  /\ lost' = lost \cup {temp[t]}
  /\ Answer(t, map[arg[t]])
  /\ UNCHANGED <<backend, lock, objects, holds, call, map, current, known>>

(* A reset: ArcSwap publishes an empty map, WeakHashSet is replaced; the   *)
(* others remove their entries one after the other (clear).                *)
ResetAllowed == backend \in LockFree \/ lock = NoThread

Reset(S) ==
  /\ Resets
  /\ ResetAllowed
  /\ S = Values \/ (backend \notin {"ArcSwap", "WeakHashSet"} /\ \E v \in Values : S = {v})
  /\ map' = [v \in Values |-> IF v \in S THEN NoObject ELSE map[v]]
  /\ known' = {o \in known : value[o] \notin S}
  /\ UNCHANGED <<client, current, lost>>

Next ==
  \/ ClientNext /\ UNCHANGED collection
  \/ \E o \in Objects : ExpireUnkept(o)
  \/ \E t \in Threads :
        \/ Lookup(t) \/ Entry(t) \/ Search(t) \/ WriteLock(t) \/ Recheck(t)
        \/ CreateForMap(t) \/ Insert(t) \/ InsertLoses(t)
  \/ \E S \in SUBSET Values : Reset(S)

Spec == Init /\ [][Next]_vars
-----------------------------------------------------------------------------
(* "Nodes are retained for the lifetime of the table" (strong backends):   *)
(* no insertion loses what another one, of whatever content, has inserted. *)
Retained ==
  backend \in Strong => \A o \in known : map[value[o]] = o

(* The table implements Interning: an object exists for its users once it  *)
(* is in the collection; one that lost the race never does.                *)
ValueStored ==
  [o \in Objects |-> IF Pending(o) \/ o \in lost THEN NoValue ELSE value[o]]
Reclaimed == (1 .. made) \ (alive \cup lost)

Table == INSTANCE Interning WITH
  stage <- Stage, got <- Got, value <- ValueStored, gone <- Reclaimed

ImplementsInterning == Table!Spec
=============================================================================
