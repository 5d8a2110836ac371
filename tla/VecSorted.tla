----------------------------- MODULE VecSorted -----------------------------
(***************************************************************************)
(* TableVecSortedWeak (vec_sorted_threadunsafe.rs) behind the mutex of a   *)
(* TableSharedMutex: a vector of weak handles sorted by hash, never        *)
(* evicted.  A lookup finds a position of the run of its hash by binary    *)
(* search, then scans up to the end of the run and down to its beginning;  *)
(* objects may expire between any two entries it looks at.                 *)
(***************************************************************************)
EXTENDS TableClient, SequencesExt

VARIABLES
  vec,          (* the entries: objects, whose hash is HashOf[value[o]]    *)
  idx,          (* idx[t]: what the binary search of t's call returned     *)
  pos           (* pos[t]: the entry t looks at next                       *)

vector == <<vec, idx, pos>>
vars == <<client, vector>>

TypeOK ==
  /\ ClientTypeOK
  /\ backend = "VecSorted"
  /\ pc \in [Threads -> {"idle", "lookup", "up", "down", "create", "insert", "done"}]
  /\ vec \in Seq(1 .. made)
  /\ idx \in [Threads -> 1 .. Len(vec) + 1]
  /\ pos \in [Threads -> 0 .. Len(vec) + 1]

Init ==
  /\ ClientInit
  /\ backend = "VecSorted"
  /\ vec = <<>>
  /\ idx = [t \in Threads |-> 1]
  /\ pos = [t \in Threads |-> 0]

Hash(t) == HashOf[arg[t]]
EntryHash(i) == HashOf[value[vec[i]]]

ExpireEntry(o) == Expire(o) /\ UNCHANGED vector

(* binary_search_by: any entry of the run, or where the run would be.      *)
Run(h) == {i \in DOMAIN vec : EntryHash(i) = h}
InsertionPoint(h) == Cardinality({i \in DOMAIN vec : EntryHash(i) < h}) + 1
BinarySearch(h) == IF Run(h) = {} THEN {InsertionPoint(h)} ELSE Run(h)

(* The call locks the table and starts its scan, or finds no run.          *)
Search(t) ==
  /\ pc[t] = "lookup"
  /\ lock = NoThread
  /\ lock' = t
  /\ \E i \in BinarySearch(Hash(t)) :
        /\ idx' = [idx EXCEPT ![t] = i]
        /\ pos' = [pos EXCEPT ![t] = i]
  /\ Goto(t, "up")
  /\ UNCHANGED <<backend, objects, holds, call, temp, vec>>

Unlocked(t) ==
  /\ lock' = NoThread
  /\ idx' = [idx EXCEPT ![t] = 1]
  /\ pos' = [pos EXCEPT ![t] = 0]

(* get_existing_near: Err outside the run, Ok(Some) for a live equal entry *)
(* and Ok(None) for another one, dead or alive.                            *)
IsSameHash(t) == pos[t] \in DOMAIN vec /\ EntryHash(pos[t]) = Hash(t)
IsLive(t) == IsSameHash(t) /\ vec[pos[t]] \in alive
InRun(t) == IsSameHash(t)
Hit(t) == vec[pos[t]] \in alive /\ value[vec[pos[t]]] = arg[t]

Scan(t) ==
  /\ pc[t] \in {"up", "down"}
  /\ InRun(t)
  /\ \/ Hit(t) /\ Answer(t, vec[pos[t]]) /\ Unlocked(t)
     \/ /\ ~Hit(t)
        /\ pos' = [pos EXCEPT ![t] = IF pc[t] = "up" THEN @ + 1 ELSE @ - 1]
        /\ UNCHANGED <<lock, pc, temp, idx>>
  /\ UNCHANGED <<backend, objects, holds, call, vec>>

(* The scan down starts below the position the scan up started from.       *)
BelowNext(t) == IF idx[t] > 1 THEN idx[t] - 2 ELSE 0
Below(t) == idx[t] - 1

EndUp(t) ==
  /\ pc[t] = "up"
  /\ ~InRun(t)
  /\ pos' = [pos EXCEPT ![t] = Below(t)]
  /\ Goto(t, "down")
  /\ UNCHANGED <<backend, lock, objects, holds, call, temp, vec, idx>>

EndDown(t) ==
  /\ pc[t] = "down"
  /\ ~InRun(t)
  /\ \/ op[t] = "get" /\ Answer(t, NoObject) /\ Unlocked(t)
     \/ op[t] = "get_or_insert" /\ Goto(t, "create") /\ UNCHANGED <<lock, temp, idx, pos>>
  /\ UNCHANGED <<backend, objects, holds, call, vec>>

CreateForVector(t) == Create(t) /\ UNCHANGED vector

(* v.insert: the later entries move up.                                    *)
Pushed(t) == Append(vec, temp[t])
Inserted(t) == InsertAt(vec, idx[t], temp[t])

Insert(t) ==
  /\ pc[t] = "insert"
  /\ vec' = Inserted(t)
  /\ Answer(t, temp[t])
  /\ Unlocked(t)
  /\ UNCHANGED <<backend, objects, holds, call>>

Reset ==
  /\ Resets
  /\ lock = NoThread
  /\ vec' = <<>>
  /\ UNCHANGED <<client, idx, pos>>

Next ==
  \/ ClientNext /\ UNCHANGED vector
  \/ \E o \in Objects : ExpireEntry(o)
  \/ \E t \in Threads :
        \/ Search(t) \/ Scan(t) \/ EndUp(t) \/ EndDown(t) \/ CreateForVector(t) \/ Insert(t)
  \/ Reset

Spec == Init /\ [][Next]_vars
-----------------------------------------------------------------------------
(* The order the binary search relies on: whatever position of a run it    *)
(* returned, insertion there keeps runs of equal hashes together.          *)
HashSorted == \A i \in 1 .. Len(vec) - 1 : EntryHash(i) <= EntryHash(i + 1)

(* The vector implements Interning: a call takes effect at the entry it    *)
(* answers with, at the end of its scan, or at its insertion.              *)
ValueStored == [o \in Objects |-> IF Pending(o) THEN NoValue ELSE value[o]]
Known == {vec[i] : i \in DOMAIN vec}
Reclaimed == (1 .. made) \ alive

Table == INSTANCE Interning WITH
  stage <- Stage, got <- Got, value <- ValueStored, gone <- Reclaimed, known <- Known

ImplementsInterning == Table!Spec
=============================================================================
