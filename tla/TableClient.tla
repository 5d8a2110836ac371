---------------------------- MODULE TableClient ----------------------------
(***************************************************************************)
(* The threads that call a table, and the objects it interns: what         *)
(* CollectionTable and VecSorted have in common.  A thread owns strong     *)
(* handles (`holds'), clones them for other threads and drops them at any  *)
(* time, without a lock; `temp' is the handle a call has at the moment.    *)
(***************************************************************************)
EXTENDS Naturals, Sequences, FiniteSets

CONSTANTS
  Threads,
  Values,       (* node contents, compared by structural equality          *)
  HashOf,       (* HashOf[v]: make_hash of a content                       *)
  Resets,       (* whether the feature reset-tables is on                  *)
  MaxObjects,   (* bound: objects created in a run                         *)
  NoThread, NoValue, NoObject

Objects == 1 .. MaxObjects

ASSUME ClientAssumption ==
  /\ HashOf \in [Values -> Nat]
  /\ Resets \in BOOLEAN
  /\ MaxObjects \in Nat
  /\ NoThread \notin Threads /\ NoValue \notin Values /\ NoObject \notin Objects

VARIABLES
  backend,      (* which table it is                                       *)
  lock,         (* the thread inside the table's lock                      *)
  value,        (* value[o]: the content of object o                       *)
  alive,        (* objects that have not expired                           *)
  made,         (* objects created so far                                  *)
  holds,        (* holds[t]: objects t keeps a strong handle of            *)
  pc,           (* what t does next                                        *)
  op,           (* the call t is in                                        *)
  arg,          (* its `data'                                              *)
  temp          (* the handle it has at the moment                         *)

objects == <<value, alive, made>>
call == <<op, arg>>
client == <<backend, lock, objects, holds, pc, call, temp>>

ClientTypeOK ==
  /\ lock \in Threads \cup {NoThread}
  /\ value \in [Objects -> Values \cup {NoValue}]
  /\ made \in 0 .. MaxObjects
  /\ alive \in SUBSET (1 .. made)
  /\ holds \in [Threads -> SUBSET alive]
  /\ op \in [Threads -> {"get", "get_or_insert"}]
  /\ arg \in [Threads -> Values \cup {NoValue}]
  /\ temp \in [Threads -> alive \cup {NoObject}]

ClientInit ==
  /\ lock = NoThread
  /\ value = [o \in Objects |-> NoValue]
  /\ alive = {}
  /\ made = 0
  /\ holds = [t \in Threads |-> {}]
  /\ pc = [t \in Threads |-> "idle"]
  /\ op = [t \in Threads |-> "get"]
  /\ arg = [t \in Threads |-> NoValue]
  /\ temp = [t \in Threads |-> NoObject]

Goto(t, label) == pc' = [pc EXCEPT ![t] = label]

Call(t, o, v) ==
  /\ pc[t] = "idle"
  /\ op' = [op EXCEPT ![t] = o]
  /\ arg' = [arg EXCEPT ![t] = v]
  /\ Goto(t, "lookup")
  /\ UNCHANGED <<backend, lock, objects, holds, temp>>

(* The call returns the handle it found or created, if any.                *)
Return(t) ==
  /\ pc[t] = "done"
  /\ holds' = [holds EXCEPT ![t] = @ \cup ({temp[t]} \ {NoObject})]
  /\ temp' = [temp EXCEPT ![t] = NoObject]
  /\ op' = [op EXCEPT ![t] = "get"]
  /\ arg' = [arg EXCEPT ![t] = NoValue]
  /\ Goto(t, "idle")
  /\ UNCHANGED <<backend, lock, objects>>

Clone(t, q, o) ==
  /\ o \in holds[t]
  /\ holds' = [holds EXCEPT ![q] = @ \cup {o}]
  /\ UNCHANGED <<backend, lock, objects, pc, call, temp>>

Drop(t, o) ==
  /\ o \in holds[t]
  /\ holds' = [holds EXCEPT ![t] = @ \ {o}]
  /\ UNCHANGED <<backend, lock, objects, pc, call, temp>>

NoStrong(o) == \A t \in Threads : o \notin holds[t] /\ temp[t] # o

(* An object without strong handles expires (Reference.tla).               *)
Expire(o) ==
  /\ o \in alive
  /\ NoStrong(o)
  /\ alive' = alive \ {o}
  /\ UNCHANGED <<backend, lock, value, made, holds, pc, call, temp>>

(* creation_meta, then R::new: the object is its creator's alone.          *)
Create(t) ==
  /\ pc[t] = "create"
  /\ made < MaxObjects
  /\ made' = made + 1
  /\ alive' = alive \cup {made + 1}
  /\ value' = [value EXCEPT ![made + 1] = arg[t]]
  /\ temp' = [temp EXCEPT ![t] = made + 1]
  /\ Goto(t, "insert")
  /\ UNCHANGED <<backend, lock, holds, call>>

ClientNext ==
  \E t \in Threads :
     \/ \E o \in {"get", "get_or_insert"}, v \in Values : Call(t, o, v)
     \/ \E q \in Threads, o \in Objects : Clone(t, q, o)
     \/ \E o \in Objects : Drop(t, o)
     \/ Return(t)

(* The call under way answers with o, or with nothing.                     *)
Answer(t, o) ==
  /\ temp' = [temp EXCEPT ![t] = o]
  /\ Goto(t, "done")

(* The stages of a call, and its result, as Interning sees them.           *)
Stage ==
  [t \in Threads |-> IF pc[t] \in {"idle", "done"} THEN pc[t] ELSE op[t]]
Got == [t \in Threads |-> IF pc[t] = "done" THEN temp[t] ELSE NoObject]

(* An object its creator is about to insert.                               *)
Pending(o) == \E t \in Threads : temp[t] = o /\ pc[t] = "insert"
=============================================================================
