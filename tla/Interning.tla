----------------------------- MODULE Interning -----------------------------
(***************************************************************************)
(* What a hash-consing table promises to the threads that share it         *)
(* (src/hirpdag_hashconsing/src/table.rs: the trait Table).  get and       *)
(* get_or_insert take effect at one instant between call and return.  As   *)
(* long as any thread holds an object with a value, every call for that    *)
(* value answers with that very object; otherwise get_or_insert answers    *)
(* with a new object, or with an old one that was not reclaimed yet.       *)
(* After a reset the table knows nothing of the objects interned before.   *)
(***************************************************************************)
EXTENDS Naturals

CONSTANTS
  Threads,
  Objects,      (* every object ever created; each gets one value          *)
  Values,       (* node contents, compared by structural equality          *)
  NoValue,
  NoObject

VARIABLES
  stage,        (* stage[t]: "idle", "get", "get_or_insert" or "done"      *)
  arg,          (* the value t asks for                                    *)
  got,          (* the handle t's call will return                         *)
  holds,        (* holds[t]: objects t holds a strong handle of            *)
  value,        (* value[o]: the content o was created with                *)
  known,        (* objects interned and not forgotten by a reset           *)
  gone          (* objects reclaimed                                       *)

vars == <<stage, arg, got, holds, value, known, gone>>

Init ==
  /\ stage = [t \in Threads |-> "idle"]
  /\ arg = [t \in Threads |-> NoValue]
  /\ got = [t \in Threads |-> NoObject]
  /\ holds = [t \in Threads |-> {}]
  /\ value = [o \in Objects |-> NoValue]
  /\ known = {}
  /\ gone = {}

Held(o) == \E t \in Threads : o \in holds[t] \/ got[t] = o

(* The objects every lookup of v must answer with.                         *)
Canonical(v) == {o \in known : value[o] = v /\ Held(o)}

Call(t, op, v) ==
  /\ stage[t] = "idle"
  /\ op \in {"get", "get_or_insert"}
  /\ stage' = [stage EXCEPT ![t] = op]
  /\ arg' = [arg EXCEPT ![t] = v]
  /\ UNCHANGED <<got, holds, value, known, gone>>

(* The call finds an object that was not reclaimed.                        *)
Find(t, o) ==
  /\ stage[t] \in {"get", "get_or_insert"}
  /\ o \in known \ gone
  /\ value[o] = arg[t]
  /\ Canonical(arg[t]) \subseteq {o}
  /\ stage' = [stage EXCEPT ![t] = "done"]
  /\ got' = [got EXCEPT ![t] = o]
  /\ UNCHANGED <<arg, holds, value, known, gone>>

(* get finds nothing: nobody holds an object with the value.               *)
Miss(t) ==
  /\ stage[t] = "get"
  /\ Canonical(arg[t]) = {}
  /\ stage' = [stage EXCEPT ![t] = "done"]
  /\ UNCHANGED <<arg, got, holds, value, known, gone>>

(* get_or_insert creates an object: nobody holds one with the value.       *)
Create(t, o) ==
  /\ stage[t] = "get_or_insert"
  /\ Canonical(arg[t]) = {}
  /\ value[o] = NoValue
  /\ value' = [value EXCEPT ![o] = arg[t]]
  /\ known' = known \cup {o}
  /\ stage' = [stage EXCEPT ![t] = "done"]
  /\ got' = [got EXCEPT ![t] = o]
  /\ UNCHANGED <<arg, holds, gone>>

Return(t) ==
  /\ stage[t] = "done"
  /\ stage' = [stage EXCEPT ![t] = "idle"]
  /\ holds' = [holds EXCEPT ![t] = @ \cup ({got[t]} \ {NoObject})]
  /\ got' = [got EXCEPT ![t] = NoObject]
  /\ arg' = [arg EXCEPT ![t] = NoValue]
  /\ UNCHANGED <<value, known, gone>>

Clone(t, q, o) ==
  /\ o \in holds[t]
  /\ holds' = [holds EXCEPT ![q] = @ \cup {o}]
  /\ UNCHANGED <<stage, arg, got, value, known, gone>>

Drop(t, o) ==
  /\ o \in holds[t]
  /\ holds' = [holds EXCEPT ![t] = @ \ {o}]
  /\ UNCHANGED <<stage, arg, got, value, known, gone>>

(* An object nobody holds may be reclaimed, at any time.                   *)
Reclaim(o) ==
  /\ value[o] # NoValue
  /\ ~Held(o)
  /\ gone' = gone \cup {o}
  /\ UNCHANGED <<stage, arg, got, holds, value, known>>

(* A reset forgets objects, not necessarily all of them at once.           *)
Forget(S) ==
  /\ known' = known \ S
  /\ UNCHANGED <<stage, arg, got, holds, value, gone>>

Next ==
  \/ \E t \in Threads :
        \/ \E op \in {"get", "get_or_insert"}, v \in Values : Call(t, op, v)
        \/ \E q \in Threads, o \in Objects : Clone(t, q, o)
        \/ \E o \in Objects : Find(t, o) \/ Create(t, o) \/ Drop(t, o)
        \/ Miss(t)
        \/ Return(t)
  \/ \E o \in Objects : Reclaim(o)
  \/ \E S \in SUBSET known : Forget(S)

Spec == Init /\ [][Next]_vars

(* Hash-consing: among the objects the table knows, two that are held and  *)
(* have equal content are the same object, so that comparing pointers is   *)
(* comparing structure.                                                    *)
HashConsing ==
  \A o, p \in known : Held(o) /\ Held(p) /\ value[o] = value[p] => o = p
=============================================================================
