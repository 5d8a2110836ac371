----------------------------- MODULE Reference -----------------------------
(***************************************************************************)
(* What every reference-handle implementation of hirpdag_hashconsing       *)
(* promises (src/hirpdag_hashconsing/src/reference.rs): the traits         *)
(* Reference and ReferenceWeak, and the lifetime a Rust program may rely   *)
(* on behind them.                                                         *)
(*                                                                         *)
(* A handle is an identity h \in Handles; an object is one heap value that *)
(* was moved into Reference::new.  Without strong handles an object may    *)
(* expire: from then on no weak handle can be upgraded, and the data is    *)
(* destroyed.  Its bookkeeping (a count slot, the header of an allocation) *)
(* is held until no weak handle is left either.                            *)
(*                                                                         *)
(* The contract is loose where the implementations differ.  An object may  *)
(* expire together with the drop of its last strong handle (std::sync::Arc *)
(* and the count slots), later (thread-local counting), or never (the      *)
(* leaking handle); until then a weak handle still upgrades.               *)
(***************************************************************************)
CONSTANTS
  Objects,      (* heap values, each created at most once                  *)
  Handles       (* handle identities, reused once their handle is dropped  *)

VARIABLES
  strongs,      (* strongs[o]: the strong handles of o                     *)
  weaks,        (* weaks[o]: the weak handles of o                         *)
  data,         (* data[o]: what became of the value                       *)
  held          (* objects whose bookkeeping is still held                 *)

vars == <<strongs, weaks, data, held>>

DataState == {"unborn", "live", "expired", "dropped"}

Init ==
  /\ strongs = [o \in Objects |-> {}]
  /\ weaks = [o \in Objects |-> {}]
  /\ data = [o \in Objects |-> "unborn"]
  /\ held = {}

(* A handle identity nobody uses.                                          *)
Fresh(h) == \A o \in Objects : h \notin strongs[o] /\ h \notin weaks[o]

(* Reference::new: the value moves behind a first strong handle.           *)
New(o, h) ==
  /\ data[o] = "unborn"
  /\ Fresh(h)
  /\ data' = [data EXCEPT ![o] = "live"]
  /\ strongs' = [strongs EXCEPT ![o] = {h}]
  /\ held' = held \cup {o}
  /\ UNCHANGED weaks

(* Reference::strong_clone.                                                *)
StrongClone(o, h) ==
  /\ strongs[o] # {}
  /\ Fresh(h)
  /\ strongs' = [strongs EXCEPT ![o] = @ \cup {h}]
  /\ UNCHANGED <<weaks, data, held>>

(* ReferenceWeak::weak_upgrade returning Some: only before the object      *)
(* expires.                                                                *)
WeakUpgrade(o, h) ==
  /\ data[o] = "live"
  /\ weaks[o] # {}
  /\ Fresh(h)
  /\ strongs' = [strongs EXCEPT ![o] = @ \cup {h}]
  /\ UNCHANGED <<weaks, data, held>>

(* ReferenceWeak::weak_downgrade.                                          *)
WeakDowngrade(o, h) ==
  /\ strongs[o] # {}
  /\ Fresh(h)
  /\ weaks' = [weaks EXCEPT ![o] = @ \cup {h}]
  /\ UNCHANGED <<strongs, data, held>>

(* A strong or a weak handle goes out of scope.                            *)
StrongDrop(o, h) ==
  /\ h \in strongs[o]
  /\ strongs' = [strongs EXCEPT ![o] = @ \ {h}]
  /\ \/ UNCHANGED data
     \/ strongs[o] = {h} /\ data' = [data EXCEPT ![o] = "expired"]
  /\ UNCHANGED <<weaks, held>>

WeakDrop(o, h) ==
  /\ h \in weaks[o]
  /\ weaks' = [weaks EXCEPT ![o] = @ \ {h}]
  /\ UNCHANGED <<strongs, data, held>>

(* The object expires some time after its last strong handle went.         *)
Expire(o) ==
  /\ data[o] = "live"
  /\ strongs[o] = {}
  /\ data' = [data EXCEPT ![o] = "expired"]
  /\ UNCHANGED <<strongs, weaks, held>>

(* The value's destructor runs: no handle can reach it any more.           *)
Destroy(o) ==
  /\ data[o] = "expired"
  /\ data' = [data EXCEPT ![o] = "dropped"]
  /\ UNCHANGED <<strongs, weaks, held>>

(* The bookkeeping is given back: no handle may read it any more.          *)
Release(o) ==
  /\ o \in held
  /\ data[o] = "dropped"
  /\ weaks[o] = {}
  /\ held' = held \ {o}
  /\ UNCHANGED <<strongs, weaks, data>>

Next ==
  \/ \E o \in Objects, h \in Handles :
        \/ New(o, h)
        \/ StrongClone(o, h)
        \/ WeakUpgrade(o, h)
        \/ WeakDowngrade(o, h)
        \/ StrongDrop(o, h)
        \/ WeakDrop(o, h)
  \/ \E o \in Objects : Expire(o) \/ Destroy(o) \/ Release(o)

Spec == Init /\ [][Next]_vars
=============================================================================
