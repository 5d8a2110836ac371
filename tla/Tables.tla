------------------------------- MODULE Tables -------------------------------
(***************************************************************************)
(* The tables a configuration may choose besides the default one: which    *)
(* of them it is, is fixed when the program is built (`backend').          *)
(***************************************************************************)
EXTENDS TableClient

VARIABLES map, current, known, lost, vec, idx, pos

Collection == INSTANCE CollectionTable
Sorted == INSTANCE VecSorted

vars == <<client, map, current, known, lost, vec, idx, pos>>

Init ==
  \/ /\ Collection!Init
     /\ vec = <<>>
     /\ idx = [t \in Threads |-> 1]
     /\ pos = [t \in Threads |-> 0]
  \/ /\ Sorted!Init
     /\ map = Collection!Empty
     /\ current = [t \in Threads |-> Collection!Empty]
     /\ known = {}
     /\ lost = {}

Next ==
  \/ backend # "VecSorted" /\ Collection!Next /\ UNCHANGED <<vec, idx, pos>>
  \/ backend = "VecSorted" /\ Sorted!Next /\ UNCHANGED <<map, current, known, lost>>

Spec == Init /\ [][Next]_vars
-----------------------------------------------------------------------------
(* Each backend keeps the types of its state.                              *)
TypeOK == IF backend = "VecSorted" THEN Sorted!TypeOK ELSE Collection!TypeOK

(* Whichever backend is configured, callers get the contract of Interning: *)
(* one object per content however the calls race (a lost insertion answers *)
(* with the winner's object), and wherever a binary search lands.          *)
InVector == backend = "VecSorted"

Table == INSTANCE Interning WITH
  stage <- Stage, got <- Got,
  value <- IF InVector THEN Sorted!ValueStored ELSE Collection!ValueStored,
  known <- IF InVector THEN Sorted!Known ELSE known,
  gone <- IF InVector THEN Sorted!Reclaimed ELSE Collection!Reclaimed

ImplementsInterning == Table!Spec

(* Equal content, same object, for all pairs of handles any threads hold.  *)
HashConsing == Table!HashConsing

(* Strong backends never lose an update.                                   *)
Retained == Collection!Retained

(* The sorted vector is sorted.                                            *)
HashSorted == Sorted!HashSorted
=============================================================================
