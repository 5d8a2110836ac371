---------------------------- MODULE RefSepProofs ----------------------------
(***************************************************************************)
(* Proofs about RefSep for any number of threads, objects and handles, any *)
(* chunk size and any counter width that CountAssumption allows.           *)
(*                                                                         *)
(* CountsExact is not inductive on its own: a decrement keeps it only if   *)
(* the slot belongs to one object (PoolExact), is still held (SlotsUsed),  *)
(* and if the one thread that owes the collective weak count is known      *)
(* (DroppedOnce, LocalOK).  IInv puts these together.                      *)
(***************************************************************************)
EXTENDS RefSep, TLAPS, FiniteSetTheorems

(* A slot is held exactly while some handle or unfinished drop needs it.   *)
SlotsUsed ==
  \A o \in Objects :
    slot[o] # NoSlot <=>
      \/ strongs[o] # {}
      \/ weaks[o] # {}
      \/ \E t \in Threads : obj[t] = o /\ pc[t] \in Dropping

(* What a thread knows in the middle of an operation.                      *)
LocalOK ==
  \A t \in Threads :
    /\ pc[t] = "upgrade" => bor[t] \in weaks[obj[t]] /\ snap[t] # 0
    /\ pc[t] = "drop_data" => strongs[obj[t]] = {}
    /\ pc[t] = "release" => data[obj[t]] = "dropped"
    /\ pc[t] = "free_slot" => weak[slot[obj[t]]] = 0

DataOK ==
  \A o \in Objects :
    /\ data[o] = "unborn" => slot[o] = NoSlot
    /\ strongs[o] # {} => data[o] = "live"
    /\ data[o] = "live" => Collective(o)

IInv ==
  /\ TypeOK
  /\ CountsExact
  /\ DroppedOnce
  /\ PoolExact
  /\ SlotsUsed
  /\ LocalOK
  /\ DataOK
-----------------------------------------------------------------------------
(* The pool's slots: a new chunk is disjoint from the ones before it.      *)
LEMMA SlotFacts ==
  /\ NoSlot \notin Slots
  /\ \A c \in 0 .. MaxChunks : Pooled(c) \subseteq Slots
  /\ \A c \in Nat : c + 1 <= MaxChunks =>
       /\ Chunk(c + 1) \subseteq Slots
       /\ Chunk(c + 1) \cap Pooled(c) = {}
       /\ Chunk(c + 1) \cup Pooled(c) = Pooled(c + 1)
<1> USE SizeAssumption
<1>1. NoSlot \notin Slots
  BY DEF NoSlot, Slots
<1>2. ASSUME NEW c \in 0 .. MaxChunks
      PROVE  Pooled(c) \subseteq Slots
  BY DEF Pooled, Slots
<1>3. ASSUME NEW c \in Nat, c + 1 <= MaxChunks
      PROVE  /\ Chunk(c + 1) \subseteq Slots
             /\ Chunk(c + 1) \cap Pooled(c) = {}
             /\ Chunk(c + 1) \cup Pooled(c) = Pooled(c + 1)
  BY <1>3 DEF Chunk, Pooled, Slots
<1>4. QED
  BY <1>1, <1>2, <1>3

(* Cardinalities of sets of handles, and why no counter wraps around.      *)
LEMMA HandleCount ==
  ASSUME NEW S \in SUBSET Handles
  PROVE  /\ Cardinality(S) \in Nat
         /\ Cardinality(S) + 1 < CountMax
         /\ Cardinality(S) = 0 <=> S = {}
         /\ \A h \in S : Cardinality(S \ {h}) = Cardinality(S) - 1
         /\ \A h \in Handles \ S : Cardinality(S \cup {h}) = Cardinality(S) + 1
<1>1. IsFiniteSet(S) /\ Cardinality(S) <= Cardinality(Handles)
  BY CountAssumption, FS_Subset
<1>2. Cardinality(S) \in Nat /\ Cardinality(Handles) \in Nat
  BY <1>1, CountAssumption, FS_CardinalityType
<1>3. Cardinality(S) = 0 <=> S = {}
  BY <1>1, FS_EmptySet
<1>4. \A h \in S : Cardinality(S \ {h}) = Cardinality(S) - 1
  BY <1>1, FS_RemoveElement
<1>5. \A h \in Handles \ S : Cardinality(S \cup {h}) = Cardinality(S) + 1
  BY <1>1, FS_AddElement
<1>6. QED
  BY <1>1, <1>2, <1>3, <1>4, <1>5, CountAssumption, SizeAssumption

LEMMA SingleHandle == \A h \in Handles : Cardinality({h}) = 1
BY FS_Singleton

LEMMA InitInv == Init => IInv
<1> SUFFICES ASSUME Init PROVE IInv
  OBVIOUS
<1>1. TypeOK
  BY SizeAssumption DEF Init, TypeOK, Counts, Dropping
<1>2. CountsExact /\ DroppedOnce /\ SlotsUsed /\ LocalOK /\ DataOK
  BY DEF Init, CountsExact, DroppedOnce, SlotsUsed, LocalOK, DataOK, Dropping
<1>3. PoolExact
  BY SizeAssumption DEF Init, PoolExact, Pooled
<1>4. QED
  BY <1>1, <1>2, <1>3 DEF IInv
-----------------------------------------------------------------------------
(* The last strong handle, or another one, is dropped.                     *)
LEMMA StrongDropInv ==
  ASSUME IInv, NEW t \in Threads, NEW o \in Objects, NEW h \in Handles,
         StrongDrop(t, o, h)
  PROVE  IInv'
<1> USE DEF StrongDrop, IInv, pool, AfterStrongDec
<1>1. /\ slot[o] \in Slots
      /\ data[o] = "live"
      /\ strong[slot[o]] = Cardinality(strongs[o])
      /\ weak[slot[o]] = Cardinality(weaks[o]) + 1
  BY DEF TypeOK, SlotsUsed, DataOK, CountsExact, Collective
<1>2. /\ Cardinality(strongs[o]) \in Nat \ {0}
      /\ Cardinality(strongs'[o]) = Cardinality(strongs[o]) - 1
      /\ Cardinality(strongs[o]) = 1 <=> strongs'[o] = {}
      /\ Cardinality(weaks[o]) \in Nat
  <2>1. /\ strongs[o] \in SUBSET Handles /\ weaks[o] \in SUBSET Handles
        /\ h \in strongs[o] /\ strongs'[o] = strongs[o] \ {h}
        /\ strongs'[o] \in SUBSET Handles
    BY DEF TypeOK
  <2>2. QED
    BY <2>1, HandleCount
<1>3. Dec(strong[slot[o]]) = Cardinality(strongs'[o]) /\ Dec(strong[slot[o]]) \in Counts
  BY <1>1, <1>2, SizeAssumption DEF Dec, TypeOK, Counts
<1>4. pc'[t] = IF strongs'[o] = {} THEN "drop_data" ELSE "idle"
  BY <1>1, <1>2 DEF TypeOK
<1>5. \A u \in Threads : obj[u] = o => pc[u] \notin Dropping
  BY <1>1, <1>2 DEF TypeOK, LocalOK, DataOK, Dropping
<1>6. TypeOK'
  BY <1>3 DEF TypeOK, Dropping
<1>7. CountsExact'
  <2> SUFFICES ASSUME NEW p \in Objects, slot[p] # NoSlot
               PROVE  /\ strong'[slot[p]] = Cardinality(strongs'[p])
                      /\ weak[slot[p]] = Cardinality(weaks[p])
                                           + (IF Collective(p)' THEN 1 ELSE 0)
    BY DEF CountsExact
  <2>1. CASE p = o
    <3>1. Collective(o)'
      BY <1>4 DEF Collective, TypeOK
    <3>2. QED
      BY <2>1, <3>1, <1>1, <1>3 DEF TypeOK
  <2>2. CASE p # o
    <3>1. slot[p] # slot[o]
      BY <2>2, <1>1 DEF PoolExact
    <3>2. Collective(p)' <=> Collective(p)
      BY <2>2 DEF Collective, TypeOK
    <3>3. QED
      BY <2>2, <3>1, <3>2 DEF CountsExact, TypeOK
  <2>3. QED
    BY <2>1, <2>2
<1>8. DroppedOnce'
  BY <1>1, <1>4, <1>5 DEF DroppedOnce, TypeOK, Dropping
<1>9. PoolExact'
  BY DEF PoolExact
<1>10. SlotsUsed'
  BY <1>1, <1>4 DEF SlotsUsed, TypeOK, Dropping
<1>11. LocalOK'
  BY <1>4 DEF LocalOK, TypeOK, DataOK
<1>12. DataOK'
  <2>1. \A p \in Objects : Collective(p) => Collective(p)'
    <3> SUFFICES ASSUME NEW p \in Objects, Collective(p) PROVE Collective(p)'
      OBVIOUS
    <3>1. CASE p = o
      BY <3>1, <1>4 DEF Collective, TypeOK
    <3>2. CASE p # o
      BY <3>2 DEF Collective, TypeOK
    <3>3. QED
      BY <3>1, <3>2
  <2>2. QED
    BY <2>1 DEF DataOK, TypeOK
<1>13. QED
  BY <1>6, <1>7, <1>8, <1>9, <1>10, <1>11, <1>12

(* The value's destructor.                                                 *)
LEMMA DropDataInv ==
  ASSUME IInv, NEW t \in Threads, DropData(t)
  PROVE  IInv'
<1> USE DEF DropData, IInv, pool, local
<1> DEFINE o == obj[t]
<1>1. o \in Objects /\ data[o] = "live" /\ strongs[o] = {} /\ slot[o] # NoSlot
  BY DEF TypeOK, DroppedOnce, LocalOK, SlotsUsed, Dropping
<1>2. TypeOK'
  BY DEF TypeOK, Dropping
<1>3. \A p \in Objects : Collective(p)' <=> Collective(p)
  BY DEF Collective, TypeOK
<1>4. CountsExact'
  BY <1>3 DEF CountsExact
<1>5. DroppedOnce'
  BY DEF DroppedOnce, TypeOK, Dropping
<1>6. PoolExact'
  BY DEF PoolExact
<1>7. SlotsUsed'
  BY DEF SlotsUsed, TypeOK, Dropping
<1>8. LocalOK'
  BY DEF LocalOK, TypeOK
<1>9. DataOK'
  BY <1>1, <1>3 DEF DataOK, TypeOK
<1>10. QED
  BY <1>2, <1>4, <1>5, <1>6, <1>7, <1>8, <1>9

(* The collective weak count is given back.                                *)
LEMMA ReleaseWeakInv ==
  ASSUME IInv, NEW t \in Threads, ReleaseWeak(t)
  PROVE  IInv'
<1> USE DEF ReleaseWeak, IInv, pool, local, AfterWeakDec
<1> DEFINE o == obj[t]
<1>1. /\ o \in Objects
      /\ data[o] = "dropped"
      /\ strongs[o] = {}
      /\ slot[o] \in Slots
      /\ weaks[o] \in SUBSET Handles
  BY DEF TypeOK, LocalOK, DataOK, SlotsUsed, Dropping
<1>2. /\ weak[slot[o]] = Cardinality(weaks[o]) + 1
      /\ Cardinality(weaks[o]) \in Nat
      /\ Cardinality(weaks[o]) = 0 <=> weaks[o] = {}
  BY <1>1, HandleCount DEF CountsExact, Collective, TypeOK, SlotsUsed, Dropping
<1>3. Dec(weak[slot[o]]) = Cardinality(weaks[o]) /\ Dec(weak[slot[o]]) \in Counts
  BY <1>1, <1>2, SizeAssumption DEF Dec, TypeOK, Counts
<1>4. pc'[t] = IF weaks[o] = {} THEN "free_slot" ELSE "idle"
  BY <1>1, <1>2 DEF TypeOK
<1>5. \A u \in Threads : obj[u] = o /\ u # t => pc[u] \notin Dropping
  BY DEF DroppedOnce, Dropping
<1>6. TypeOK'
  BY <1>3 DEF TypeOK, Dropping
<1>7. CountsExact'
  <2> SUFFICES ASSUME NEW p \in Objects, slot[p] # NoSlot
               PROVE  /\ strong[slot[p]] = Cardinality(strongs[p])
                      /\ weak'[slot[p]] = Cardinality(weaks[p])
                                           + (IF Collective(p)' THEN 1 ELSE 0)
    BY DEF CountsExact
  <2>1. CASE p = o
    <3>1. ~Collective(o)'
      BY <1>1, <1>4, <1>5 DEF Collective, TypeOK, Dropping
    <3>2. weak'[slot[o]] = Dec(weak[slot[o]])
      BY <1>1 DEF TypeOK
    <3>3. strong[slot[o]] = Cardinality(strongs[o])
      BY <2>1 DEF CountsExact
    <3>4. QED
      BY <2>1, <3>1, <3>2, <3>3, <1>2, <1>3
  <2>2. CASE p # o
    <3>1. slot[p] # slot[o]
      BY <2>2, <1>1 DEF PoolExact
    <3>2. Collective(p)' <=> Collective(p)
      BY <2>2 DEF Collective, TypeOK
    <3>3. QED
      BY <2>2, <3>1, <3>2 DEF CountsExact, TypeOK
  <2>3. QED
    BY <2>1, <2>2
<1>8. DroppedOnce'
  BY DEF DroppedOnce, TypeOK, Dropping
<1>9. PoolExact'
  BY DEF PoolExact
<1>10. SlotsUsed'
  BY <1>1, <1>4 DEF SlotsUsed, TypeOK, Dropping
<1>11. LocalOK'
  <2> SUFFICES ASSUME NEW u \in Threads
               PROVE  /\ pc'[u] = "upgrade" => bor[u] \in weaks[obj[u]] /\ snap[u] # 0
                      /\ pc'[u] = "drop_data" => strongs[obj[u]] = {}
                      /\ pc'[u] = "release" => data[obj[u]] = "dropped"
                      /\ pc'[u] = "free_slot" => weak'[slot[obj[u]]] = 0
    BY DEF LocalOK
  <2>1. CASE u = t
    BY <2>1, <1>1, <1>2, <1>3, <1>4 DEF TypeOK
  <2>2. CASE u # t
    <3>1. pc'[u] = pc[u]
      BY <2>2 DEF TypeOK
    <3>2. pc[u] = "free_slot" => slot[obj[u]] # slot[o]
      BY <2>2, <1>1, <1>5 DEF PoolExact, SlotsUsed, TypeOK, Dropping
    <3>3. QED
      BY <3>1, <3>2 DEF LocalOK, TypeOK
  <2>3. QED
    BY <2>1, <2>2
<1>12. DataOK'
  <2>1. \A p \in Objects \ {o} : Collective(p)' <=> Collective(p)
    BY DEF Collective, TypeOK
  <2>2. QED
    BY <1>1, <2>1 DEF DataOK
<1>13. QED
  BY <1>6, <1>7, <1>8, <1>9, <1>10, <1>11, <1>12

(* A weak handle is dropped; it may be the last handle of all.             *)
LEMMA WeakDropInv ==
  ASSUME IInv, NEW t \in Threads, NEW o \in Objects, NEW h \in Handles,
         WeakDrop(t, o, h)
  PROVE  IInv'
<1> USE DEF WeakDrop, IInv, pool, AfterWeakDec
<1> DEFINE owed == IF Collective(o) THEN 1 ELSE 0
<1>1. /\ slot[o] \in Slots
      /\ weaks[o] \in SUBSET Handles
      /\ h \in weaks[o]
      /\ weaks'[o] = weaks[o] \ {h}
      /\ weaks'[o] \in SUBSET Handles
  BY DEF TypeOK, SlotsUsed
<1>2. weak[slot[o]] = Cardinality(weaks[o]) + owed
  BY <1>1 DEF CountsExact, SlotsUsed
<1>3. /\ Cardinality(weaks[o]) \in Nat \ {0}
      /\ Cardinality(weaks'[o]) = Cardinality(weaks[o]) - 1
      /\ Cardinality(weaks[o]) = 1 <=> weaks'[o] = {}
  <2>1. /\ Cardinality(weaks[o]) \in Nat /\ (Cardinality(weaks[o]) = 0 <=> weaks[o] = {})
        /\ Cardinality(weaks[o] \ {h}) = Cardinality(weaks[o]) - 1
    BY <1>1, HandleCount
  <2>2. Cardinality(weaks'[o]) \in Nat /\ (Cardinality(weaks'[o]) = 0 <=> weaks'[o] = {})
    BY <1>1, HandleCount
  <2>3. QED
    BY <1>1, <2>1, <2>2
<1>4. Dec(weak[slot[o]]) = Cardinality(weaks'[o]) + owed /\ Dec(weak[slot[o]]) \in Counts
  BY <1>1, <1>2, <1>3, SizeAssumption DEF Dec, TypeOK, Counts
<1>5. pc'[t] = IF weaks'[o] = {} /\ ~Collective(o) THEN "free_slot" ELSE "idle"
  BY <1>1, <1>2, <1>3 DEF TypeOK
<1>6. \A u \in Threads : obj[u] = o /\ pc[u] \in Dropping => Collective(o)
  BY <1>2, <1>3 DEF Collective, LocalOK, Dropping, TypeOK
<1>7. \A p \in Objects : Collective(p)' <=> Collective(p)
  BY DEF Collective, TypeOK
<1>8. \A p \in Objects \ {o} : slot[p] # NoSlot => slot[p] # slot[o]
  BY DEF PoolExact
<1>9. TypeOK'
  BY <1>4 DEF TypeOK, Dropping
<1>10. CountsExact'
  <2> SUFFICES ASSUME NEW p \in Objects, slot[p] # NoSlot
               PROVE  /\ strong[slot[p]] = Cardinality(strongs[p])
                      /\ weak'[slot[p]] = Cardinality(weaks'[p])
                                           + (IF Collective(p) THEN 1 ELSE 0)
    BY <1>7 DEF CountsExact
  <2>1. CASE p = o
    BY <2>1, <1>1, <1>4 DEF TypeOK, CountsExact
  <2>2. CASE p # o
    BY <2>2, <1>8 DEF CountsExact, TypeOK
  <2>3. QED
    BY <2>1, <2>2
<1>11. DroppedOnce'
  BY <1>5, <1>6 DEF DroppedOnce, TypeOK, Dropping
<1>12. PoolExact'
  BY DEF PoolExact
<1>13. SlotsUsed'
  <2> SUFFICES ASSUME NEW p \in Objects
               PROVE  slot[p] # NoSlot <=>
                        \/ strongs[p] # {}
                        \/ weaks'[p] # {}
                        \/ \E u \in Threads : obj'[u] = p /\ pc'[u] \in Dropping
    BY DEF SlotsUsed
  <2>1. CASE p = o
    <3>1. CASE weaks'[o] = {} /\ ~Collective(o)
      BY <2>1, <3>1, <1>1, <1>5 DEF TypeOK, SlotsUsed, Dropping
    <3>2. CASE weaks'[o] # {}
      BY <2>1, <3>2, <1>1 DEF SlotsUsed
    <3>3. CASE Collective(o)
      <4>1. \/ strongs[o] # {}
            \/ \E u \in Threads : u # t /\ obj[u] = o /\ pc[u] \in Dropping
        BY <3>3 DEF Collective, Dropping
      <4>2. QED
        BY <2>1, <4>1, <1>1 DEF TypeOK, SlotsUsed
    <3>4. QED
      BY <3>1, <3>2, <3>3
  <2>2. CASE p # o
    BY <2>2, <1>5 DEF SlotsUsed, TypeOK, Dropping
  <2>3. QED
    BY <2>1, <2>2
<1>14. LocalOK'
  <2> SUFFICES ASSUME NEW u \in Threads
               PROVE  /\ pc'[u] = "upgrade" => bor[u] \in weaks'[obj'[u]] /\ snap[u] # 0
                      /\ pc'[u] = "drop_data" => strongs[obj'[u]] = {}
                      /\ pc'[u] = "release" => data[obj'[u]] = "dropped"
                      /\ pc'[u] = "free_slot" => weak'[slot[obj'[u]]] = 0
    BY DEF LocalOK
  <2>1. CASE u = t
    BY <2>1, <1>1, <1>2, <1>3, <1>4, <1>5 DEF TypeOK
  <2>2. CASE u # t
    <3>1. pc'[u] = pc[u] /\ obj'[u] = obj[u]
      BY <2>2 DEF TypeOK
    <3>2. pc[u] = "free_slot" => slot[obj[u]] # slot[o]
      <4> SUFFICES ASSUME pc[u] = "free_slot" PROVE slot[obj[u]] # slot[o]
        OBVIOUS
      <4>1. weak[slot[obj[u]]] = 0 /\ obj[u] \in Objects /\ weak[slot[o]] # 0
        BY <1>2, <1>3 DEF LocalOK, TypeOK
      <4>2. QED
        BY <4>1
    <3>3. pc[u] = "upgrade" => bor[u] \in weaks'[obj[u]]
      BY DEF Borrowed, LocalOK, TypeOK
    <3>4. QED
      BY <3>1, <3>2, <3>3, <1>1 DEF LocalOK, TypeOK
  <2>3. QED
    BY <2>1, <2>2
<1>15. DataOK'
  BY <1>7 DEF DataOK
<1>16. QED
  BY <1>9, <1>10, <1>11, <1>12, <1>13, <1>14, <1>15

(* The slot goes back to the pool.                                         *)
LEMMA FreeSlotInv ==
  ASSUME IInv, NEW t \in Threads, FreeSlot(t)
  PROVE  IInv'
<1> USE DEF FreeSlot, IInv, local
<1> DEFINE o == obj[t]
<1>1. o \in Objects /\ slot[o] \in Slots /\ weak[slot[o]] = 0
  BY DEF TypeOK, SlotsUsed, LocalOK, Dropping
<1>2. strongs[o] = {} /\ weaks[o] = {}
  <2>1. Cardinality(weaks[o]) \in Nat /\ (Cardinality(weaks[o]) = 0 <=> weaks[o] = {})
    BY <1>1, HandleCount DEF TypeOK
  <2>2. weak[slot[o]] = Cardinality(weaks[o]) + (IF Collective(o) THEN 1 ELSE 0)
    BY <1>1 DEF CountsExact, SlotsUsed, Dropping
  <2>3. QED
    BY <1>1, <2>1, <2>2 DEF Collective
<1>3. \A u \in Threads : obj[u] = o /\ u # t => pc[u] = "idle"
  BY <1>2 DEF DroppedOnce, LocalOK, TypeOK, Dropping
<1>4. \A p \in Objects \ {o} : slot[p] # NoSlot => slot[p] # slot[o]
  BY <1>1 DEF PoolExact
<1>5. TypeOK'
  BY <1>1 DEF TypeOK, Dropping
<1>6. CountsExact'
  <2>1. \A p \in Objects : Collective(p)' <=> Collective(p)
    BY DEF Collective, TypeOK
  <2>2. \A p \in Objects : slot'[p] # NoSlot => slot'[p] = slot[p]
    BY DEF TypeOK
  <2>3. QED
    BY <2>1, <2>2 DEF CountsExact
<1>7. DroppedOnce'
  BY DEF DroppedOnce, TypeOK, Dropping
<1>8. PoolExact'
  <2>1. \A p \in Objects : slot'[p] = IF p = o THEN NoSlot ELSE slot[p]
    BY DEF TypeOK
  <2>2. {slot'[p] : p \in {q \in Objects : slot'[q] # NoSlot}}
          = {slot[p] : p \in {q \in Objects : slot[q] # NoSlot}} \ {slot[o]}
    BY <2>1, <1>1, <1>4, SlotFacts
  <2>3. free' \cup {slot'[p] : p \in {q \in Objects : slot'[q] # NoSlot}} = Pooled(chunks)
    BY <2>2, <1>1, SlotFacts DEF PoolExact
  <2>4. \A p, q \in Objects : slot'[p] # NoSlot =>
          slot'[p] \notin free' /\ (p # q => slot'[p] # slot'[q])
    BY <2>1, <1>4 DEF PoolExact
  <2>5. QED
    BY <2>3, <2>4 DEF PoolExact
<1>9. SlotsUsed'
  BY <1>1, <1>2, <1>3 DEF SlotsUsed, TypeOK, Dropping
<1>10. LocalOK'
  BY <1>3 DEF LocalOK, TypeOK
<1>11. DataOK'
  <2>1. \A p \in Objects : Collective(p)' <=> Collective(p)
    BY DEF Collective, TypeOK
  <2>2. QED
    BY <1>1, <2>1 DEF DataOK, TypeOK
<1>12. QED
  BY <1>5, <1>6, <1>7, <1>8, <1>9, <1>10, <1>11

(* Creation: a slot from the free list or from a new chunk.                *)
LEMMA NewInv ==
  ASSUME IInv, NEW o \in Objects, NEW h \in Handles, New(o, h)
  PROVE  IInv'
<1> USE DEF New, IInv, local, Pop, SlotInit
<1> DEFINE stock == IF free = {} THEN Chunk(chunks + 1) ELSE free
<1>1. /\ slot[o] = NoSlot /\ strongs[o] = {} /\ weaks[o] = {}
      /\ \A u \in Threads : obj[u] = o => pc[u] = "idle"
  BY DEF DataOK, SlotsUsed, LocalOK, TypeOK, Dropping
<1>2. /\ chunks' \in 0 .. MaxChunks
      /\ stock \subseteq Slots
      /\ \A p \in Objects : slot[p] # NoSlot => slot[p] \notin stock
      /\ stock \cup {slot[p] : p \in {q \in Objects : slot[q] # NoSlot}} = Pooled(chunks')
  <2>1. CASE free = {}
    <3>1. chunks \in Nat /\ chunks + 1 <= MaxChunks /\ chunks' = chunks + 1
      BY <2>1, SizeAssumption DEF TypeOK
    <3>2. /\ Chunk(chunks + 1) \subseteq Slots
          /\ Chunk(chunks + 1) \cap Pooled(chunks) = {}
          /\ Chunk(chunks + 1) \cup Pooled(chunks) = Pooled(chunks')
      BY <3>1, SlotFacts
    <3>3. {slot[p] : p \in {q \in Objects : slot[q] # NoSlot}} = Pooled(chunks)
      BY <2>1 DEF PoolExact
    <3>4. QED
      BY <2>1, <3>1, <3>2, <3>3, SizeAssumption
  <2>2. CASE free # {}
    <3>1. chunks' = chunks /\ stock = free
      BY <2>2
    <3>2. QED
      BY <3>1 DEF PoolExact, TypeOK
  <2>3. QED
    BY <2>1, <2>2
<1>3. PICK s \in stock :
        /\ free' = stock \ {s}
        /\ slot' = [slot EXCEPT ![o] = s]
        /\ strong' = [strong EXCEPT ![s] = 1]
        /\ weak' = [weak EXCEPT ![s] = 1]
  OBVIOUS
<1>4. s \in Slots /\ s # NoSlot
  BY <1>2, SlotFacts
<1>5. \A p \in Objects : slot'[p] = IF p = o THEN s ELSE slot[p]
  BY <1>3 DEF TypeOK
<1>6. TypeOK'
  <2>1. 1 \in Counts
    <3>1. {} \in SUBSET Handles
      OBVIOUS
    <3>2. Cardinality({}) \in Nat /\ Cardinality({}) + 1 < CountMax
      BY <3>1, HandleCount
    <3>3. QED
      BY <3>2, SizeAssumption DEF Counts
  <2>2. QED
    BY <2>1, <1>2, <1>3, <1>4 DEF TypeOK
<1>7. CountsExact'
  <2> SUFFICES ASSUME NEW p \in Objects, slot'[p] # NoSlot
               PROVE  /\ strong'[slot'[p]] = Cardinality(strongs'[p])
                      /\ weak'[slot'[p]] = Cardinality(weaks[p])
                                            + (IF Collective(p)' THEN 1 ELSE 0)
    BY DEF CountsExact
  <2>1. CASE p = o
    <3>1. Collective(o)' /\ strongs'[o] = {h} /\ Cardinality({h}) = 1
      BY SingleHandle DEF Collective, TypeOK
    <3>2. Cardinality(weaks[o]) = 0
      BY <1>1, FS_EmptySet
    <3>3. strong'[s] = 1 /\ weak'[s] = 1
      BY <1>3, <1>4 DEF TypeOK
    <3>4. QED
      BY <2>1, <3>1, <3>2, <3>3, <1>5
  <2>2. CASE p # o
    <3>1. slot'[p] = slot[p] /\ slot[p] # s /\ slot[p] # NoSlot
      BY <2>2, <1>2, <1>5
    <3>2. (Collective(p)' <=> Collective(p)) /\ strongs'[p] = strongs[p]
      BY <2>2 DEF Collective, TypeOK
    <3>3. strong'[slot[p]] = strong[slot[p]] /\ weak'[slot[p]] = weak[slot[p]]
      BY <3>1, <1>3 DEF TypeOK
    <3>4. QED
      BY <3>1, <3>2, <3>3 DEF CountsExact
  <2>3. QED
    BY <2>1, <2>2
<1>8. DroppedOnce'
  BY <1>1 DEF DroppedOnce, TypeOK, Dropping
<1>9. PoolExact'
  <2>1. {slot'[p] : p \in {q \in Objects : slot'[q] # NoSlot}}
          = {slot[p] : p \in {q \in Objects : slot[q] # NoSlot}} \cup {s}
    BY <1>1, <1>4, <1>5
  <2>2. free' \cup {slot'[p] : p \in {q \in Objects : slot'[q] # NoSlot}} = Pooled(chunks')
    BY <2>1, <1>2, <1>3
  <2>3. \A p, q \in Objects : slot'[p] # NoSlot =>
          slot'[p] \notin free' /\ (p # q => slot'[p] # slot'[q])
    BY <1>2, <1>3, <1>4, <1>5 DEF PoolExact
  <2>4. QED
    BY <2>2, <2>3 DEF PoolExact
<1>10. SlotsUsed'
  <2>1. slot'[o] # NoSlot /\ strongs'[o] # {}
    BY <1>4, <1>5 DEF TypeOK
  <2>2. \A p \in Objects \ {o} : slot'[p] = slot[p] /\ strongs'[p] = strongs[p]
    BY <1>5 DEF TypeOK
  <2>3. QED
    BY <2>1, <2>2 DEF SlotsUsed
<1>11. LocalOK'
  <2> SUFFICES ASSUME NEW u \in Threads, pc[u] # "idle"
               PROVE  /\ pc[u] = "upgrade" => bor[u] \in weaks[obj[u]] /\ snap[u] # 0
                      /\ pc[u] = "drop_data" => strongs'[obj[u]] = {}
                      /\ pc[u] = "release" => data'[obj[u]] = "dropped"
                      /\ pc[u] = "free_slot" => weak'[slot'[obj[u]]] = 0
    BY DEF LocalOK
  <2>1. obj[u] \in Objects /\ obj[u] # o
    BY <1>1 DEF TypeOK
  <2>2. pc[u] = "free_slot" => slot[obj[u]] # NoSlot
    BY <2>1 DEF SlotsUsed, Dropping
  <2>3. pc[u] = "free_slot" => weak'[slot'[obj[u]]] = weak[slot[obj[u]]]
    BY <2>1, <2>2, <1>2, <1>3, <1>5 DEF TypeOK
  <2>4. QED
    BY <2>1, <2>3 DEF LocalOK, TypeOK
<1>12. DataOK'
  <2>1. Collective(o)' /\ data'[o] = "live"
    BY DEF Collective, TypeOK
  <2>2. \A p \in Objects \ {o} :
          /\ Collective(p)' <=> Collective(p)
          /\ slot'[p] = slot[p] /\ data'[p] = data[p] /\ strongs'[p] = strongs[p]
    BY <1>5 DEF Collective, TypeOK
  <2>3. QED
    BY <2>1, <2>2 DEF DataOK
<1>13. QED
  BY <1>6, <1>7, <1>8, <1>9, <1>10, <1>11, <1>12

(* A count is added for a handle made from an existing strong handle.      *)
LEMMA StrongCloneInv ==
  ASSUME IInv, NEW o \in Objects, NEW h \in Handles, StrongClone(o, h)
  PROVE  IInv'
<1> USE DEF StrongClone, IInv, pool, local
<1>1. /\ slot[o] \in Slots /\ data[o] = "live"
      /\ strongs[o] \in SUBSET Handles /\ h \in Handles \ strongs[o]
      /\ strongs'[o] = strongs[o] \cup {h}
  BY DEF SlotsUsed, DataOK, TypeOK, Fresh
<1>2. /\ strong[slot[o]] = Cardinality(strongs[o])
      /\ Cardinality(strongs[o]) \in Nat
      /\ Cardinality(strongs[o]) + 1 < CountMax
      /\ Cardinality(strongs'[o]) = Cardinality(strongs[o]) + 1
  BY <1>1, HandleCount DEF CountsExact, SlotsUsed
<1>3. Inc(strong[slot[o]]) = Cardinality(strongs'[o]) /\ Inc(strong[slot[o]]) \in Counts
  BY <1>2, SizeAssumption DEF Inc, Counts
<1>4. \A p \in Objects : Collective(p)' <=> Collective(p)
  BY DEF Collective, TypeOK
<1>5. \A p \in Objects \ {o} : slot[p] # NoSlot => slot[p] # slot[o]
  BY DEF PoolExact
<1>6. TypeOK'
  BY <1>3 DEF TypeOK
<1>7. CountsExact'
  <2> SUFFICES ASSUME NEW p \in Objects, slot[p] # NoSlot
               PROVE  /\ strong'[slot[p]] = Cardinality(strongs'[p])
                      /\ weak[slot[p]] = Cardinality(weaks[p])
                                           + (IF Collective(p) THEN 1 ELSE 0)
    BY <1>4 DEF CountsExact
  <2>1. CASE p = o
    BY <2>1, <1>1, <1>3 DEF TypeOK, CountsExact
  <2>2. CASE p # o
    BY <2>2, <1>5 DEF TypeOK, CountsExact
  <2>3. QED
    BY <2>1, <2>2
<1>8. DroppedOnce' /\ PoolExact'
  BY DEF DroppedOnce, PoolExact
<1>9. SlotsUsed' /\ DataOK'
  BY <1>1, <1>4 DEF SlotsUsed, DataOK, TypeOK
<1>10. LocalOK'
  BY DEF LocalOK, TypeOK
<1>11. QED
  BY <1>6, <1>7, <1>8, <1>9, <1>10

LEMMA WeakDowngradeInv ==
  ASSUME IInv, NEW o \in Objects, NEW h \in Handles, WeakDowngrade(o, h)
  PROVE  IInv'
<1> USE DEF WeakDowngrade, IInv, pool, local
<1>1. /\ slot[o] \in Slots
      /\ weaks[o] \in SUBSET Handles /\ h \in Handles \ weaks[o]
      /\ weaks'[o] = weaks[o] \cup {h}
  BY DEF SlotsUsed, TypeOK, Fresh
<1>2. /\ weak[slot[o]] = Cardinality(weaks[o]) + 1
      /\ Cardinality(weaks[o]) \in Nat
      /\ Cardinality(weaks[o]) + 1 < CountMax
      /\ Cardinality(weaks'[o]) = Cardinality(weaks[o]) + 1
  BY <1>1, HandleCount DEF CountsExact, Collective, SlotsUsed
<1>3. Inc(weak[slot[o]]) = Cardinality(weaks'[o]) + 1 /\ Inc(weak[slot[o]]) \in Counts
  BY <1>2, SizeAssumption DEF Inc, Counts
<1>4. Collective(o) /\ \A p \in Objects : Collective(p)' <=> Collective(p)
  BY DEF Collective
<1>5. \A p \in Objects \ {o} : slot[p] # NoSlot => slot[p] # slot[o]
  BY DEF PoolExact
<1>6. TypeOK'
  BY <1>3 DEF TypeOK
<1>7. CountsExact'
  <2> SUFFICES ASSUME NEW p \in Objects, slot[p] # NoSlot
               PROVE  /\ strong[slot[p]] = Cardinality(strongs[p])
                      /\ weak'[slot[p]] = Cardinality(weaks'[p])
                                            + (IF Collective(p) THEN 1 ELSE 0)
    BY <1>4 DEF CountsExact
  <2>1. CASE p = o
    BY <2>1, <1>1, <1>3, <1>4 DEF TypeOK, CountsExact
  <2>2. CASE p # o
    BY <2>2, <1>5 DEF TypeOK, CountsExact
  <2>3. QED
    BY <2>1, <2>2
<1>8. DroppedOnce' /\ PoolExact' /\ DataOK'
  BY <1>4 DEF DroppedOnce, PoolExact, DataOK
<1>9. SlotsUsed'
  BY DEF SlotsUsed, TypeOK
<1>10. LocalOK'
  <2> SUFFICES ASSUME NEW u \in Threads
               PROVE  pc[u] = "free_slot" => weak'[slot[obj[u]]] = 0
    BY DEF LocalOK, TypeOK
  <2>1. pc[u] = "free_slot" => slot[obj[u]] # slot[o]
    BY <1>2 DEF LocalOK
  <2>2. QED
    BY <2>1, <1>1 DEF LocalOK, TypeOK
<1>11. QED
  BY <1>6, <1>7, <1>8, <1>9, <1>10

(* The three steps of an upgrade.                                          *)
LEMMA UpgradeLoadInv ==
  ASSUME IInv, NEW t \in Threads, NEW o \in Objects, NEW h \in Handles,
         UpgradeLoad(t, o, h)
  PROVE  IInv'
<1> USE DEF UpgradeLoad, IInv, pool, AfterSeen
<1>1. strong[slot[o]] \in Counts /\ slot[o] # NoSlot
  BY DEF TypeOK, SlotsUsed
<1>2. \A u \in Threads : pc'[u] \in Dropping => u # t
  BY DEF TypeOK, Dropping
<1>3. TypeOK'
  BY <1>1 DEF TypeOK
<1>4. CountsExact' /\ DataOK'
  <2>1. \A p \in Objects : Collective(p)' <=> Collective(p)
    BY DEF Collective, TypeOK
  <2>2. QED
    BY <2>1 DEF CountsExact, DataOK
<1>5. DroppedOnce' /\ PoolExact'
  BY <1>2 DEF DroppedOnce, PoolExact, TypeOK, Dropping
<1>6. SlotsUsed'
  BY <1>2 DEF SlotsUsed, TypeOK, Dropping
<1>7. LocalOK'
  BY DEF LocalOK, TypeOK
<1>8. QED
  BY <1>3, <1>4, <1>5, <1>6, <1>7

LEMMA UpgradeRetryInv ==
  ASSUME IInv, NEW t \in Threads, UpgradeRetry(t)
  PROVE  IInv'
<1> USE DEF UpgradeRetry, IInv, pool, AfterLostRace, AfterSeen
<1>1. strong[slot[obj[t]]] \in Counts
  BY DEF TypeOK, SlotsUsed, LocalOK
<1>2. \A u \in Threads : pc'[u] \in Dropping => u # t
  BY DEF TypeOK, Dropping
<1>3. TypeOK'
  BY <1>1 DEF TypeOK
<1>4. CountsExact' /\ DataOK'
  <2>1. \A p \in Objects : Collective(p)' <=> Collective(p)
    BY DEF Collective, TypeOK
  <2>2. QED
    BY <2>1 DEF CountsExact, DataOK
<1>5. DroppedOnce' /\ PoolExact'
  BY <1>2 DEF DroppedOnce, PoolExact, TypeOK, Dropping
<1>6. SlotsUsed'
  BY <1>2 DEF SlotsUsed, TypeOK, Dropping
<1>7. LocalOK'
  BY DEF LocalOK, TypeOK
<1>8. QED
  BY <1>3, <1>4, <1>5, <1>6, <1>7

(* A matching exchange proves that a strong handle still exists.           *)
LEMMA UpgradeCasInv ==
  ASSUME IInv, NEW t \in Threads, NEW h \in Handles, UpgradeCas(t, h)
  PROVE  IInv' /\ strongs[obj[t]] # {} /\ data[obj[t]] = "live" /\ weaks[obj[t]] # {}
<1> USE DEF UpgradeCas, IInv, pool, local, Exchanges
<1> DEFINE o == obj[t]
<1>1. /\ o \in Objects /\ slot[o] \in Slots
      /\ bor[t] \in weaks[o] /\ snap[t] # 0
      /\ strongs[o] \in SUBSET Handles /\ h \in Handles \ strongs[o]
      /\ strongs'[o] = strongs[o] \cup {h}
  BY DEF SlotsUsed, LocalOK, TypeOK, Fresh
<1>2. /\ snap[t] = Cardinality(strongs[o])
      /\ Cardinality(strongs[o]) \in Nat
      /\ Cardinality(strongs[o]) = 0 <=> strongs[o] = {}
      /\ Cardinality(strongs[o]) + 1 < CountMax
      /\ Cardinality(strongs'[o]) = Cardinality(strongs[o]) + 1
  BY <1>1, HandleCount DEF CountsExact, SlotsUsed
<1>3. strongs[o] # {} /\ data[o] = "live" /\ weaks[o] # {}
  BY <1>1, <1>2 DEF DataOK
<1>4. Inc(snap[t]) = Cardinality(strongs'[o]) /\ Inc(snap[t]) \in Counts
  BY <1>2, SizeAssumption DEF Inc, Counts
<1>5. \A p \in Objects : Collective(p)' <=> Collective(p)
  BY <1>3 DEF Collective, TypeOK
<1>6. \A p \in Objects \ {o} : slot[p] # NoSlot => slot[p] # slot[o]
  BY <1>1 DEF PoolExact
<1>7. TypeOK'
  BY <1>4 DEF TypeOK
<1>8. CountsExact'
  <2> SUFFICES ASSUME NEW p \in Objects, slot[p] # NoSlot
               PROVE  /\ strong'[slot[p]] = Cardinality(strongs'[p])
                      /\ weak[slot[p]] = Cardinality(weaks[p])
                                           + (IF Collective(p) THEN 1 ELSE 0)
    BY <1>5 DEF CountsExact
  <2>1. CASE p = o
    BY <2>1, <1>1, <1>4 DEF TypeOK, CountsExact
  <2>2. CASE p # o
    BY <2>2, <1>6 DEF TypeOK, CountsExact
  <2>3. QED
    BY <2>1, <2>2
<1>9. DroppedOnce' /\ PoolExact'
  BY DEF DroppedOnce, PoolExact, TypeOK, Dropping
<1>10. SlotsUsed'
  BY <1>3 DEF SlotsUsed, TypeOK, Dropping
<1>11. LocalOK' /\ DataOK'
  BY <1>3, <1>5 DEF LocalOK, DataOK, TypeOK
<1>12. QED
  BY <1>3, <1>7, <1>8, <1>9, <1>10, <1>11
-----------------------------------------------------------------------------
LEMMA NextInv == IInv /\ [Next]_vars => IInv'
<1> SUFFICES ASSUME IInv, [Next]_vars PROVE IInv'
  OBVIOUS
<1>1. ASSUME NEW o \in Objects, NEW h \in Handles,
             New(o, h) \/ StrongClone(o, h) \/ WeakDowngrade(o, h)
      PROVE  IInv'
  BY <1>1, NewInv, StrongCloneInv, WeakDowngradeInv
<1>2. ASSUME NEW t \in Threads, NEW o \in Objects, NEW h \in Handles,
             StrongDrop(t, o, h) \/ WeakDrop(t, o, h) \/ UpgradeLoad(t, o, h)
      PROVE  IInv'
  BY <1>2, StrongDropInv, WeakDropInv, UpgradeLoadInv
<1>3. ASSUME NEW t \in Threads, NEW h \in Handles, UpgradeCas(t, h)
      PROVE  IInv'
  BY <1>3, UpgradeCasInv
<1>4. ASSUME NEW t \in Threads, UpgradeRetry(t) \/ Finish(t)
      PROVE  IInv'
  BY <1>4, UpgradeRetryInv, DropDataInv, ReleaseWeakInv, FreeSlotInv DEF Finish
<1>5. CASE UNCHANGED vars
  BY <1>5 DEF vars, IInv, TypeOK, CountsExact, Collective, DroppedOnce, PoolExact,
              SlotsUsed, LocalOK, DataOK
<1>6. QED
  BY <1>1, <1>2, <1>3, <1>4, <1>5 DEF Next

(* The inductive invariant holds in every reachable state.                 *)
THEOREM Invariance == Spec => []IInv
BY InitInv, NextInv, PTL DEF Spec

(* Every variable keeps its type; no slot outside the pool is ever used.   *)
THEOREM TypeCorrect == Spec => []TypeOK
BY Invariance, PTL DEF IInv

(* No count is lost, however clones, drops and upgrades interleave.        *)
THEOREM CountsAreExact == Spec => []CountsExact
BY Invariance, PTL DEF IInv

(* The value is destroyed, and its slot freed, by one thread.              *)
THEOREM DropsOnlyOnce == Spec => []DroppedOnce
BY Invariance, PTL DEF IInv

(* No slot is leaked, shared or freed twice.                               *)
THEOREM PoolIsExact == Spec => []PoolExact
BY Invariance, PTL DEF IInv

(* No handle outlives what it points to: the memory safety of the unsafe   *)
(* code in sepcount.rs.                                                    *)
THEOREM HandlesAreValid == Spec => []HandlesValid
<1>1. IInv => HandlesValid
  BY DEF IInv, HandlesValid, TypeOK, DataOK, SlotsUsed, LocalOK, PoolExact, Dropping
<1>2. QED
  BY <1>1, Invariance, PTL

(* An upgrade fails only without, and succeeds only with, a strong handle. *)
THEOREM UpgradesAreExact == Spec => UpgradeExact
<1> DEFINE Exact ==
      \A t \in Threads, o \in Objects :
        /\ \A h \in Handles : UpgradeLoad(t, o, h) /\ pc'[t] = "idle" => strongs[o] = {}
        /\ UpgradeRetry(t) /\ obj[t] = o /\ pc'[t] = "idle" => strongs[o] = {}
        /\ data[o] # "unborn" /\ strongs[o] = {} => strongs'[o] = {}
<1>1. ASSUME IInv, [Next]_vars PROVE [Exact]_vars
  <2> USE <1>1
  <2>1. ASSUME NEW o \in Objects, slot[o] # NoSlot, strong[slot[o]] = 0
        PROVE  strongs[o] = {}
    BY <2>1, HandleCount DEF IInv, TypeOK, CountsExact
  <2>2. ASSUME NEW t \in Threads, NEW o \in Objects, NEW h \in Handles,
               UpgradeLoad(t, o, h), pc'[t] = "idle"
        PROVE  strongs[o] = {}
    BY <2>1, <2>2 DEF IInv, TypeOK, SlotsUsed, UpgradeLoad, AfterSeen
  <2>3. ASSUME NEW t \in Threads, UpgradeRetry(t), pc'[t] = "idle"
        PROVE  strongs[obj[t]] = {}
    BY <2>1, <2>3 DEF IInv, TypeOK, SlotsUsed, LocalOK, UpgradeRetry, AfterLostRace, AfterSeen
  <2>4. ASSUME NEW o \in Objects, data[o] # "unborn", strongs[o] = {}
        PROVE  strongs'[o] = {}
    <3>1. ASSUME NEW p \in Objects, NEW h \in Handles,
                 New(p, h) \/ StrongClone(p, h) \/ WeakDowngrade(p, h)
          PROVE  strongs'[o] = {}
      BY <2>4, <3>1 DEF New, StrongClone, WeakDowngrade, IInv, TypeOK
    <3>2. ASSUME NEW t \in Threads, NEW p \in Objects, NEW h \in Handles,
                 StrongDrop(t, p, h) \/ WeakDrop(t, p, h) \/ UpgradeLoad(t, p, h)
          PROVE  strongs'[o] = {}
      BY <2>4, <3>2 DEF StrongDrop, WeakDrop, UpgradeLoad, IInv, TypeOK
    <3>3. ASSUME NEW t \in Threads, NEW h \in Handles, UpgradeCas(t, h)
          PROVE  strongs'[o] = {}
      <4>1. strongs[obj[t]] # {}
        BY <3>3, UpgradeCasInv
      <4>2. QED
        BY <2>4, <3>3, <4>1 DEF UpgradeCas, IInv, TypeOK
    <3>4. ASSUME NEW t \in Threads, UpgradeRetry(t) \/ Finish(t)
          PROVE  strongs'[o] = {}
      BY <2>4, <3>4 DEF UpgradeRetry, Finish, DropData, ReleaseWeak, FreeSlot
    <3>5. CASE UNCHANGED vars
      BY <2>4, <3>5 DEF vars
    <3>6. QED
      BY <3>1, <3>2, <3>3, <3>4, <3>5 DEF Next
  <2>5. QED
    BY <2>2, <2>3, <2>4
<1>2. QED
  BY <1>1, Invariance, PTL DEF Spec, UpgradeExact
-----------------------------------------------------------------------------
(***************************************************************************)
(* The refinement: every step is a step of the contract, or invisible to   *)
(* it.                                                                     *)
(***************************************************************************)
LEMMA RefineInit == Init => Contract!Init
BY DEF SlotHolders, Lifetime, Init, Contract!Init

LEMMA RefineNext == IInv /\ [Next]_vars => [Contract!Next]_(Contract!vars)
<1> SUFFICES ASSUME IInv, [Next]_vars
             PROVE  Contract!Next \/ UNCHANGED Contract!vars
  OBVIOUS
<1>1. ASSUME NEW o \in Objects, NEW h \in Handles, New(o, h)
      PROVE  Contract!New(o, h)
  <2>1. SlotHolders' = SlotHolders \cup {o}
    <3>1. PICK s \in Slots : slot' = [slot EXCEPT ![o] = s]
      <4>1. CASE free = {}
        <5>1. chunks \in Nat /\ chunks + 1 <= MaxChunks
          BY <1>1, <4>1, SizeAssumption DEF New, IInv, TypeOK
        <5>2. Chunk(chunks + 1) \subseteq Slots
          BY <5>1, SlotFacts
        <5>3. QED
          BY <1>1, <4>1, <5>2 DEF New
      <4>2. CASE free # {}
        BY <1>1, <4>2 DEF New, IInv, TypeOK
      <4>3. QED
        BY <4>1, <4>2
    <3>2. QED
      BY <3>1, SlotFacts DEF SlotHolders, Lifetime, IInv, TypeOK
  <2>2. Lifetime[o] = "unborn" /\ Lifetime' = [Lifetime EXCEPT ![o] = "live"]
    BY <1>1 DEF New, Lifetime, IInv, TypeOK
  <2>3. QED
    BY <1>1, <2>1, <2>2 DEF New, Contract!New, Fresh, Contract!Fresh
<1>2. ASSUME NEW o \in Objects, NEW h \in Handles, StrongClone(o, h)
      PROVE  Contract!StrongClone(o, h)
  BY <1>2 DEF SlotHolders, Lifetime, StrongClone, Contract!StrongClone, Fresh, Contract!Fresh, pool
<1>3. ASSUME NEW o \in Objects, NEW h \in Handles, WeakDowngrade(o, h)
      PROVE  Contract!WeakDowngrade(o, h)
  BY <1>3 DEF SlotHolders, Lifetime, WeakDowngrade, Contract!WeakDowngrade, Fresh, Contract!Fresh, pool
<1>4. ASSUME NEW t \in Threads, NEW o \in Objects, NEW h \in Handles, StrongDrop(t, o, h)
      PROVE  Contract!StrongDrop(o, h)
  <2>1. strongs'[o] = strongs[o] \ {h} /\ data[o] = "live"
    BY <1>4 DEF StrongDrop, IInv, DataOK, TypeOK
  <2>2. CASE strongs[o] = {h}
    <3>1. Lifetime' = [Lifetime EXCEPT ![o] = "expired"]
      BY <1>4, <2>1, <2>2 DEF StrongDrop, Lifetime, IInv, TypeOK
    <3>2. QED
      BY <1>4, <2>2, <3>1 DEF SlotHolders, StrongDrop, Contract!StrongDrop, pool
  <2>3. CASE strongs[o] # {h}
    <3>1. strongs'[o] # {}
      BY <1>4, <2>1, <2>3 DEF StrongDrop
    <3>2. Lifetime' = Lifetime
      BY <1>4, <2>1, <3>1 DEF StrongDrop, Lifetime, IInv, TypeOK
    <3>3. QED
      BY <1>4, <3>2 DEF SlotHolders, StrongDrop, Contract!StrongDrop, pool
  <2>4. QED
    BY <2>2, <2>3
<1>5. ASSUME NEW t \in Threads, NEW o \in Objects, NEW h \in Handles, WeakDrop(t, o, h)
      PROVE  Contract!WeakDrop(o, h)
  BY <1>5 DEF SlotHolders, Lifetime, WeakDrop, Contract!WeakDrop, pool
<1>6. ASSUME NEW t \in Threads, NEW h \in Handles, UpgradeCas(t, h)
      PROVE  Contract!WeakUpgrade(obj[t], h)
  <2>1. data[obj[t]] = "live" /\ weaks[obj[t]] # {}
    BY <1>6, UpgradeCasInv
  <2>2. strongs[obj[t]] # {} /\ obj[t] \in Objects
    BY <1>6, UpgradeCasInv DEF IInv, TypeOK
  <2>3. Lifetime[obj[t]] = "live" /\ Lifetime' = Lifetime
    BY <1>6, <2>1, <2>2 DEF UpgradeCas, Lifetime, IInv, TypeOK
  <2>4. QED
    BY <1>6, <2>1, <2>3 DEF SlotHolders, UpgradeCas, Contract!WeakUpgrade,
                            Fresh, Contract!Fresh, pool
<1>7. ASSUME NEW t \in Threads, DropData(t)
      PROVE  Contract!Destroy(obj[t])
  <2>1. obj[t] \in Objects /\ data[obj[t]] = "live" /\ strongs[obj[t]] = {}
    BY <1>7 DEF DropData, IInv, TypeOK, DroppedOnce, LocalOK
  <2>2. /\ Lifetime[obj[t]] = "expired"
        /\ Lifetime' = [Lifetime EXCEPT ![obj[t]] = "dropped"]
    BY <1>7, <2>1 DEF DropData, Lifetime, IInv, TypeOK
  <2>3. QED
    BY <1>7, <2>2 DEF SlotHolders, DropData, Contract!Destroy, pool
<1>8. ASSUME NEW t \in Threads, FreeSlot(t)
      PROVE  Contract!Release(obj[t])
  <2> DEFINE o == obj[t]
  <2>1. o \in Objects /\ slot[o] # NoSlot
    BY <1>8 DEF FreeSlot, IInv, SlotsUsed, TypeOK, Dropping
  <2>2. weak[slot[o]] = 0 /\ Cardinality(weaks[o]) \in Nat
    BY <1>8, <2>1, HandleCount DEF FreeSlot, IInv, LocalOK, TypeOK
  <2>3. weaks[o] = {} /\ strongs[o] = {} /\ ~Collective(o)
    BY <2>1, <2>2, HandleCount DEF IInv, CountsExact, Collective, TypeOK
  <2>4. data[o] = "dropped"
    BY <1>8, <2>1, <2>3 DEF FreeSlot, IInv, DataOK, TypeOK
  <2>5. SlotHolders' = SlotHolders \ {o}
    BY <1>8, <2>1 DEF SlotHolders, Lifetime, FreeSlot, IInv, TypeOK
  <2>6. QED
    BY <1>8, <2>1, <2>3, <2>4, <2>5 DEF SlotHolders, Lifetime, FreeSlot, Contract!Release
<1>9. ASSUME NEW t \in Threads,
             \/ \E o \in Objects, h \in Handles : UpgradeLoad(t, o, h)
             \/ UpgradeRetry(t)
             \/ ReleaseWeak(t)
      PROVE  UNCHANGED Contract!vars
  BY <1>9 DEF SlotHolders, Lifetime, UpgradeLoad, UpgradeRetry, ReleaseWeak, Contract!vars, pool
<1>10. CASE UNCHANGED vars
  BY <1>10 DEF SlotHolders, Lifetime, vars, Contract!vars
<1>11. ASSUME NEW t \in Threads, Finish(t)
       PROVE  Contract!Next \/ UNCHANGED Contract!vars
  <2>1. obj[t] \in Objects
    BY DEF IInv, TypeOK
  <2>2. CASE DropData(t)
    BY <1>7, <2>1, <2>2 DEF Contract!Next
  <2>3. CASE ReleaseWeak(t)
    BY <1>9, <2>3
  <2>4. CASE FreeSlot(t)
    <3>1. Contract!Release(obj[t])
      BY <1>8, <2>4
    <3>2. QED
      BY <2>1, <3>1 DEF Contract!Next
  <2>5. QED
    BY <1>11, <2>2, <2>3, <2>4 DEF Finish
<1>12. ASSUME NEW t \in Threads, NEW h \in Handles, UpgradeCas(t, h)
       PROVE  Contract!Next
  <2>1. obj[t] \in Objects
    BY DEF IInv, TypeOK
  <2>2. QED
    BY <1>6, <1>12, <2>1 DEF Contract!Next
<1>13. ASSUME NEW o \in Objects, NEW h \in Handles,
              New(o, h) \/ StrongClone(o, h) \/ WeakDowngrade(o, h)
       PROVE  Contract!Next
  BY <1>1, <1>2, <1>3, <1>13 DEF Contract!Next
<1>14. ASSUME NEW t \in Threads, NEW o \in Objects, NEW h \in Handles,
              StrongDrop(t, o, h) \/ WeakDrop(t, o, h) \/ UpgradeLoad(t, o, h)
       PROVE  Contract!Next \/ UNCHANGED Contract!vars
  BY <1>4, <1>5, <1>9, <1>14 DEF Contract!Next
<1>15. QED
  BY <1>9, <1>10, <1>11, <1>12, <1>13, <1>14 DEF Next

(* sepcount.rs implements the contract of the Reference traits.            *)
THEOREM Refinement == Spec => ImplementsReference
<1>1. Spec => Contract!Init /\ [][Contract!Next]_(Contract!vars)
  BY RefineInit, RefineNext, Invariance, PTL DEF Spec
<1>2. QED
  BY <1>1 DEF ImplementsReference, Contract!Spec
=============================================================================
