------------------------------- MODULE RefSep -------------------------------
(***************************************************************************)
(* Reference handles whose counts live in a global pool of count slots     *)
(* (src/hirpdag_hashconsing/src/reference/sepcount.rs: SlotPool,           *)
(* define_count_slot!, RefSepGeneric and RefSepGenericWeak).               *)
(*                                                                         *)
(* One action per atomic operation on a slot, per destructor of a value    *)
(* and per critical section of the pool; what happens between two of them  *)
(* is where other threads interleave.  `strongs' and `weaks' record which  *)
(* handles exist: Rust's ownership, not memory the program reads.  Handles *)
(* travel between threads (they are Send and Sync), so any thread may use  *)
(* any handle; a handle another thread borrows cannot be dropped.          *)
(*                                                                         *)
(* Atomics are sequentially consistent here: every counter is only read    *)
(* and written by read-modify-write operations (and the load that starts   *)
(* an upgrade), and the release decrements with their acquire fence order  *)
(* the destructor after every other use.                                   *)
(***************************************************************************)
EXTENDS Naturals, FiniteSets

CONSTANTS
  Threads,
  Objects,      (* heap values, each created at most once                  *)
  Handles,      (* handle identities, reused once their handle is dropped  *)
  ChunkSlots,   (* CHUNK_SLOTS                                             *)
  MaxChunks,    (* bound: chunks the pool may allocate                     *)
  CountMax      (* the largest value of a counter (usize::MAX, u32::MAX)   *)

ASSUME SizeAssumption ==
  /\ ChunkSlots \in Nat \ {0}
  /\ MaxChunks \in Nat
  /\ CountMax \in Nat

(* "Counts must stay below u32::MAX": the collective weak count comes on   *)
(* top of one count per handle.                                            *)
ASSUME CountAssumption ==
  /\ IsFiniteSet(Handles)
  /\ Cardinality(Handles) + 1 < CountMax

(* A slot is named by its chunk and its place in the chunk.  Each mutant   *)
(* below is a bug its neighbour could have; the model never uses one.      *)
ChunkFromZero(c) == {c} \X (0 .. ChunkSlots - 1)
Chunk(c) == {c} \X (1 .. ChunkSlots)
Slots == (1 .. MaxChunks) \X (1 .. ChunkSlots)
NoSlot == <<0, 0>>
Pooled(c) == (1 .. c) \X (1 .. ChunkSlots)

VARIABLES
  strong,       (* strong[s], weak[s]: the two counters of slot s          *)
  weak,
  free,         (* SlotPoolInner.free, whose order only picks the next slot *)
  chunks,       (* the length of SlotPoolInner.chunks                      *)
  slot,         (* slot[o]: the slot field of o's handles                  *)
  data,         (* data[o]: whether the Box behind o's handles is there    *)
  strongs,      (* strongs[o], weaks[o]: the handles of o that exist       *)
  weaks,
  pc,           (* what thread t does next                                 *)
  obj,          (* the object of t's unfinished drop or upgrade            *)
  bor,          (* the weak handle t's unfinished upgrade borrows          *)
  snap          (* `n' of t's compare-exchange loop                        *)

vars == <<strong, weak, free, chunks, slot, data, strongs, weaks, pc, obj, bor, snap>>
pool == <<free, chunks, slot>>
local == <<obj, bor, snap>>

Counts == 0 .. CountMax
Dropping == {"drop_data", "release", "free_slot"}

TypeOK ==
  /\ strong \in [Slots -> Counts]
  /\ weak \in [Slots -> Counts]
  /\ free \in SUBSET Slots
  /\ chunks \in 0 .. MaxChunks
  /\ slot \in [Objects -> Slots \cup {NoSlot}]
  /\ data \in [Objects -> {"unborn", "live", "dropped"}]
  /\ strongs \in [Objects -> SUBSET Handles]
  /\ weaks \in [Objects -> SUBSET Handles]
  /\ pc \in [Threads -> {"idle", "upgrade"} \cup Dropping]
  /\ obj \in [Threads -> Objects]
  /\ bor \in [Threads -> Handles]
  /\ snap \in [Threads -> Counts]

Init ==
  /\ strong = [s \in Slots |-> 0]
  /\ weak = [s \in Slots |-> 0]
  /\ free = {}
  /\ chunks = 0
  /\ slot = [o \in Objects |-> NoSlot]
  /\ data = [o \in Objects |-> "unborn"]
  /\ strongs = [o \in Objects |-> {}]
  /\ weaks = [o \in Objects |-> {}]
  /\ pc = [t \in Threads |-> "idle"]
  /\ obj \in [Threads -> Objects]
  /\ bor \in [Threads -> Handles]
  /\ snap = [t \in Threads |-> 0]

(* fetch_add(1) and fetch_sub(1) wrap around.                              *)
Inc(n) == IF n = CountMax THEN 0 ELSE n + 1
Dec(n) == IF n = 0 THEN CountMax ELSE n - 1

(* What the previous value that a read-modify-write returns tells: the     *)
(* strong handle was the last one; the slot is nobody's any more; the      *)
(* object cannot be upgraded; the exchange found what it expected.         *)
AfterOneLeft(n) == IF n = 2 THEN "drop_data" ELSE "idle"
AfterStrongDec(n) == IF n = 1 THEN "drop_data" ELSE "idle"

AfterNeverFreed(n) == IF n = 0 THEN "free_slot" ELSE "idle"
AfterWeakDec(n) == IF n = 1 THEN "free_slot" ELSE "idle"

AlwaysUpgrades(n) == "upgrade"
AfterSeen(n) == IF n = 0 THEN "idle" ELSE "upgrade"

GivesUp(n) == "idle"
AfterLostRace(n) == AfterSeen(n)

StoresBlindly(found, expected) == TRUE
Exchanges(found, expected) == found = expected

(* The counters a slot starts with.                                        *)
NoCollective == [strong |-> 1, weak |-> 0]
SlotInit == [strong |-> 1, weak |-> 1]

(* Taking a slot from the free list.                                       *)
Peek(stock, s) == stock
Pop(stock, s) == stock \ {s}

Fresh(h) == \A o \in Objects : h \notin strongs[o] /\ h \notin weaks[o]

Borrowed(o, h) == \E t \in Threads : pc[t] = "upgrade" /\ obj[t] = o /\ bor[t] = h
-----------------------------------------------------------------------------
(***************************************************************************)
(* Reference::new: the Box, then a slot from the pool.  SlotPool::alloc is *)
(* one critical section: grow by a chunk when the free list is empty, pop  *)
(* a slot, store 1 into both of its counters.                              *)
(***************************************************************************)
New(o, h) ==
  /\ data[o] = "unborn"
  /\ Fresh(h)
  /\ chunks < MaxChunks \/ free # {}
  /\ LET grow == free = {}
         stock == IF grow THEN Chunk(chunks + 1) ELSE free
     IN  \E s \in stock :
            /\ chunks' = IF grow THEN chunks + 1 ELSE chunks
            /\ free' = Pop(stock, s)
            /\ slot' = [slot EXCEPT ![o] = s]
            /\ strong' = [strong EXCEPT ![s] = SlotInit.strong]
            /\ weak' = [weak EXCEPT ![s] = SlotInit.weak]
  /\ data' = [data EXCEPT ![o] = "live"]
  /\ strongs' = [strongs EXCEPT ![o] = {h}]
  /\ UNCHANGED <<weaks, pc, local>>

(* Reference::strong_clone through any existing strong handle.             *)
StrongClone(o, h) ==
  /\ strongs[o] # {}
  /\ Fresh(h)
  /\ strong' = [strong EXCEPT ![slot[o]] = Inc(@)]
  /\ strongs' = [strongs EXCEPT ![o] = @ \cup {h}]
  /\ UNCHANGED <<weak, pool, data, weaks, pc, local>>

(* ReferenceWeak::weak_downgrade through any existing strong handle.       *)
WeakDowngrade(o, h) ==
  /\ strongs[o] # {}
  /\ Fresh(h)
  /\ weak' = [weak EXCEPT ![slot[o]] = Inc(@)]
  /\ weaks' = [weaks EXCEPT ![o] = @ \cup {h}]
  /\ UNCHANGED <<strong, pool, data, strongs, pc, local>>

(* Drop of a strong handle: strong_dec, and whether it was the last one.   *)
StrongDrop(t, o, h) ==
  /\ pc[t] = "idle"
  /\ h \in strongs[o]
  /\ strongs' = [strongs EXCEPT ![o] = @ \ {h}]
  /\ strong' = [strong EXCEPT ![slot[o]] = Dec(@)]
  /\ pc' = [pc EXCEPT ![t] = AfterStrongDec(strong[slot[o]])]
  /\ obj' = [obj EXCEPT ![t] = o]
  /\ UNCHANGED <<weak, pool, data, weaks, bor, snap>>

(* ... drop(Box::from_raw(data)) ...                                       *)
DropData(t) ==
  /\ pc[t] = "drop_data"
  /\ data' = [data EXCEPT ![obj[t]] = "dropped"]
  /\ pc' = [pc EXCEPT ![t] = "release"]
  /\ UNCHANGED <<strong, weak, pool, strongs, weaks, local>>

(* ... and weak_dec of the count the strong handles held collectively.     *)
ReleaseWeak(t) ==
  LET s == slot[obj[t]]
  IN  /\ pc[t] = "release"
      /\ weak' = [weak EXCEPT ![s] = Dec(@)]
      /\ pc' = [pc EXCEPT ![t] = AfterWeakDec(weak[s])]
      /\ UNCHANGED <<strong, pool, data, strongs, weaks, local>>

(* Drop of a weak handle nobody borrows: weak_dec.                         *)
WeakDrop(t, o, h) ==
  /\ pc[t] = "idle"
  /\ h \in weaks[o]
  /\ ~Borrowed(o, h)
  /\ weaks' = [weaks EXCEPT ![o] = @ \ {h}]
  /\ weak' = [weak EXCEPT ![slot[o]] = Dec(@)]
  /\ pc' = [pc EXCEPT ![t] = AfterWeakDec(weak[slot[o]])]
  /\ obj' = [obj EXCEPT ![t] = o]
  /\ UNCHANGED <<strong, pool, data, strongs, bor, snap>>

(* SlotPool::free, by whoever brought the weak count to zero.  No handle   *)
(* knows the slot any more.                                                *)
FreeSlot(t) ==
  /\ pc[t] = "free_slot"
  /\ free' = free \cup {slot[obj[t]]}
  /\ slot' = [slot EXCEPT ![obj[t]] = NoSlot]
  /\ pc' = [pc EXCEPT ![t] = "idle"]
  /\ UNCHANGED <<strong, weak, chunks, data, strongs, weaks, local>>

(***************************************************************************)
(* ReferenceWeak::weak_upgrade: strong_upgrade loads the count, and fails  *)
(* at once if it is zero ...                                               *)
(***************************************************************************)
UpgradeLoad(t, o, h) ==
  /\ pc[t] = "idle"
  /\ h \in weaks[o]
  /\ snap' = [snap EXCEPT ![t] = strong[slot[o]]]
  /\ pc' = [pc EXCEPT ![t] = AfterSeen(strong[slot[o]])]
  /\ obj' = [obj EXCEPT ![t] = o]
  /\ bor' = [bor EXCEPT ![t] = h]
  /\ UNCHANGED <<strong, weak, pool, data, strongs, weaks>>

(* ... compare_exchange_weak finds the count it expects ...                *)
UpgradeCas(t, h) ==
  LET o == obj[t]
  IN  /\ pc[t] = "upgrade"
      /\ Fresh(h)
      /\ Exchanges(strong[slot[o]], snap[t])
      /\ strong' = [strong EXCEPT ![slot[o]] = Inc(snap[t])]
      /\ strongs' = [strongs EXCEPT ![o] = @ \cup {h}]
      /\ pc' = [pc EXCEPT ![t] = "idle"]
      /\ UNCHANGED <<weak, pool, data, weaks, local>>

(* ... or fails, spuriously too, and tries again with what it saw.         *)
UpgradeRetry(t) ==
  LET n == strong[slot[obj[t]]]
  IN  /\ pc[t] = "upgrade"
      /\ snap' = [snap EXCEPT ![t] = n]
      /\ pc' = [pc EXCEPT ![t] = AfterLostRace(n)]
      /\ UNCHANGED <<strong, weak, pool, data, strongs, weaks, obj, bor>>
-----------------------------------------------------------------------------
Finish(t) == DropData(t) \/ ReleaseWeak(t) \/ FreeSlot(t)

Next ==
  \/ \E o \in Objects, h \in Handles :
        New(o, h) \/ StrongClone(o, h) \/ WeakDowngrade(o, h)
  \/ \E t \in Threads :
        \/ \E o \in Objects, h \in Handles :
              StrongDrop(t, o, h) \/ WeakDrop(t, o, h) \/ UpgradeLoad(t, o, h)
        \/ \E h \in Handles : UpgradeCas(t, h)
        \/ UpgradeRetry(t)
        \/ Finish(t)

Spec == Init /\ [][Next]_vars

(* A thread inside a drop runs to its end: nothing in it waits (the pool's *)
(* mutex is only held for the length of alloc or free).  An upgrade gets   *)
(* no such promise, its loop may lose every race.                          *)
Fairness == \A t \in Threads : WF_vars(Finish(t))
FairSpec == Spec /\ Fairness
-----------------------------------------------------------------------------
(* The thread that saw the strong count reach zero owes one weak count.    *)
Collective(o) ==
  \/ strongs[o] # {}
  \/ \E t \in Threads : obj[t] = o /\ pc[t] \in {"drop_data", "release"}

(* Each counter is exactly the number of handles it stands for, with one   *)
(* weak count held collectively by the strong handles until the data is    *)
(* gone: no interleaving of clones, drops and upgrades loses an update.    *)
CountsExact ==
  \A o \in Objects : slot[o] # NoSlot =>
    /\ strong[slot[o]] = Cardinality(strongs[o])
    /\ weak[slot[o]] = Cardinality(weaks[o]) + (IF Collective(o) THEN 1 ELSE 0)

(* No use after free: an object some strong handle refers to still has its *)
(* data, and one any handle or unfinished drop refers to still has a slot, *)
(* which is neither in the free list nor another object's.                 *)
HandlesValid ==
  \A o \in Objects :
    /\ strongs[o] # {} => data[o] = "live"
    /\ \/ strongs[o] # {}
       \/ weaks[o] # {}
       \/ \E t \in Threads : obj[t] = o /\ pc[t] # "idle"
       => /\ slot[o] \in Slots \ free
          /\ \A p \in Objects \ {o} : slot[p] # slot[o]

(* The data of an object is dropped once and its slot freed once: no two   *)
(* threads are inside the final part of its drop.                          *)
DroppedOnce ==
  /\ \A t \in Threads : pc[t] = "drop_data" => data[obj[t]] = "live"
  /\ \A t, u \in Threads :
        (pc[t] \in Dropping /\ pc[u] \in Dropping /\ obj[t] = obj[u]) => t = u

(* The pool neither leaks nor invents slots: those of its chunks are the   *)
(* free ones and, once each, the ones objects hold ("the peak number of    *)
(* live objects bounds the pool size").                                    *)
PoolExact ==
  /\ free \cup {slot[o] : o \in {p \in Objects : slot[p] # NoSlot}} = Pooled(chunks)
  /\ \A o, p \in Objects : slot[o] # NoSlot =>
        slot[o] \notin free /\ (o # p => slot[o] # slot[p])

(* An upgrade that returns None saw a moment without any strong handle,    *)
(* and one that returns Some never revives an object whose last strong     *)
(* handle is gone.                                                         *)
UpgradeExact ==
  [][\A t \in Threads, o \in Objects :
       /\ \A h \in Handles : UpgradeLoad(t, o, h) /\ pc'[t] = "idle" => strongs[o] = {}
       /\ UpgradeRetry(t) /\ obj[t] = o /\ pc'[t] = "idle" => strongs[o] = {}
       /\ data[o] # "unborn" /\ strongs[o] = {} => strongs'[o] = {}]_vars

(* The sepcount handles implement the contract of the Reference traits: an *)
(* object expires in the very step that drops its last strong handle.      *)
SlotHolders == {o \in Objects : slot[o] # NoSlot}
Lifetime ==
  [o \in Objects |->
     IF data[o] = "live" /\ strongs[o] = {} THEN "expired" ELSE data[o]]
Contract == INSTANCE Reference WITH held <- SlotHolders, data <- Lifetime
ImplementsReference == Contract!Spec

(* Slots are recycled: an object without handles gives its slot back.      *)
EventuallyRecycled ==
  \A o \in Objects :
    (data[o] # "unborn" /\ strongs[o] = {} /\ weaks[o] = {}) ~> (slot[o] = NoSlot)
=============================================================================
