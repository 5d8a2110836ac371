----------------------------- MODULE DagProofs -----------------------------
(***************************************************************************)
(* What holds of interned nodes for any numbers of threads, addresses and  *)
(* labels: children live as long as their parents, creation ids order      *)
(* dependencies, no two nodes the tables know have the same structure,     *)
(* construction starts afresh after a reset, and the metadata of a node is *)
(* that of the whole structure under it.                                   *)
(*                                                                         *)
(* What is said of structures is proved by the node with the least id, or  *)
(* the least index, for which it would fail (Least).                       *)
(*                                                                         *)
(* The last part shows that Heap, which rewriting and archives are built   *)
(* on, is what the nodes look like to their users (ShowsHeap).             *)
(***************************************************************************)
EXTENDS Dag, FiniteSetTheorems, TLAPS

Alive == {n \in Nodes : life[n] = "live"}
Inserting(t) == pc[t] = "insert"

StateOK ==
  /\ counter \in Nat
  /\ life \in [Nodes -> {"free", "live", "expired"}]
  /\ data \in [Nodes -> Data \cup {NoData}]
  /\ id \in [Nodes -> Nat]
  /\ table \in SUBSET Alive
  /\ holds \in [Threads -> SUBSET Alive]
  /\ pc \in [Threads -> {"idle", "lookup", "insert"}]
  /\ DOMAIN arg = Threads
  /\ arg = [t \in Threads |-> arg[t]]

(* The data of a call is made of handles the thread had, which now keep    *)
(* the children alive; its storage has all its fields.                     *)
ArgOK(t) ==
  /\ DOMAIN arg[t] = {"data", "meta", "id"}
  /\ arg[t].data \in Data \cup {NoData}
  /\ Kids(arg[t].data) \subseteq Alive
  /\ pc[t] # "idle" => arg[t].data \in Data

(* An id is taken before its node exists; it is new all the time, and      *)
(* larger than those of the children, which it was taken after.            *)
IdOK(t) ==
  /\ arg[t].id \in Nat /\ arg[t].id < counter
  /\ \A n \in Nodes : Exists(n) => id[n] # arg[t].id
  /\ \A k \in Kids(arg[t].data) : id[k] < arg[t].id

IdsTaken == \A n \in Nodes : Exists(n) => id[n] < counter
IdsDistinct ==
  /\ \A t \in Threads : Inserting(t) => IdOK(t)
  /\ \A t, u \in Threads : Inserting(t) /\ Inserting(u) /\ arg[t].id = arg[u].id => t = u

(* One level deep, nodes the tables know have distinct contents, and so    *)
(* does what is about to be inserted.                                      *)
ContentsDistinct == \A n, p \in table : data[n] = data[p] => n = p
MissesExact ==
  /\ \A t \in Threads, n \in Nodes : Inserting(t) /\ n \in table => data[n] # arg[t].data
  /\ \A t, u \in Threads : Inserting(t) /\ Inserting(u) /\ arg[t].data = arg[u].data => t = u

DataThere == \A n \in Nodes : Exists(n) => data[n] \in Data

Structural == StateOK /\ (\A t \in Threads : ArgOK(t)) /\ KidsLive /\ DataThere
Ids == IdsTaken /\ IdsDistinct /\ IdsOrder
Contents == ContentsDistinct /\ MissesExact
IInv == Structural /\ Ids /\ Contents

LEMMA KidsAreNodes ==
  ASSUME NEW d \in Data \cup {NoData}
  PROVE  Kids(d) \in SUBSET Nodes
<1>1. CASE d = NoData
  BY <1>1 DEF Kids
<1>2. CASE d # NoData
  <2>1. PICK l \in Labels : d \in [label : {l}, kids : [1 .. Arity[l] -> Nodes]]
    BY <1>2 DEF Data
  <2>2. d.kids \in [1 .. Arity[l] -> Nodes]
    BY <2>1
  <2>3. QED
    BY <1>2, <2>2 DEF Kids
<1>3. QED
  BY <1>1, <1>2

LEMMA NoKids == Kids(NoData) = {}
BY DEF Kids

LEMMA StorageOf ==
  ASSUME NEW d
  PROVE  /\ DOMAIN Storage(d) = {"data", "meta", "id"}
         /\ Storage(d).data = d
BY DEF Storage

LEMMA InitInv == Init => IInv
<1> SUFFICES ASSUME Init PROVE IInv
  OBVIOUS
<1> USE DEF Init
<1>1. \A t \in Threads : ArgOK(t)
  BY StorageOf, NoKids DEF ArgOK
<1>2. StateOK
  BY DEF StateOK, Alive
<1>3. KidsLive /\ IdsOrder
  BY NoKids DEF KidsLive, IdsOrder, Exists
<1>4. IdsTaken /\ IdsDistinct /\ Contents /\ DataThere
  BY DEF IdsTaken, IdsDistinct, Contents, ContentsDistinct, MissesExact, DataThere, Inserting, Exists
<1>5. QED
  BY <1>1, <1>2, <1>3, <1>4 DEF IInv, Structural, Ids

-----------------------------------------------------------------------------
(* Handles come and go: nothing else changes.                              *)
LEMMA HandlesInv ==
  ASSUME IInv,
         UNCHANGED <<counter, nodes, table, pc, arg>>,
         holds' \in [Threads -> SUBSET Alive]
  PROVE  IInv'
<1> USE DEF nodes
<1>1. Alive' = Alive
  BY DEF Alive
<1>2. StateOK'
  BY <1>1 DEF IInv, Structural, StateOK
<1>3. \A t \in Threads : ArgOK(t)'
  BY <1>1 DEF IInv, Structural, ArgOK
<1>4. KidsLive' /\ DataThere'
  BY DEF IInv, Structural, KidsLive, DataThere, Exists
<1>5. Ids'
  BY DEF IInv, Ids, IdsTaken, IdsDistinct, IdsOrder, IdOK, Exists, Inserting
<1>6. Contents'
  BY DEF IInv, Contents, ContentsDistinct, MissesExact, Inserting
<1>7. QED
  BY <1>2, <1>3, <1>4, <1>5, <1>6 DEF IInv, Structural

LEMMA CloneKidHolds ==
  ASSUME IInv, NEW t \in Threads, NEW n \in Nodes, NEW k \in Nodes, CloneKid(t, n, k)
  PROVE  holds' \in [Threads -> SUBSET Alive]
<1>1. k \in Alive
  BY DEF CloneKid, IInv, Structural, KidsLive, Alive
<1>2. QED
  BY <1>1 DEF CloneKid, IInv, Structural, StateOK

-----------------------------------------------------------------------------
(* A node that expires is no child and in no call.                         *)
LEMMA ExpireInv ==
  ASSUME IInv, NEW n \in Nodes, Expire(n)
  PROVE  IInv'
<1> USE DEF Expire, nodes
<1>0. UNCHANGED <<counter, data, meta, id, holds, pc, arg>>
  OBVIOUS
<1>1. Alive' = Alive \ {n}
  BY DEF IInv, Structural, StateOK, Alive
<1>2. \A t \in Threads : n \notin holds[t] /\ n \notin Kids(arg[t].data)
  BY DEF Held, HeldByThread
<1>3. \A p \in Nodes : n \notin Kids(data[p])
  BY DEF Held, HeldByNode
<1>4. StateOK'
  BY <1>1, <1>2 DEF IInv, Structural, StateOK
<1>5. \A t \in Threads : ArgOK(t)'
  BY <1>0, <1>1, <1>2 DEF IInv, Structural, ArgOK
<1>6. KidsLive'
  BY <1>0, <1>1, <1>3, KidsAreNodes DEF IInv, Structural, StateOK, KidsLive, Alive
<1>7. \A p \in Nodes : Exists(p)' <=> Exists(p)
  BY DEF Exists, IInv, Structural, StateOK
<1>8. Ids'
  BY <1>0, <1>7 DEF IInv, Ids, IdsTaken, IdsDistinct, IdsOrder, IdOK, Inserting
<1>9. Contents'
  BY <1>0 DEF IInv, Contents, ContentsDistinct, MissesExact, Inserting
<1>10. DataThere'
  BY <1>0, <1>7 DEF IInv, Structural, DataThere
<1>11. QED
  BY <1>4, <1>5, <1>6, <1>8, <1>9, <1>10 DEF IInv, Structural

(* A destroyed node held the references to its children.                   *)
LEMMA DestroyInv ==
  ASSUME IInv, NEW n \in Nodes, Destroy(n)
  PROVE  IInv'
<1> USE DEF Destroy, DropsKids
<1>0. UNCHANGED <<counter, table, holds, pc, arg>>
  OBVIOUS
<1>1. /\ Alive' = Alive
      /\ n \notin Alive
  BY DEF IInv, Structural, StateOK, Alive
<1>2. \A p \in Nodes : p # n => data'[p] = data[p] /\ id'[p] = id[p] /\ life'[p] = life[p]
  BY DEF IInv, Structural, StateOK
<1>3. Kids(data'[n]) = {} /\ ~Exists(n)' /\ life'[n] = "free"
  BY NoKids DEF Exists, IInv, Structural, StateOK
<1>4. StateOK'
  BY <1>0, <1>1 DEF IInv, Structural, StateOK
<1>5. \A t \in Threads : ArgOK(t)'
  BY <1>0, <1>1 DEF IInv, Structural, ArgOK
<1>6. KidsLive'
  BY <1>1, <1>2, <1>3, KidsAreNodes DEF IInv, Structural, StateOK, KidsLive, Alive
<1>7. \A p \in Nodes : Exists(p)' => p # n /\ Exists(p)
  BY <1>2, <1>3 DEF Exists
<1>8. \A p \in Nodes : \A k \in Kids(data[p]) : k \in Nodes /\ k # n
  BY <1>1, KidsAreNodes DEF IInv, Structural, StateOK, KidsLive, Alive
<1>9. \A t \in Threads : \A k \in Kids(arg[t].data) : k \in Nodes /\ k # n
  BY <1>1 DEF IInv, Structural, ArgOK, Alive
<1>10. IdsTaken' /\ IdsDistinct'
  BY <1>0, <1>2, <1>7, <1>9 DEF IInv, Ids, IdsTaken, IdsDistinct, IdOK, Inserting
<1>11. IdsOrder'
  BY <1>2, <1>3, <1>7, <1>8 DEF IInv, Ids, IdsOrder
<1>12. n \notin table
  BY <1>1 DEF IInv, Structural, StateOK
<1>13. Contents'
  <2>1. \A p \in table : p \in Nodes /\ data'[p] = data[p]
    BY <1>2, <1>12 DEF IInv, Structural, StateOK, Alive
  <2>2. QED
    BY <1>0, <2>1 DEF IInv, Contents, ContentsDistinct, MissesExact, Inserting
<1>14. DataThere'
  BY <1>2, <1>7 DEF IInv, Structural, DataThere
<1>15. QED
  BY <1>4, <1>5, <1>6, <1>10, <1>11, <1>13, <1>14 DEF IInv, Structural, Ids

(* A reset only makes the tables forget.                                   *)
LEMMA ResetInv ==
  ASSUME IInv, NEW c \in Calls, BeginReset(c) \/ ResetShard(c)
  PROVE  IInv'
<1>1. UNCHANGED <<counter, nodes, holds, pc, arg>> /\ table' \subseteq table
  BY DEF BeginReset, ResetShard
<1> USE <1>1 DEF nodes
<1>2. Alive' = Alive
  BY DEF Alive
<1>3. StateOK' /\ \A t \in Threads : ArgOK(t)'
  BY <1>2 DEF IInv, Structural, StateOK, ArgOK
<1>4. KidsLive' /\ DataThere' /\ Ids'
  BY DEF IInv, Structural, KidsLive, DataThere, Ids, IdsTaken, IdsDistinct, IdsOrder, IdOK, Exists, Inserting
<1>5. Contents'
  BY DEF IInv, Contents, ContentsDistinct, MissesExact, Inserting
<1>6. QED
  BY <1>3, <1>4, <1>5 DEF IInv, Structural

-----------------------------------------------------------------------------
(* A call begins or ends without a new node: its thread is not inserting.  *)
LEMMA CallInv ==
  ASSUME IInv, NEW t \in Threads, NEW d \in Data \cup {NoData}, NEW label \in {"idle", "lookup"},
         Kids(d) \subseteq Alive, label = "lookup" => d \in Data,
         UNCHANGED <<counter, nodes, table>>,
         holds' \in [Threads -> SUBSET Alive],
         pc' = [pc EXCEPT ![t] = label],
         arg' = [arg EXCEPT ![t] = Storage(d)]
  PROVE  IInv'
<1> USE DEF nodes
<1>1. Alive' = Alive
  BY DEF Alive
<1>2. arg'[t] = Storage(d) /\ \A u \in Threads : u # t => arg'[u] = arg[u]
  BY DEF IInv, Structural, StateOK
<1>3. StateOK'
  BY <1>1 DEF IInv, Structural, StateOK
<1>4. \A u \in Threads : ArgOK(u)'
  <2>1. pc'[t] = label /\ \A u \in Threads : u # t => pc'[u] = pc[u]
    BY DEF IInv, Structural, StateOK
  <2>2. ArgOK(t)'
    BY <1>1, <1>2, <2>1, StorageOf DEF ArgOK
  <2>3. \A u \in Threads : u # t => ArgOK(u)'
    BY <1>1, <1>2, <2>1 DEF IInv, Structural, ArgOK
  <2>4. QED
    BY <2>2, <2>3
<1>5. \A u \in Threads : Inserting(u)' => u # t /\ Inserting(u)
  BY DEF Inserting, IInv, Structural, StateOK
<1>6. KidsLive' /\ DataThere' /\ IdsOrder' /\ IdsTaken'
  BY DEF IInv, Structural, KidsLive, DataThere, Ids, IdsOrder, IdsTaken, Exists
<1>7. IdsDistinct'
  BY <1>2, <1>5 DEF IInv, Ids, IdsDistinct, IdOK, Exists
<1>8. Contents'
  BY <1>2, <1>5 DEF IInv, Contents, ContentsDistinct, MissesExact
<1>9. QED
  BY <1>3, <1>4, <1>6, <1>7, <1>8 DEF IInv, Structural, Ids

(* A miss takes an id larger than every id there is, while no other thread *)
(* is about to insert data with the same hash.                             *)
LEMMA MissInv ==
  ASSUME IInv, NEW t \in Threads, Miss(t)
  PROVE  IInv'
<1> DEFINE d == arg[t].data
<1>0. /\ UNCHANGED <<nodes, table, holds>>
      /\ counter' = counter + 1
      /\ pc' = [pc EXCEPT ![t] = "insert"]
      /\ arg' = [arg EXCEPT ![t].meta = ComputeMeta(d), ![t].id = counter]
      /\ Unlocked(Hash(d))
      /\ \A n \in Nodes : ~Matches(n, d)
  BY DEF Miss, FetchAdd
<1>1. /\ DOMAIN arg' = Threads
      /\ arg' = [u \in Threads |-> arg'[u]]
      /\ DOMAIN arg'[t] = {"data", "meta", "id"}
      /\ arg'[t].data = d
      /\ arg'[t].id = counter
      /\ \A u \in Threads : u # t => arg'[u] = arg[u]
  BY <1>0 DEF IInv, Structural, StateOK, ArgOK
<1>2. Alive' = Alive
  BY <1>0 DEF Alive, nodes
<1>3. StateOK'
  BY <1>0, <1>1, <1>2 DEF IInv, Structural, StateOK, nodes
<1>4. \A u \in Threads : ArgOK(u)'
  <2>0. /\ pc'[t] = "insert" /\ pc[t] # "idle"
        /\ \A u \in Threads : u # t => pc'[u] = pc[u]
    BY <1>0 DEF Miss, IInv, Structural, StateOK
  <2>1. ArgOK(t)'
    BY <1>1, <1>2, <2>0 DEF IInv, Structural, ArgOK
  <2>2. \A u \in Threads : u # t => ArgOK(u)'
    BY <1>1, <1>2, <2>0 DEF IInv, Structural, ArgOK
  <2>3. QED
    BY <2>1, <2>2
<1>5. KidsLive' /\ DataThere' /\ IdsOrder'
  BY <1>0 DEF IInv, Structural, KidsLive, DataThere, Ids, IdsOrder, Exists, nodes
<1>6. IdsTaken'
  BY <1>0 DEF IInv, Structural, StateOK, Ids, IdsTaken, Exists, nodes
<1>7. \A u \in Threads : u # t /\ Inserting(u)' => Inserting(u)
  BY <1>0 DEF Inserting, IInv, Structural, StateOK
<1>8. IdsDistinct'
  <2>1. IdOK(t)'
    <3>1. \A n \in Nodes : Exists(n)' => id'[n] # counter
      BY <1>0 DEF IInv, Structural, StateOK, Ids, IdsTaken, Exists, nodes
    <3>2. \A k \in Kids(d) : id'[k] < counter
      BY <1>0 DEF IInv, Structural, StateOK, ArgOK, Ids, IdsTaken, Exists, Alive, nodes
    <3>3. QED
      BY <1>0, <1>1, <3>1, <3>2 DEF IdOK, IInv, Structural, StateOK
  <2>2. \A u \in Threads : u # t /\ Inserting(u)' => IdOK(u)' /\ arg'[u].id # counter
    BY <1>0, <1>1, <1>7 DEF IInv, Structural, StateOK, Ids, IdsDistinct, IdOK, Exists, nodes
  <2>3. QED
    BY <1>1, <1>7, <2>1, <2>2 DEF IInv, Ids, IdsDistinct
<1>9. Contents'
  <2>1. \A n \in Nodes : n \in table => data[n] # d
    BY <1>0 DEF Matches, Upgradable
  <2>2. \A u \in Threads : u # t /\ Inserting(u) => arg[u].data # d
    BY <1>0 DEF Unlocked, Inserting
  <2>3. QED
    BY <1>0, <1>1, <1>7, <2>1, <2>2 DEF IInv, Contents, ContentsDistinct, MissesExact, nodes
<1>10. QED
  BY <1>3, <1>4, <1>5, <1>6, <1>8, <1>9 DEF IInv, Structural, Ids

(* The insertion makes the node exist under the id the miss took.          *)
LEMMA InsertInv ==
  ASSUME IInv, NEW t \in Threads, NEW n \in Nodes, Insert(t, n)
  PROVE  IInv'
<1> DEFINE d == arg[t].data
<1>0. /\ Inserting(t) /\ life[n] = "free" /\ counter' = counter
      /\ table' = table \cup {n}
      /\ pc' = [pc EXCEPT ![t] = "idle"]
      /\ arg' = [arg EXCEPT ![t] = Storage(NoData)]
  BY DEF Insert, Inserting
<1>1. /\ life'[n] = "live" /\ data'[n] = d /\ id'[n] = arg[t].id
      /\ \A p \in Nodes : p # n => life'[p] = life[p] /\ data'[p] = data[p] /\ id'[p] = id[p]
  BY DEF Insert, IInv, Structural, StateOK
<1>2. arg'[t] = Storage(NoData) /\ \A u \in Threads : u # t => arg'[u] = arg[u]
  BY <1>0 DEF IInv, Structural, StateOK
<1>3. Alive' = Alive \cup {n} /\ n \notin Alive
  BY <1>0, <1>1 DEF Alive
<1>4. IdOK(t) /\ d \in Data \cup {NoData} /\ Kids(d) \subseteq Alive
  BY <1>0 DEF IInv, Structural, ArgOK, Ids, IdsDistinct
<1>5. StateOK'
  <2>1. StateOK /\ arg[t].id \in Nat
    BY <1>0, <1>4 DEF IInv, Structural, IdOK
  <2>2. /\ life' \in [Nodes -> {"free", "live", "expired"}]
        /\ data' \in [Nodes -> Data \cup {NoData}]
        /\ id' \in [Nodes -> Nat]
        /\ counter' \in Nat
    <3>1. /\ life' = [life EXCEPT ![n] = "live"] /\ data' = [data EXCEPT ![n] = d]
          /\ id' = [id EXCEPT ![n] = arg[t].id] /\ counter' = counter
      BY DEF Insert
    <3>2. /\ life \in [Nodes -> {"free", "live", "expired"}] /\ data \in [Nodes -> Data \cup {NoData}]
          /\ id \in [Nodes -> Nat] /\ counter \in Nat
      BY <2>1 DEF StateOK
    <3>3. PICK e : e = d
      OBVIOUS
    <3>4. QED
      BY ONLY <1>4, <2>1, <3>1, <3>2, <3>3
  <2>3. table' \in SUBSET Alive' /\ holds' \in [Threads -> SUBSET Alive']
    <3>1. table' = table \cup {n} /\ holds' = [holds EXCEPT ![t] = @ \cup {n}]
      BY DEF Insert
    <3>2. table \in SUBSET Alive /\ holds \in [Threads -> SUBSET Alive]
      BY <2>1 DEF StateOK
    <3>3. QED
      BY ONLY <1>3, <3>1, <3>2
  <2>4. /\ pc' \in [Threads -> {"idle", "lookup", "insert"}]
        /\ DOMAIN arg' = Threads
        /\ arg' = [u \in Threads |-> arg'[u]]
    BY <1>0, <2>1 DEF StateOK
  <2>5. QED
    BY <2>2, <2>3, <2>4 DEF StateOK
<1>6. \A u \in Threads : ArgOK(u)'
  <2>0. pc'[t] = "idle" /\ \A u \in Threads : u # t => pc'[u] = pc[u]
    BY <1>0 DEF IInv, Structural, StateOK
  <2>1. ArgOK(t)'
    BY <1>2, <2>0, StorageOf, NoKids DEF ArgOK
  <2>2. \A u \in Threads : u # t => ArgOK(u)'
    BY <1>2, <1>3, <2>0 DEF IInv, Structural, ArgOK
  <2>3. QED
    BY <2>1, <2>2
<1>7. \A p \in Nodes : \A k \in Kids(data'[p]) : k \in Alive /\ k # n
  <2>1. \A p \in Nodes : p # n => \A k \in Kids(data[p]) : k \in Alive
    BY KidsAreNodes DEF IInv, Structural, StateOK, KidsLive, Alive
  <2>2. QED
    BY <1>1, <1>3, <1>4, <2>1
<1>8. KidsLive'
  BY <1>1, <1>7 DEF KidsLive, Alive
<1>9. \A p \in Nodes : Exists(p)' => p = n \/ Exists(p)
  BY <1>1 DEF Exists
<1>10. IdsTaken'
  BY <1>0, <1>1, <1>4, <1>9 DEF IInv, Ids, IdsTaken, IdOK
<1>11. \A u \in Threads : Inserting(u)' => u # t /\ Inserting(u)
  BY <1>0 DEF Inserting, IInv, Structural, StateOK
<1>12. IdsDistinct'
  <2>1. ASSUME NEW u \in Threads, Inserting(u)'
        PROVE  IdOK(u)'
    <3>1. u # t /\ Inserting(u) /\ arg'[u] = arg[u] /\ IdOK(u) /\ arg[u].id # arg[t].id
      BY <1>0, <1>2, <1>11, <2>1 DEF IInv, Ids, IdsDistinct
    <3>2. \A k \in Kids(arg[u].data) : k \in Nodes /\ k # n
      BY <1>3 DEF IInv, Structural, ArgOK, Alive
    <3>3. QED
      BY <1>0, <1>1, <1>9, <3>1, <3>2 DEF IdOK
  <2>2. QED
    BY <1>2, <1>11, <2>1 DEF IInv, Ids, IdsDistinct
<1>13. IdsOrder'
  <2>1. ASSUME NEW p \in Nodes, NEW q \in Nodes, Exists(p)', Exists(q)', id'[p] = id'[q]
        PROVE  p = q
    BY <1>1, <1>4, <1>9, <2>1 DEF IInv, Ids, IdsOrder, IdOK
  <2>2. ASSUME NEW p \in Nodes, NEW k \in Kids(data'[p])
        PROVE  id'[k] < id'[p]
    <3>1. k \in Nodes /\ k # n /\ id'[k] = id[k]
      BY <1>1, <1>7 DEF Alive
    <3>2. CASE p = n
      BY <1>1, <1>4, <3>1, <3>2 DEF IdOK
    <3>3. CASE p # n
      BY <1>1, <3>1, <3>3 DEF IInv, Ids, IdsOrder
    <3>4. QED
      BY <3>2, <3>3
  <2>3. QED
    BY <2>1, <2>2 DEF IdsOrder
<1>14. Contents'
  <2>1. n \notin table /\ \A p \in table : p \in Nodes /\ p # n /\ data'[p] = data[p]
    BY <1>1, <1>3 DEF IInv, Structural, StateOK, Alive
  <2>2. \A p \in table : data[p] # d
    BY <1>0, <2>1 DEF IInv, Contents, MissesExact
  <2>3. ContentsDistinct'
    BY <1>0, <1>1, <2>1, <2>2 DEF IInv, Contents, ContentsDistinct
  <2>4. MissesExact'
    BY <1>0, <1>1, <1>2, <1>11, <2>1 DEF IInv, Contents, MissesExact
  <2>5. QED
    BY <2>3, <2>4 DEF Contents
<1>15. DataThere'
  BY <1>0, <1>1 DEF IInv, Structural, ArgOK, DataThere, Exists, Inserting
<1>16. QED
  BY <1>5, <1>6, <1>8, <1>10, <1>12, <1>13, <1>14, <1>15 DEF IInv, Structural, Ids

-----------------------------------------------------------------------------
LEMMA NextInv == IInv /\ [Next]_vars => IInv'
<1> SUFFICES ASSUME IInv, [Next]_vars PROVE IInv'
  OBVIOUS
<1>1. ASSUME NEW t \in Threads, NEW u \in Threads, NEW n \in Nodes, Clone(t, u, n)
      PROVE  IInv'
  <2>1. holds' \in [Threads -> SUBSET Alive]
    BY <1>1 DEF Clone, IInv, Structural, StateOK
  <2>2. QED
    BY <1>1, <2>1, HandlesInv DEF Clone
<1>2. ASSUME NEW t \in Threads, NEW n \in Nodes, NEW k \in Nodes, CloneKid(t, n, k)
      PROVE  IInv'
  BY <1>2, CloneKidHolds, HandlesInv DEF CloneKid
<1>3. ASSUME NEW t \in Threads, NEW n \in Nodes, Drop(t, n)
      PROVE  IInv'
  <2>1. holds' \in [Threads -> SUBSET Alive]
    BY <1>3 DEF Drop, IInv, Structural, StateOK
  <2>2. QED
    BY <1>3, <2>1, HandlesInv DEF Drop
<1>4. ASSUME NEW t \in Threads, NEW d \in Data, Spawn(t, d)
      PROVE  IInv'
  <2>1. Kids(d) \subseteq Alive /\ holds' \in [Threads -> SUBSET Alive]
    BY <1>4 DEF Spawn, IInv, Structural, StateOK
  <2>2. QED
    BY <1>4, <2>1, CallInv DEF Spawn
<1>5. ASSUME NEW t \in Threads, NEW n \in Nodes, Find(t, n)
      PROVE  IInv'
  <2>1. n \in Alive
    BY <1>5 DEF Find, Matches, Upgradable, IInv, Structural, StateOK
  <2>2. holds' \in [Threads -> SUBSET Alive]
    BY <1>5, <2>1 DEF Find, IInv, Structural, StateOK
  <2>3. QED
    BY <1>5, <2>2, CallInv, NoKids DEF Find
<1>6. ASSUME NEW t \in Threads, Miss(t) PROVE IInv'
  BY <1>6, MissInv
<1>7. ASSUME NEW t \in Threads, NEW n \in Nodes, Insert(t, n) PROVE IInv'
  BY <1>7, InsertInv
<1>8. ASSUME NEW n \in Nodes, Expire(n) \/ Destroy(n) PROVE IInv'
  BY <1>8, ExpireInv, DestroyInv
<1>9. ASSUME NEW c \in Calls, BeginReset(c) \/ ResetShard(c) PROVE IInv'
  BY <1>9, ResetInv
<1>10. CASE UNCHANGED vars
  <2>1. holds' \in [Threads -> SUBSET Alive]
    BY <1>10 DEF vars, IInv, Structural, StateOK
  <2>2. QED
    BY <1>10, <2>1, HandlesInv DEF vars
<1>11. QED
  BY <1>1, <1>2, <1>3, <1>4, <1>5, <1>6, <1>7, <1>8, <1>9, <1>10 DEF Next

LEMMA Invariant == Spec => []IInv
BY InitInv, NextInv, PTL DEF Spec

(* No node outlives its children, however the last handles of parent and   *)
(* child are dropped: reading a child through its parent is safe.          *)
THEOREM ChildrenLive == Spec => []KidsLive
<1>1. IInv => KidsLive
  BY DEF IInv, Structural
<1>2. QED
  BY Invariant, <1>1, PTL

(* Creation ids are unique among the nodes that exist and decrease along   *)
(* every reference, although an id is taken some time before its node is   *)
(* in the table: structures are acyclic and `cmp' orders dependencies.     *)
THEOREM IdsOrderDependencies == Spec => []IdsOrder
<1>1. IInv => IdsOrder
  BY DEF IInv, Ids
<1>2. QED
  BY Invariant, <1>1, PTL

-----------------------------------------------------------------------------
(***************************************************************************)
(* From one level to the whole structure.  The library's induction         *)
(* theorems take an operator; the least member of a set does as well.      *)
(***************************************************************************)
LEMMA Least ==
  ASSUME NEW T \in SUBSET Nat, T # {}
  PROVE  \E m \in T : \A k \in T : m <= k
<1> DEFINE I == {1 .. k : k \in T}
<1>1. I \subseteq FiniteSubsetsOf(Nat)
  <2>1. ASSUME NEW k \in T PROVE 1 .. k \in SUBSET Nat /\ IsFiniteSet(1 .. k)
    <3>1. k \in Nat /\ 1 \in Int /\ k \in Int
      OBVIOUS
    <3>2. QED
      BY <3>1, FS_Interval
  <2>2. QED
    BY <2>1 DEF FiniteSubsetsOf
<1>2. IsWellFoundedOn(StrictSubsetOrdering(Nat), FiniteSubsetsOf(Nat))
  BY FS_StrictSubsetOrderingWellFounded
<1>3. PICK x \in I : \A y \in I : <<y, x>> \notin StrictSubsetOrdering(Nat)
  <2>1. I # {}
    OBVIOUS
  <2> HIDE DEF I
  <2>2. QED
    BY <1>1, <1>2, <2>1, WFMin
<1>4. PICK m \in T : x = 1 .. m
  OBVIOUS
<1>5. ASSUME NEW k \in T, k < m PROVE FALSE
  <2>1. 1 .. k \in I /\ 1 .. k \subseteq 1 .. m /\ m \in 1 .. m /\ m \notin 1 .. k
    BY <1>5
  <2>2. <<1 .. k, 1 .. m>> \in StrictSubsetOrdering(Nat)
    BY <2>1 DEF StrictSubsetOrdering
  <2>3. QED
    BY <1>3, <1>4, <2>1, <2>2
<1>6. QED
  BY <1>5

LEMMA Extensional ==
  ASSUME NEW S, NEW V, NEW f, NEW g, f \in [S -> V], g \in [S -> V], \A x \in S : f[x] = g[x]
  PROVE  f = g
OBVIOUS

(* Data that agrees in its label and in every child is the same data.      *)
LEMMA SameData ==
  ASSUME NEW d \in Data, NEW c \in Data, d.label = c.label,
         \A i \in 1 .. Arity[d.label] : d.kids[i] = c.kids[i]
  PROVE  d = c
<1>1. PICK l \in Labels : d \in [label : {l}, kids : [1 .. Arity[l] -> Nodes]]
  BY DEF Data
<1>2. PICK k \in Labels : c \in [label : {k}, kids : [1 .. Arity[k] -> Nodes]]
  BY DEF Data
<1>3. PICK S : S = 1 .. Arity[l]
  OBVIOUS
<1>4. d.label = l /\ c.label = l /\ k = l
  BY <1>1, <1>2
<1>5. d.kids \in [S -> Nodes] /\ c.kids \in [S -> Nodes]
  BY <1>1, <1>2, <1>3, <1>4
<1>6. \A i \in S : d.kids[i] = c.kids[i]
  BY <1>3, <1>4
<1>7. d.kids = c.kids
  BY ONLY <1>5, <1>6, Extensional
<1>8. QED
  BY <1>1, <1>2, <1>4, <1>7

LEMMA KidOf ==
  ASSUME NEW d \in Data, NEW i \in 1 .. Arity[d.label]
  PROVE  d.kids[i] \in Kids(d)
<1>1. PICK l \in Labels : d \in [label : {l}, kids : [1 .. Arity[l] -> Nodes]]
  BY DEF Data
<1>2. d.label = l /\ DOMAIN d.kids = 1 .. Arity[l]
  BY <1>1
<1>3. d # NoData
  BY NoDataAssumption
<1>4. QED
  BY <1>2, <1>3 DEF Kids

LEMMA Canonical == IInv => DeepCanonical
<1> SUFFICES ASSUME IInv, NEW R \in SUBSET {e \in table \X table : e[1] # e[2]},
                    DeeplyEqual(R), R # {}
             PROVE  FALSE
  BY DEF DeepCanonical
<1>1. \A n \in table : n \in Nodes /\ Exists(n) /\ data[n] \in Data /\ id[n] \in Nat
  BY DEF IInv, Structural, StateOK, DataThere, Alive, Exists
<1>2. \A e \in R : e[1] \in table /\ e[2] \in table /\ e[1] # e[2]
  OBVIOUS
<1>3. PICK e \in R : \A x \in R : id[e[1]] <= id[x[1]]
  <2> DEFINE T == {id[x[1]] : x \in R}
  <2>1. T \in SUBSET Nat /\ T # {}
    BY <1>1, <1>2
  <2>2. PICK m \in T : \A k \in T : m <= k
    <3> HIDE DEF T
    <3>1. QED
      BY <2>1, Least
  <2>3. QED
    BY <2>2
<1>4. data[e[1]].label = data[e[2]].label
  BY DEF DeeplyEqual
<1>5. \A i \in 1 .. Arity[data[e[1]].label] : data[e[1]].kids[i] = data[e[2]].kids[i]
  <2> SUFFICES ASSUME NEW i \in 1 .. Arity[data[e[1]].label],
                      <<data[e[1]].kids[i], data[e[2]].kids[i]>> \in R
               PROVE  FALSE
    BY DEF DeeplyEqual
  <2>1. data[e[1]].kids[i] \in Kids(data[e[1]])
    BY <1>1, <1>2, KidOf
  <2>2. id[data[e[1]].kids[i]] < id[e[1]]
    BY <1>1, <1>2, <2>1 DEF IInv, Ids, IdsOrder
  <2>3. QED
    BY <1>1, <1>2, <1>3, <2>2
<1>7. QED
  BY <1>1, <1>2, <1>4, <1>5, SameData DEF IInv, Contents, ContentsDistinct

(* Pointer equality is deep equality: no two nodes the tables know have    *)
(* the same structure, although lookups compare one level only while       *)
(* threads race to create the same node and addresses are reused.          *)
THEOREM DeepEquality == Spec => []DeepCanonical
  BY Invariant, Canonical, PTL
-----------------------------------------------------------------------------
(***************************************************************************)
(* Resets.  A call empties the shards in their order while threads intern; *)
(* what it has passed holds nothing from before it, and nothing is about   *)
(* to be inserted there under an id from before it, since it waits for the *)
(* lock of each shard.                                                     *)
(***************************************************************************)
HashFrom(ids, d) == <<d.label, [i \in DOMAIN d.kids |-> ids[d.kids[i]]]>>
ClearedFrom(ids, p, d) ==
  \E i \in 1 .. Len(TypeOrder) :
    /\ TypeOf[d.label] = TypeOrder[i]
    /\ i < p.type \/ (i = p.type /\ Shard(HashFrom(ids, d)) < p.shard)
Cleared(d, c) == ClearedFrom(id, at[c], d)

Place == [type : Nat, shard : Shards]
CallOK(c) ==
  /\ at[c] \in Place
  /\ at[c].type = 0 => at[c].shard = 0
  /\ began[c] \in Nat /\ began[c] <= counter
  /\ \A n \in table : Cleared(data[n], c) => id[n] >= began[c]
  /\ \A t \in Threads : Inserting(t) /\ Cleared(arg[t].data, c) => arg[t].id >= began[c]

ResetOK ==
  /\ counter <= MaxId + 1
  /\ at = [c \in Calls |-> at[c]] /\ began = [c \in Calls |-> began[c]]
  /\ \A c \in Calls : CallOK(c)
  /\ settled \in Nat /\ settled <= counter
  /\ MadeSince \subseteq table

LEMMA SameHash ==
  ASSUME NEW d \in Data, NEW ids, NEW now, \A k \in Kids(d) : ids[k] = now[k]
  PROVE  HashFrom(ids, d) = HashFrom(now, d)
<1>1. \A i \in DOMAIN d.kids : d.kids[i] \in Kids(d)
  BY NoDataAssumption DEF Kids
<1>2. [i \in DOMAIN d.kids |-> ids[d.kids[i]]] = [i \in DOMAIN d.kids |-> now[d.kids[i]]]
  BY <1>1
<1>3. QED
  BY <1>2 DEF HashFrom

LEMMA SameCleared ==
  ASSUME NEW d \in Data, NEW ids, NEW now, NEW p, \A k \in Kids(d) : ids[k] = now[k]
  PROVE  ClearedFrom(ids, p, d) <=> ClearedFrom(now, p, d)
<1>1. HashFrom(ids, d) = HashFrom(now, d)
  BY SameHash
<1>2. QED
  BY <1>1 DEF ClearedFrom

(* Creation ids are among those a hash can have.                           *)
LEMMA HashIs ==
  ASSUME IInv, ResetOK, NEW d \in Data, \A k \in Kids(d) : Exists(k)
  PROVE  HashFrom(id, d) \in Hashes /\ Shard(HashFrom(id, d)) \in Shards
<1>1. PICK l \in Labels : d \in [label : {l}, kids : [1 .. Arity[l] -> Nodes]]
  BY DEF Data
<1>2. d.label = l /\ DOMAIN d.kids = 1 .. Arity[l]
  BY <1>1
<1>3. \A i \in DOMAIN d.kids : d.kids[i] \in Kids(d) /\ d.kids[i] \in Nodes
  BY <1>1, NoDataAssumption DEF Kids
<1>4. \A n \in Nodes : Exists(n) => id[n] \in 0 .. MaxId
  BY DagAssumption DEF IInv, Structural, StateOK, Ids, IdsTaken, ResetOK
<1>5. \A i \in 1 .. Arity[l] : id[d.kids[i]] \in 0 .. MaxId
  BY <1>2, <1>3, <1>4
<1>6. [i \in 1 .. Arity[l] |-> id[d.kids[i]]] \in [1 .. Arity[l] -> 0 .. MaxId]
  BY <1>5
<1>7. HashFrom(id, d) = <<l, [i \in 1 .. Arity[l] |-> id[d.kids[i]]]>>
  BY <1>2 DEF HashFrom
<1>8. HashFrom(id, d) \in {<<l, ids>> : ids \in [1 .. Arity[l] -> 0 .. MaxId]}
  BY <1>6, <1>7
<1>9. HashFrom(id, d) \in Hashes
  BY <1>8 DEF Hashes
<1>10. QED
  BY <1>9, ResetAssumption

(* What the tables know and what is about to be inserted have data whose   *)
(* children exist.                                                         *)
LEMMA TableData ==
  ASSUME IInv
  PROVE  /\ \A n \in table : /\ n \in Nodes /\ Exists(n) /\ data[n] \in Data
                             /\ id[n] \in Nat /\ id[n] < counter
                             /\ \A k \in Kids(data[n]) : k \in Alive
         /\ \A t \in Threads : Inserting(t) =>
              /\ arg[t].data \in Data
              /\ arg[t].id \in Nat
              /\ \A k \in Kids(arg[t].data) : k \in Alive
<1>1. \A n \in table : n \in Nodes /\ Exists(n) /\ data[n] \in Data /\ id[n] \in Nat /\ id[n] < counter
  BY DEF IInv, Structural, StateOK, DataThere, Alive, Exists, Ids, IdsTaken
<1>2. \A n \in table : \A k \in Kids(data[n]) : k \in Alive
  BY <1>1, KidsAreNodes DEF IInv, Structural, KidsLive, Alive
<1>3. \A t \in Threads : Inserting(t) =>
              /\ arg[t].data \in Data
              /\ arg[t].id \in Nat
              /\ \A k \in Kids(arg[t].data) : k \in Alive
  BY DEF IInv, Structural, ArgOK, Ids, IdsDistinct, IdOK, Inserting
<1>4. QED
  BY <1>1, <1>2, <1>3

LEMMA ResetsInit == Init => ResetOK
<1> SUFFICES ASSUME Init PROVE ResetOK
  OBVIOUS
<1>1. /\ counter = 1 /\ settled = 0 /\ table = {} /\ MadeSince = {}
      /\ \A t \in Threads : ~Inserting(t)
      /\ at = [c \in Calls |-> [type |-> 0, shard |-> 0]]
      /\ began = [c \in Calls |-> 0]
  BY DEF Init, MadeSince, Inserting
<1>2. 0 \in Shards
  BY ResetAssumption DEF Shards
<1>3. \A c \in Calls : CallOK(c)
  BY <1>1, <1>2 DEF CallOK, Place
<1>4. QED
  BY <1>1, <1>3, DagAssumption DEF ResetOK

(* Nothing is inserted, no call goes on and the children of nothing that   *)
(* matters change: what was known stays known of what is left.             *)
LEMMA ResetsStay ==
  ASSUME IInv, ResetOK, UNCHANGED <<counter, resets>>,
         table' \subseteq table,
         \A n \in table' : data'[n] = data[n],
         \A n \in Alive : id'[n] = id[n],
         MadeSince' \subseteq table',
         \A t \in Threads : Inserting(t)' => Inserting(t) /\ arg'[t] = arg[t]
  PROVE  ResetOK'
<1>1. at' = at /\ began' = began /\ settled' = settled /\ counter' = counter
  BY DEF resets
<1>2. ASSUME NEW c \in Calls, NEW n \in table', Cleared(data[n], c)'
      PROVE  id'[n] >= began'[c]
  <2>1. n \in table /\ data'[n] = data[n] /\ data[n] \in Data /\ n \in Alive
    BY TableData DEF IInv, Structural, StateOK
  <2>2. \A k \in Kids(data[n]) : id'[k] = id[k]
    BY <2>1, TableData
  <2>3. ClearedFrom(id', at[c], data[n])
    BY <1>1, <1>2, <2>1 DEF Cleared
  <2>4. Cleared(data[n], c)
    BY <2>1, <2>2, <2>3, SameCleared DEF Cleared
  <2>5. QED
    BY <1>1, <2>1, <2>4 DEF ResetOK, CallOK
<1>3. ASSUME NEW c \in Calls, NEW t \in Threads, Inserting(t)', Cleared(arg[t].data, c)'
      PROVE  arg'[t].id >= began'[c]
  <2>1. Inserting(t) /\ arg'[t] = arg[t] /\ arg[t].data \in Data
    BY <1>3, TableData
  <2>2. \A k \in Kids(arg[t].data) : id'[k] = id[k]
    BY <2>1, TableData
  <2>3. ClearedFrom(id', at[c], arg[t].data)
    BY <1>1, <1>3, <2>1 DEF Cleared
  <2>4. Cleared(arg[t].data, c)
    BY <2>1, <2>2, <2>3, SameCleared DEF Cleared
  <2>5. QED
    BY <1>1, <2>1, <2>4 DEF ResetOK, CallOK
<1>4. \A c \in Calls : CallOK(c)'
  BY <1>1, <1>2, <1>3 DEF ResetOK, CallOK
<1>5. QED
  BY <1>1, <1>4 DEF ResetOK

(* An id a miss takes is from after every call there has been.             *)
LEMMA ResetsMiss ==
  ASSUME IInv, ResetOK, NEW t \in Threads, Miss(t)
  PROVE  ResetOK'
<1>1. /\ UNCHANGED <<life, data, id, table, at, began, settled>>
      /\ counter <= MaxId /\ counter' = counter + 1 /\ counter \in Nat
  BY DEF Miss, FetchAdd, nodes, resets, IInv, Structural, StateOK
<1>2. arg'[t].id = counter /\ \A u \in Threads : u # t => arg'[u] = arg[u] /\ pc'[u] = pc[u]
  BY DEF Miss, IInv, Structural, StateOK, ArgOK
<1>3. ASSUME NEW c \in Calls PROVE CallOK(c)'
  <2>1. CallOK(c)
    BY DEF ResetOK
  <2>2. began'[c] \in Nat /\ began'[c] <= counter /\ began'[c] <= counter'
    BY <1>1, <2>1 DEF CallOK
  <2>3. \A u \in Threads : Inserting(u)' /\ Cleared(arg[u].data, c)' => arg'[u].id >= began'[c]
    <3> SUFFICES ASSUME NEW u \in Threads, Inserting(u)', Cleared(arg[u].data, c)'
                 PROVE  arg'[u].id >= began'[c]
      OBVIOUS
    <3>1. CASE u = t
      BY <1>2, <2>2, <3>1
    <3>2. CASE u # t
      <4>1. Inserting(u) /\ Cleared(arg[u].data, c) /\ arg'[u] = arg[u]
        BY <1>1, <1>2, <3>2 DEF Inserting, Cleared
      <4>2. QED
        BY <1>1, <2>1, <4>1 DEF CallOK
    <3>3. QED
      BY <3>1, <3>2
  <2>4. \A n \in table' : Cleared(data[n], c)' => id'[n] >= began'[c]
    BY <1>1, <2>1 DEF CallOK, Cleared
  <2>5. QED
    BY <1>1, <2>1, <2>2, <2>3, <2>4 DEF CallOK
<1>4. MadeSince' = MadeSince
  BY <1>1 DEF MadeSince
<1>5. QED
  BY <1>1, <1>3, <1>4, DagAssumption DEF ResetOK

(* The id moves from the call into the table; the node is a child of none. *)
LEMMA ResetsInsert ==
  ASSUME IInv, ResetOK, NEW t \in Threads, NEW n \in Nodes, Insert(t, n)
  PROVE  ResetOK'
<1>1. /\ Inserting(t) /\ life[n] = "free" /\ n \notin Alive
      /\ UNCHANGED <<counter, at, began, settled>>
      /\ table' = table \cup {n}
  BY DEF Insert, Inserting, Alive, resets
<1>2. /\ life'[n] = "live" /\ data'[n] = arg[t].data /\ id'[n] = arg[t].id
      /\ \A p \in Nodes : p # n => life'[p] = life[p] /\ data'[p] = data[p] /\ id'[p] = id[p]
  BY DEF Insert, IInv, Structural, StateOK
<1>3. /\ ~Inserting(t)'
      /\ \A u \in Threads : u # t => arg'[u] = arg[u] /\ pc'[u] = pc[u]
  BY DEF Insert, Inserting, IInv, Structural, StateOK
<1>4. \A k \in Alive : id'[k] = id[k] /\ k # n
  BY <1>1, <1>2 DEF Alive
<1>5. ASSUME NEW c \in Calls PROVE CallOK(c)'
  <2>1. CallOK(c)
    BY DEF ResetOK
  <2>2. ASSUME NEW p \in table', Cleared(data[p], c)' PROVE id'[p] >= began'[c]
    <3>1. CASE p = n
      <4>1. /\ arg[t].data \in Data /\ id'[n] = arg[t].id
            /\ \A k \in Kids(arg[t].data) : id'[k] = id[k]
        BY <1>1, <1>2, <1>4, TableData
      <4>2. ClearedFrom(id', at[c], arg[t].data)
        BY <1>1, <1>2, <2>2, <3>1 DEF Cleared
      <4>3. Cleared(arg[t].data, c)
        BY <4>1, <4>2, SameCleared DEF Cleared
      <4>4. QED
        BY <1>1, <2>1, <3>1, <4>1, <4>3 DEF CallOK
    <3>2. CASE p # n
      <4>1. p \in table /\ p \in Nodes /\ data'[p] = data[p] /\ id'[p] = id[p] /\ data[p] \in Data
        BY <1>1, <1>2, <3>2, TableData
      <4>2. \A k \in Kids(data[p]) : id'[k] = id[k]
        BY <1>4, <4>1, TableData
      <4>3. ClearedFrom(id', at[c], data[p])
        BY <1>1, <2>2, <4>1 DEF Cleared
      <4>4. Cleared(data[p], c)
        BY <4>1, <4>2, <4>3, SameCleared DEF Cleared
      <4>5. QED
        BY <1>1, <2>1, <4>1, <4>4 DEF CallOK
    <3>3. QED
      BY <3>1, <3>2
  <2>3. ASSUME NEW u \in Threads, Inserting(u)', Cleared(arg[u].data, c)'
        PROVE  arg'[u].id >= began'[c]
    <3>1. u # t /\ Inserting(u) /\ arg'[u] = arg[u] /\ arg[u].data \in Data
      BY <1>3, <2>3, TableData DEF Inserting
    <3>2. \A k \in Kids(arg[u].data) : id'[k] = id[k]
      BY <1>4, <3>1, TableData
    <3>3. ClearedFrom(id', at[c], arg[u].data)
      BY <1>1, <2>3, <3>1 DEF Cleared
    <3>4. Cleared(arg[u].data, c)
      BY <3>1, <3>2, <3>3, SameCleared DEF Cleared
    <3>5. QED
      BY <1>1, <2>1, <3>1, <3>4 DEF CallOK
  <2>4. QED
    BY <1>1, <2>1, <2>2, <2>3 DEF CallOK
<1>6. MadeSince' \subseteq MadeSince \cup {n}
  BY <1>1, <1>2 DEF MadeSince
<1>7. QED
  BY <1>1, <1>5, <1>6 DEF ResetOK

LEMMA ResetsBegin ==
  ASSUME IInv, ResetOK, NEW c \in Calls, BeginReset(c)
  PROVE  ResetOK'
<1>1. /\ UNCHANGED <<counter, life, data, id, table, pc, arg, settled>>
      /\ at[c].type = 0 /\ at' = [at EXCEPT ![c].type = 1] /\ began' = [began EXCEPT ![c] = counter]
      /\ counter \in Nat
  BY DEF BeginReset, nodes, IInv, Structural, StateOK
<1>2. at[c] \in Place /\ at[c].shard = 0
  BY <1>1 DEF ResetOK, CallOK
<1>3. /\ at'[c].type = 1 /\ at'[c].shard = 0 /\ at'[c] \in Place /\ began'[c] = counter
      /\ \A b \in Calls : b # c => at'[b] = at[b] /\ began'[b] = began[b]
      /\ at' = [b \in Calls |-> at'[b]] /\ began' = [b \in Calls |-> began'[b]]
  BY <1>1, <1>2 DEF ResetOK, Place
<1>4. ASSUME NEW d \in Data, Shard(HashFrom(id, d)) \in Shards
      PROVE  ~ClearedFrom(id, at'[c], d)
  BY <1>3, <1>4, ResetAssumption DEF ClearedFrom, Shards
<1>5. \A n \in table' : ~Cleared(data[n], c)'
  BY <1>1, <1>4, HashIs, TableData DEF Cleared, Alive, Exists
<1>6. \A t \in Threads : Inserting(t)' => ~Cleared(arg[t].data, c)'
  BY <1>1, <1>4, HashIs, TableData DEF Cleared, Inserting, Alive, Exists
<1>7. CallOK(c)'
  BY <1>1, <1>3, <1>5, <1>6 DEF CallOK
<1>8. \A b \in Calls : b # c => CallOK(b)'
  BY <1>1, <1>3 DEF ResetOK, CallOK, Cleared, Inserting
<1>9. MadeSince' = MadeSince
  BY <1>1 DEF MadeSince
<1>10. QED
  BY <1>1, <1>3, <1>7, <1>8, <1>9 DEF ResetOK

(* What a call has passed after a step it had passed before, or was in the *)
(* shard it emptied.                                                       *)
LEMMA NextCleared ==
  ASSUME NEW p \in Place, NEW ids, NEW d, Shard(HashFrom(ids, d)) \in Shards,
         ClearedFrom(ids, NextShard(p), d)
  PROVE  \/ ClearedFrom(ids, p, d)
         \/ TypeOf[d.label] = TypeOrder[p.type] /\ Shard(HashFrom(ids, d)) = p.shard
<1>1. /\ p.type \in Nat /\ p.shard \in 0 .. NShards - 1 /\ NShards \in Nat \ {0}
      /\ Shard(HashFrom(ids, d)) \in 0 .. NShards - 1
  BY ResetAssumption DEF Place, Shards
<1>2. PICK i \in 1 .. Len(TypeOrder) :
        /\ TypeOf[d.label] = TypeOrder[i]
        /\ \/ i < NextShard(p).type
           \/ i = NextShard(p).type /\ Shard(HashFrom(ids, d)) < NextShard(p).shard
  BY DEF ClearedFrom
<1>3. CASE p.shard + 1 < NShards
  <2>1. NextShard(p).type = p.type /\ NextShard(p).shard = p.shard + 1
    BY <1>3 DEF NextShard, Place
  <2>2. i < p.type \/ (i = p.type /\ Shard(HashFrom(ids, d)) < p.shard + 1)
    BY <1>2, <2>1
  <2>3. QED
    BY <1>1, <1>2, <2>2 DEF ClearedFrom
<1>4. CASE ~(p.shard + 1 < NShards)
  <2>1. NextShard(p).type = p.type + 1 /\ NextShard(p).shard = 0
    BY <1>4 DEF NextShard
  <2>2. i < p.type + 1
    BY <1>1, <1>2, <2>1
  <2>3. Shard(HashFrom(ids, d)) < p.shard \/ Shard(HashFrom(ids, d)) = p.shard
    BY <1>1, <1>4
  <2>4. QED
    BY <1>1, <1>2, <2>2, <2>3 DEF ClearedFrom
<1>5. QED
  BY <1>3, <1>4

LEMMA ResetsShard ==
  ASSUME IInv, ResetOK, NEW c \in Calls, ResetShard(c)
  PROVE  ResetOK'
<1>1. /\ UNCHANGED <<counter, life, data, id, pc, arg, began>>
      /\ at[c].type # 0 /\ at' = [at EXCEPT ![c] = NextShard(@)] /\ settled' = counter
      /\ table' = {n \in table : ~InShard(data[n], c)}
      /\ \A t \in Threads : Inserting(t) => ~InShard(arg[t].data, c)
      /\ counter \in Nat
  BY DEF ResetShard, Resetting, ShardUnlocked, Inserting, nodes, IInv, Structural, StateOK
<1>2. CallOK(c) /\ at[c] \in Place
  BY DEF ResetOK, CallOK
<1>3. /\ at'[c] = NextShard(at[c])
      /\ \A b \in Calls : b # c => at'[b] = at[b]
      /\ at' = [b \in Calls |-> at'[b]]
  BY <1>1 DEF ResetOK
<1>4. at'[c] \in Place /\ at'[c].type # 0
  <2>1. at[c].type \in Nat /\ at[c].shard \in 0 .. NShards - 1 /\ NShards \in Nat \ {0}
    BY <1>2, ResetAssumption DEF Place, Shards
  <2>2. CASE at[c].shard + 1 < NShards
    <3>1. /\ NextShard(at[c]) = [at[c] EXCEPT !.shard = at[c].shard + 1]
          /\ at[c].shard + 1 \in Shards
      BY <2>1, <2>2 DEF NextShard, Shards
    <3>2. QED
      BY <1>1, <1>2, <1>3, <3>1 DEF Place
  <2>3. CASE ~(at[c].shard + 1 < NShards)
    <3>1. NextShard(at[c]) = [type |-> at[c].type + 1, shard |-> 0] /\ 0 \in Shards
      BY <2>1, <2>3 DEF NextShard, Shards
    <3>2. QED
      BY <1>3, <2>1, <3>1 DEF Place
  <2>4. QED
    BY <2>2, <2>3
<1>5. ASSUME NEW d \in Data, \A k \in Kids(d) : k \in Alive, ~InShard(d, c), ClearedFrom(id, at'[c], d)
      PROVE  Cleared(d, c)
  <2>1. Shard(HashFrom(id, d)) \in Shards
    BY <1>5, HashIs DEF Alive, Exists
  <2>2. ~(TypeOf[d.label] = TypeOrder[at[c].type] /\ Shard(HashFrom(id, d)) = at[c].shard)
    BY <1>5 DEF InShard, Hash, HashFrom
  <2>3. QED
    BY <1>2, <1>3, <1>5, <2>1, <2>2, NextCleared DEF Cleared
<1>6. ASSUME NEW n \in table', Cleared(data[n], c)' PROVE id'[n] >= began'[c]
  <2>1. n \in table /\ Cleared(data[n], c)
    BY <1>1, <1>5, <1>6, TableData DEF Cleared
  <2>2. QED
    BY <1>1, <1>2, <2>1 DEF CallOK
<1>7. ASSUME NEW t \in Threads, Inserting(t)', Cleared(arg[t].data, c)'
      PROVE  arg'[t].id >= began'[c]
  <2>1. Inserting(t) /\ Cleared(arg[t].data, c)
    BY <1>1, <1>5, <1>7, TableData DEF Cleared, Inserting
  <2>2. QED
    BY <1>1, <1>2, <2>1 DEF CallOK
<1>8. CallOK(c)'
  BY <1>1, <1>2, <1>4, <1>6, <1>7 DEF CallOK
<1>9. \A b \in Calls : b # c => CallOK(b)'
  BY <1>1, <1>3 DEF ResetOK, CallOK, Cleared, Inserting
<1>10. MadeSince' = {}
  BY <1>1 DEF MadeSince, IInv, Structural, StateOK, Ids, IdsTaken, Exists
<1>11. QED
  BY <1>1, <1>3, <1>8, <1>9, <1>10 DEF ResetOK

LEMMA ResetsNext == IInv /\ ResetOK /\ [Next]_vars => ResetOK'
<1> SUFFICES ASSUME IInv, ResetOK, [Next]_vars PROVE ResetOK'
  OBVIOUS
<1>1. ASSUME UNCHANGED <<counter, resets, life, data, id, table>>,
             \A t \in Threads : Inserting(t)' => Inserting(t) /\ arg'[t] = arg[t]
      PROVE  ResetOK'
  <2>1. MadeSince' \subseteq table'
    BY <1>1 DEF MadeSince, ResetOK, resets
  <2>2. QED
    BY <1>1, <2>1, ResetsStay
<1>2. ASSUME NEW t \in Threads,
             \/ \E u \in Threads, n \in Nodes : Clone(t, u, n)
             \/ \E n, k \in Nodes : CloneKid(t, n, k)
             \/ \E n \in Nodes : Drop(t, n)
      PROVE  ResetOK'
  BY <1>1, <1>2 DEF Clone, CloneKid, Drop, nodes, Inserting
<1>3. ASSUME NEW t \in Threads,
             (\E d \in Data : Spawn(t, d)) \/ (\E n \in Nodes : Find(t, n))
      PROVE  ResetOK'
  <2>1. UNCHANGED <<counter, resets, life, data, id, table>> /\ ~Inserting(t)'
    BY <1>3 DEF Spawn, Find, nodes, Inserting, IInv, Structural, StateOK
  <2>2. \A u \in Threads : u # t => pc'[u] = pc[u] /\ arg'[u] = arg[u]
    BY <1>3 DEF Spawn, Find, IInv, Structural, StateOK
  <2>3. QED
    BY <1>1, <2>1, <2>2 DEF Inserting
<1>4. ASSUME NEW t \in Threads, Miss(t) PROVE ResetOK'
  BY <1>4, ResetsMiss
<1>5. ASSUME NEW t \in Threads, NEW n \in Nodes, Insert(t, n) PROVE ResetOK'
  BY <1>5, ResetsInsert
<1>6. ASSUME NEW n \in Nodes, Expire(n) PROVE ResetOK'
  <2>1. UNCHANGED <<counter, resets, data, id, pc, arg>> /\ table' = table \ {n}
    BY <1>6 DEF Expire
  <2>2. life'[n] = "expired" /\ \A p \in Nodes : p # n => life'[p] = life[p]
    BY <1>6 DEF Expire, IInv, Structural, StateOK
  <2>3. MadeSince' \subseteq MadeSince \ {n}
    BY <2>1, <2>2 DEF MadeSince, resets
  <2>4. MadeSince' \subseteq table'
    BY <2>1, <2>3 DEF ResetOK
  <2>5. QED
    BY <2>1, <2>4, ResetsStay DEF Inserting
<1>7. ASSUME NEW n \in Nodes, Destroy(n) PROVE ResetOK'
  <2>1. UNCHANGED <<counter, resets, table, pc, arg>> /\ life[n] = "expired"
    BY <1>7 DEF Destroy
  <2>2. /\ life'[n] = "free"
        /\ \A p \in Nodes : p # n => life'[p] = life[p] /\ data'[p] = data[p] /\ id'[p] = id[p]
    BY <1>7 DEF Destroy, IInv, Structural, StateOK
  <2>3. \A p \in Alive : p \in Nodes /\ p # n
    BY <2>1 DEF Alive
  <2>4. table \subseteq Alive
    BY DEF IInv, Structural, StateOK
  <2>5. MadeSince' \subseteq MadeSince
    BY <2>1, <2>2 DEF MadeSince, resets
  <2>6. QED
    BY <2>1, <2>2, <2>3, <2>4, <2>5, ResetsStay DEF ResetOK, Inserting
<1>8. ASSUME NEW c \in Calls, BeginReset(c) \/ ResetShard(c) PROVE ResetOK'
  BY <1>8, ResetsBegin, ResetsShard
<1>9. CASE UNCHANGED vars
  BY <1>1, <1>9 DEF vars, nodes, Inserting
<1>10. QED
  BY <1>2, <1>3, <1>4, <1>5, <1>6, <1>7, <1>8, <1>9 DEF Next

(* A call that has passed every type has passed everything there is, and   *)
(* all that was made since the last shard was emptied is in the tables.    *)
LEMMA Fresh == IInv /\ ResetOK => FreshStart
<1> SUFFICES ASSUME IInv, ResetOK PROVE FreshStart
  OBVIOUS
<1>1. ASSUME NEW c \in Calls, HasReset(c), NEW n \in table
      PROVE  id[n] >= began[c]
  <2>1. PICK l \in Labels : data[n].label = l
    BY TableData DEF Data
  <2>2. PICK i \in 1 .. Len(TypeOrder) : TypeOrder[i] = TypeOf[l]
    BY ResetAssumption
  <2>3. CallOK(c) /\ at[c].type \in Nat /\ Len(TypeOrder) \in Nat
    BY ResetAssumption DEF ResetOK, CallOK, Place
  <2>4. i < at[c].type
    BY <1>1, <2>3 DEF HasReset
  <2>5. Cleared(data[n], c)
    BY <2>1, <2>2, <2>4 DEF Cleared, ClearedFrom
  <2>6. QED
    BY <2>3, <2>5 DEF CallOK
<1>2. ASSUME NEW R \in SUBSET {e \in MadeSince \X MadeSince : e[1] # e[2]}, DeeplyEqual(R)
      PROVE  R = {}
  <2>1. R \in SUBSET {e \in table \X table : e[1] # e[2]}
    BY DEF ResetOK
  <2>2. QED
    BY <1>2, <2>1, Canonical DEF DeepCanonical
<1>3. QED
  BY <1>1, <1>2 DEF FreshStart

(* After hirpdag_reset_tables has returned the tables know no node from    *)
(* before the call, though threads go on interning while it goes from      *)
(* shard to shard; and what is made after a shard was emptied is canonical *)
(* among itself, whatever the threads still hold from before.              *)
THEOREM ResetsStartAfresh == Spec => []FreshStart
<1>1. Spec => []ResetOK
  BY ResetsInit, ResetsNext, Invariant, PTL DEF Spec
<1>2. QED
  BY <1>1, Invariant, Fresh, PTL
-----------------------------------------------------------------------------
(***************************************************************************)
(* The metadata of a node is computed once, from that of its children,     *)
(* which do not change while they have a parent.                           *)
(***************************************************************************)
MetaFrom(m, d) ==
  add_flags(increment(Sum([i \in DOMAIN d.kids |-> m[d.kids[i]]])), FlagsOf[d.label])

MetaOf(n) == meta[n] = MetaFrom(meta, data[n])
MetaOfArg(t) == arg[t].meta = MetaFrom(meta, arg[t].data)
MetaOK ==
  /\ meta = [n \in Nodes |-> meta[n]]
  /\ \A n \in Nodes : Exists(n) => MetaOf(n)
  /\ \A t \in Threads : Inserting(t) => MetaOfArg(t)

LEMMA SameMeta ==
  ASSUME NEW d \in Data, NEW m, NEW k, \A x \in Kids(d) : m[x] = k[x]
  PROVE  MetaFrom(m, d) = MetaFrom(k, d)
<1>1. \A i \in DOMAIN d.kids : d.kids[i] \in Kids(d)
  BY NoDataAssumption DEF Kids
<1>2. [i \in DOMAIN d.kids |-> m[d.kids[i]]] = [i \in DOMAIN d.kids |-> k[d.kids[i]]]
  BY <1>1
<1>3. QED
  BY <1>2 DEF MetaFrom

LEMMA MetaInit == Init => MetaOK
BY DEF Init, MetaOK, Exists, Inserting

(* A step at a node that is no child of another, before or after it.       *)
LEMMA MetaElsewhere ==
  ASSUME IInv, MetaOK, NEW n \in Nodes, n \notin Alive,
         \A p \in Nodes : p # n => meta'[p] = meta[p] /\ data'[p] = data[p]
  PROVE  /\ \A p \in Nodes : Exists(p) /\ p # n => meta'[p] = MetaFrom(meta', data'[p])
         /\ \A t \in Threads : Inserting(t) => arg[t].meta = MetaFrom(meta', arg[t].data)
<1>1. ASSUME NEW p \in Nodes, Exists(p), p # n
      PROVE  meta'[p] = MetaFrom(meta', data'[p])
  <2>1. data[p] \in Data
    BY <1>1 DEF IInv, Structural, DataThere
  <2>2. \A k \in Kids(data[p]) : k \in Nodes /\ k # n
    BY <1>1, <2>1, KidsAreNodes DEF IInv, Structural, KidsLive, Alive
  <2>3. MetaFrom(meta', data[p]) = MetaFrom(meta, data[p])
    BY <2>1, <2>2, SameMeta
  <2>4. QED
    BY <1>1, <2>3 DEF MetaOK, MetaOf
<1>2. ASSUME NEW t \in Threads, Inserting(t)
      PROVE  arg[t].meta = MetaFrom(meta', arg[t].data)
  <2>1. arg[t].data \in Data /\ Kids(arg[t].data) \subseteq Alive
    BY <1>2 DEF IInv, Structural, ArgOK, Inserting
  <2>2. \A k \in Kids(arg[t].data) : k \in Nodes /\ k # n
    BY <2>1 DEF Alive
  <2>3. MetaFrom(meta', arg[t].data) = MetaFrom(meta, arg[t].data)
    BY <2>1, <2>2, SameMeta
  <2>4. QED
    BY <1>2, <2>3 DEF MetaOK, MetaOfArg
<1>3. QED
  BY <1>1, <1>2

LEMMA MetaInsert ==
  ASSUME IInv, MetaOK, NEW t \in Threads, NEW n \in Nodes, Insert(t, n)
  PROVE  MetaOK'
<1>1. /\ meta'[n] = arg[t].meta /\ data'[n] = arg[t].data /\ Inserting(t)
      /\ \A p \in Nodes : p # n => meta'[p] = meta[p] /\ data'[p] = data[p] /\ life'[p] = life[p]
      /\ \A u \in Threads : u # t => arg'[u] = arg[u] /\ pc'[u] = pc[u]
      /\ ~Inserting(t)' /\ n \notin Alive
      /\ meta' = [p \in Nodes |-> meta'[p]]
  BY DEF Insert, Inserting, MetaOK, Alive, IInv, Structural, StateOK
<1>2. /\ \A p \in Nodes : Exists(p) /\ p # n => meta'[p] = MetaFrom(meta', data'[p])
      /\ \A u \in Threads : Inserting(u) => arg[u].meta = MetaFrom(meta', arg[u].data)
  BY <1>1, MetaElsewhere
<1>3. \A p \in Nodes : Exists(p)' /\ p # n => Exists(p)
  BY <1>1 DEF Exists
<1>4. \A p \in Nodes : Exists(p)' => MetaOf(p)'
  BY <1>1, <1>2, <1>3 DEF MetaOf
<1>5. \A u \in Threads : Inserting(u)' => MetaOfArg(u)'
  BY <1>1, <1>2 DEF MetaOfArg, Inserting
<1>6. QED
  BY <1>1, <1>4, <1>5 DEF MetaOK

LEMMA MetaDestroy ==
  ASSUME IInv, MetaOK, NEW n \in Nodes, Destroy(n)
  PROVE  MetaOK'
<1>1. /\ \A p \in Nodes : p # n => meta'[p] = meta[p] /\ data'[p] = data[p] /\ life'[p] = life[p]
      /\ UNCHANGED <<arg, pc>>
      /\ ~Exists(n)' /\ n \notin Alive
      /\ meta' = [p \in Nodes |-> meta'[p]]
  BY DEF Destroy, Exists, MetaOK, Alive, IInv, Structural, StateOK
<1>2. /\ \A p \in Nodes : Exists(p) /\ p # n => meta'[p] = MetaFrom(meta', data'[p])
      /\ \A u \in Threads : Inserting(u) => arg[u].meta = MetaFrom(meta', arg[u].data)
  BY <1>1, MetaElsewhere
<1>3. \A p \in Nodes : Exists(p)' => p # n /\ Exists(p)
  BY <1>1 DEF Exists
<1>4. \A p \in Nodes : Exists(p)' => MetaOf(p)'
  BY <1>2, <1>3 DEF MetaOf
<1>5. \A u \in Threads : Inserting(u)' => MetaOfArg(u)'
  BY <1>1, <1>2 DEF MetaOfArg, Inserting
<1>6. QED
  BY <1>1, <1>4, <1>5 DEF MetaOK

LEMMA MetaMiss ==
  ASSUME IInv, MetaOK, NEW t \in Threads, Miss(t)
  PROVE  MetaOK'
<1>1. /\ UNCHANGED <<life, data, meta>>
      /\ \A u \in Threads : u # t => arg'[u] = arg[u] /\ pc'[u] = pc[u]
  BY DEF Miss, nodes, IInv, Structural, StateOK
<1>2. arg'[t].meta = ComputeMeta(arg[t].data) /\ arg'[t].data = arg[t].data
  <2>1. arg'[t] = [arg[t] EXCEPT !.meta = ComputeMeta(arg[t].data), !.id = counter]
    BY DEF Miss, IInv, Structural, StateOK
  <2>2. QED
    BY <2>1 DEF IInv, Structural, ArgOK
<1>3. MetaOfArg(t)'
  BY <1>1, <1>2 DEF MetaOfArg, MetaFrom, ComputeMeta
<1>4. \A u \in Threads : Inserting(u)' => MetaOfArg(u)'
  BY <1>1, <1>3 DEF MetaOK, MetaOfArg, Inserting
<1>5. \A p \in Nodes : Exists(p)' => MetaOf(p)'
  BY <1>1 DEF MetaOK, MetaOf, Exists
<1>6. QED
  BY <1>1, <1>4, <1>5 DEF MetaOK

(* No other step changes a node's data or metadata, or a storage on its    *)
(* way into the table.                                                     *)
LEMMA MetaStays ==
  ASSUME MetaOK, UNCHANGED <<data, meta>>,
         \A n \in Nodes : Exists(n)' => Exists(n),
         \A t \in Threads : Inserting(t)' => Inserting(t) /\ arg'[t] = arg[t]
  PROVE  MetaOK'
<1>1. meta' = [n \in Nodes |-> meta'[n]]
  BY DEF MetaOK
<1>2. \A n \in Nodes : Exists(n)' => MetaOf(n)'
  BY DEF MetaOK, MetaOf
<1>3. \A t \in Threads : Inserting(t)' => MetaOfArg(t)'
  BY DEF MetaOK, MetaOfArg
<1>4. QED
  BY <1>1, <1>2, <1>3 DEF MetaOK

LEMMA MetaNext == IInv /\ MetaOK /\ [Next]_vars => MetaOK'
<1> SUFFICES ASSUME IInv, MetaOK, [Next]_vars PROVE MetaOK'
  OBVIOUS
<1>1. ASSUME UNCHANGED <<nodes, pc, arg>> PROVE MetaOK'
  BY <1>1, MetaStays DEF nodes, Exists, Inserting
<1>2. ASSUME NEW t \in Threads, NEW d \in Data, Spawn(t, d) PROVE MetaOK'
  <2>1. /\ UNCHANGED nodes /\ pc' = [pc EXCEPT ![t] = "lookup"]
        /\ arg' = [arg EXCEPT ![t] = Storage(d)]
    BY <1>2 DEF Spawn
  <2>2. QED
    BY <2>1, MetaStays DEF nodes, Exists, Inserting, IInv, Structural, StateOK
<1>3. ASSUME NEW t \in Threads, NEW n \in Nodes, Find(t, n) PROVE MetaOK'
  <2>1. /\ UNCHANGED nodes /\ pc' = [pc EXCEPT ![t] = "idle"]
        /\ arg' = [arg EXCEPT ![t] = Storage(NoData)]
    BY <1>3 DEF Find
  <2>2. QED
    BY <2>1, MetaStays DEF nodes, Exists, Inserting, IInv, Structural, StateOK
<1>4. ASSUME NEW n \in Nodes, Expire(n) PROVE MetaOK'
  BY <1>4, MetaStays DEF Expire, Exists, Inserting, IInv, Structural, StateOK
<1>5. ASSUME NEW t \in Threads, Miss(t) PROVE MetaOK'
  BY <1>5, MetaMiss
<1>6. ASSUME NEW t \in Threads, NEW n \in Nodes, Insert(t, n) PROVE MetaOK'
  BY <1>6, MetaInsert
<1>7. ASSUME NEW n \in Nodes, Destroy(n) PROVE MetaOK'
  BY <1>7, MetaDestroy
<1>8. CASE UNCHANGED vars
  BY <1>1, <1>8 DEF vars
<1>9. ASSUME NEW t \in Threads,
             \/ \E u \in Threads, n \in Nodes : Clone(t, u, n)
             \/ \E n, k \in Nodes : CloneKid(t, n, k)
             \/ \E n \in Nodes : Drop(t, n)
      PROVE  MetaOK'
  BY <1>1, <1>9 DEF Clone, CloneKid, Drop
<1>10. ASSUME NEW c \in Calls, BeginReset(c) \/ ResetShard(c) PROVE MetaOK'
  BY <1>1, <1>10 DEF BeginReset, ResetShard
<1>11. QED
  BY <1>2, <1>3, <1>4, <1>5, <1>6, <1>7, <1>8, <1>9, <1>10 DEF Next

LEMMA MetaInvariant == Spec => []MetaOK
  BY MetaInit, MetaNext, Invariant, PTL DEF Spec
-----------------------------------------------------------------------------
(***************************************************************************)
(* From the metadata of one level to that of the whole structure.  Both    *)
(* recursive definitions, over the children of a node and over the         *)
(* structure, are shown to have a solution, by the least place where they  *)
(* would not.                                                              *)
(***************************************************************************)
LEMMA SumsExist ==
  ASSUME NEW ms, NEW n \in Nat
  PROVE  \E g : g = [i \in 0 .. n |-> IF i = 0 THEN zero ELSE fold(g[i - 1], ms[i])]
<1> DEFINE G(k) == \E g : g = [i \in 0 .. k |-> IF i = 0 THEN zero ELSE fold(g[i - 1], ms[i])]
           T == {k \in Nat : ~G(k)}
<1>1. ASSUME NEW m \in T, \A k \in T : m <= k PROVE FALSE
  <2>1. CASE m = 0
    <3> DEFINE g == [i \in 0 .. m |-> zero]
    <3>1. g = [i \in 0 .. m |-> IF i = 0 THEN zero ELSE fold(g[i - 1], ms[i])]
      BY <2>1
    <3>2. QED
      BY <3>1
  <2>2. CASE m # 0
    <3>1. m - 1 \in Nat /\ m - 1 < m
      BY <2>2
    <3>2. G(m - 1)
      <4> HIDE DEF G
      <4>1. m - 1 \notin T
        BY <1>1, <3>1
      <4>2. QED
        BY <3>1, <4>1
    <3>3. PICK f : f = [i \in 0 .. m - 1 |-> IF i = 0 THEN zero ELSE fold(f[i - 1], ms[i])]
      BY <3>2
    <3>4. PICK g : g = [i \in 0 .. m |-> IF i = 0 THEN zero ELSE fold(f[i - 1], ms[i])]
      OBVIOUS
    <3>5. \A j \in 0 .. m - 1 : g[j] = f[j]
      BY <3>1, <3>3, <3>4
    <3>6. \A i \in 0 .. m : i # 0 => i - 1 \in 0 .. m - 1
      BY <3>1
    <3>7. g = [i \in 0 .. m |-> IF i = 0 THEN zero ELSE fold(g[i - 1], ms[i])]
      BY <3>4, <3>5, <3>6
    <3>8. QED
      BY <3>7
  <2>3. QED
    BY <2>1, <2>2
<1>2. T = {}
  <2> HIDE DEF T
  <2>1. T \in SUBSET Nat
    BY DEF T
  <2>2. QED
    BY <1>1, <2>1, Least
<1>3. QED
  BY <1>2

LEMMA TotalsExist ==
  ASSUME NEW s, NEW n \in Nat
  PROVE  \E g : g = [i \in 0 .. n |-> IF i = 0 THEN 0 ELSE g[i - 1] + s[i]]
<1> DEFINE G(k) == \E g : g = [i \in 0 .. k |-> IF i = 0 THEN 0 ELSE g[i - 1] + s[i]]
           T == {k \in Nat : ~G(k)}
<1>1. ASSUME NEW m \in T, \A k \in T : m <= k PROVE FALSE
  <2>1. CASE m = 0
    <3> DEFINE g == [i \in 0 .. m |-> 0]
    <3>1. g = [i \in 0 .. m |-> IF i = 0 THEN 0 ELSE g[i - 1] + s[i]]
      BY <2>1
    <3>2. QED
      BY <3>1
  <2>2. CASE m # 0
    <3>1. m - 1 \in Nat /\ m - 1 < m
      BY <2>2
    <3>2. G(m - 1)
      <4> HIDE DEF G
      <4>1. m - 1 \notin T
        BY <1>1, <3>1
      <4>2. QED
        BY <3>1, <4>1
    <3>3. PICK f : f = [i \in 0 .. m - 1 |-> IF i = 0 THEN 0 ELSE f[i - 1] + s[i]]
      BY <3>2
    <3>4. PICK g : g = [i \in 0 .. m |-> IF i = 0 THEN 0 ELSE f[i - 1] + s[i]]
      OBVIOUS
    <3>5. \A j \in 0 .. m - 1 : g[j] = f[j]
      BY <3>1, <3>3, <3>4
    <3>6. \A i \in 0 .. m : i # 0 => i - 1 \in 0 .. m - 1
      BY <3>1
    <3>7. g = [i \in 0 .. m |-> IF i = 0 THEN 0 ELSE g[i - 1] + s[i]]
      BY <3>4, <3>5, <3>6
    <3>8. QED
      BY <3>7
  <2>3. QED
    BY <2>1, <2>2
<1>2. T = {}
  <2> HIDE DEF T
  <2>1. T \in SUBSET Nat
    BY DEF T
  <2>2. QED
    BY <1>1, <2>1, Least
<1>3. QED
  BY <1>2

LEMMA SumsStep ==
  ASSUME NEW ms, Len(ms) \in Nat
  PROVE  /\ Sums(ms)[0] = zero
         /\ \A i \in 1 .. Len(ms) : Sums(ms)[i] = fold(Sums(ms)[i - 1], ms[i])
<1>1. Sums(ms) = [i \in 0 .. Len(ms) |-> IF i = 0 THEN zero ELSE fold(Sums(ms)[i - 1], ms[i])]
  <2>1. \E g : g = [i \in 0 .. Len(ms) |-> IF i = 0 THEN zero ELSE fold(g[i - 1], ms[i])]
    BY SumsExist
  <2>2. QED
    BY <2>1, Zenon DEF Sums
<1>2. QED
  BY <1>1

LEMMA TotalsStep ==
  ASSUME NEW s, Len(s) \in Nat
  PROVE  /\ Totals(s)[0] = 0
         /\ \A i \in 1 .. Len(s) : Totals(s)[i] = Totals(s)[i - 1] + s[i]
<1>1. Totals(s) = [i \in 0 .. Len(s) |-> IF i = 0 THEN 0 ELSE Totals(s)[i - 1] + s[i]]
  <2>1. \E g : g = [i \in 0 .. Len(s) |-> IF i = 0 THEN 0 ELSE g[i - 1] + s[i]]
    BY TotalsExist
  <2>2. QED
    BY <2>1, Zenon DEF Totals
<1>2. QED
  BY <1>1

(* Saturation commutes with addition and with the maximum.                 *)
LEMMA CappedAdd ==
  ASSUME NEW x \in Nat, NEW y \in Nat, NEW top \in Nat
  PROVE  /\ SaturatingAdd(Capped(x, top), Capped(y, top), top) = Capped(x + y, top)
         /\ SaturatingAdd(Capped(x, top), 1, top) = Capped(1 + x, top)
BY DEF SaturatingAdd, Capped

LEMMA CappedHigher ==
  ASSUME NEW x \in Nat, NEW y \in Nat, NEW top \in Nat
  PROVE  Higher(Capped(x, top), Capped(y, top)) = Capped(Higher(x, y), top)
BY DEF Higher, Capped

LEMMA HigherOf ==
  ASSUME NEW x \in Nat, NEW y \in Nat
  PROVE  Higher(x, y) \in {x, y} /\ x <= Higher(x, y) /\ y <= Higher(x, y)
BY DEF Higher

Folded(s, v, x, x2, y, y2, f, f2) ==
  fold(s, v) = [count |-> SaturatingAdd(x, x2, CountMax), height |-> Higher(y, y2), flags |-> f \cup f2]

LEMMA FoldOf ==
  ASSUME NEW x, NEW y, NEW f, NEW x2, NEW y2, NEW f2
  PROVE  fold([count |-> x, height |-> y, flags |-> f], [count |-> x2, height |-> y2, flags |-> f2])
           = [count |-> SaturatingAdd(x, x2, CountMax), height |-> Higher(y, y2), flags |-> f \cup f2]
BY DEF fold

(* What the siblings' saturated metadata sums to, first up to the i-th.    *)
UpTo(i, ms, c, h, fl) ==
  /\ Totals(c)[i] \in Nat
  /\ \E top \in {0} \cup {h[j] : j \in 1 .. i} :
        /\ \A j \in 1 .. i : h[j] <= top
        /\ Sums(ms)[i] = [count |-> Capped(Totals(c)[i], CountMax),
                          height |-> Capped(top, HeightMax),
                          flags |-> UNION {fl[j] : j \in 1 .. i}]

LEMMA SumCapped ==
  ASSUME NEW n \in Nat, NEW ms, NEW c, NEW h, NEW fl,
         Len(ms) = n, Len(c) = n,
         \A i \in 1 .. n : c[i] \in Nat /\ h[i] \in Nat,
         \A i \in 1 .. n : ms[i] = [count |-> Capped(c[i], CountMax),
                                    height |-> Capped(h[i], HeightMax),
                                    flags |-> fl[i]]
  PROVE  \A i \in 0 .. n : UpTo(i, ms, c, h, fl)
<1> DEFINE T == {i \in 0 .. n : ~UpTo(i, ms, c, h, fl)}
<1>0. /\ Sums(ms)[0] = zero /\ \A i \in 1 .. n : Sums(ms)[i] = fold(Sums(ms)[i - 1], ms[i])
      /\ Totals(c)[0] = 0 /\ \A i \in 1 .. n : Totals(c)[i] = Totals(c)[i - 1] + c[i]
  BY SumsStep, TotalsStep
<1>1. UpTo(0, ms, c, h, fl)
  <2>1. Capped(0, CountMax) = 0 /\ Capped(0, HeightMax) = 0
    BY MetaAssumption DEF Capped
  <2>2. 1 .. 0 = {}
    OBVIOUS
  <2>3. UNION {fl[j] : j \in 1 .. 0} = {}
    BY <2>2
  <2>4. Sums(ms)[0] = [count |-> Capped(0, CountMax), height |-> Capped(0, HeightMax),
                       flags |-> UNION {fl[j] : j \in 1 .. 0}]
    BY <1>0, <2>1, <2>3 DEF zero
  <2>5. \A j \in 1 .. 0 : h[j] <= 0
    BY <2>2
  <2>6. PICK S : S = {0} \cup {h[j] : j \in 1 .. 0}
    OBVIOUS
  <2>7. 0 \in S /\ Totals(c)[0] \in Nat
    BY <1>0, <2>6
  <2>8. Capped(Totals(c)[0], CountMax) = Capped(0, CountMax)
    BY <1>0
  <2>9. QED
    BY <2>4, <2>5, <2>6, <2>7, <2>8 DEF UpTo
<1>2. ASSUME NEW i \in 1 .. n, UpTo(i - 1, ms, c, h, fl)
      PROVE  UpTo(i, ms, c, h, fl)
  <2>1. PICK x : x = Totals(c)[i - 1]
    OBVIOUS
  <2>2. x \in Nat
    BY <1>2, <2>1 DEF UpTo
  <2>3. PICK top \in {0} \cup {h[j] : j \in 1 .. i - 1} :
           /\ \A j \in 1 .. i - 1 : h[j] <= top
           /\ Sums(ms)[i - 1] = [count |-> Capped(x, CountMax),
                                 height |-> Capped(top, HeightMax),
                                 flags |-> UNION {fl[j] : j \in 1 .. i - 1}]
    BY <1>2, <2>1 DEF UpTo
  <2>4. 1 .. i = (1 .. i - 1) \cup {i}
    OBVIOUS
  <2>5. top \in Nat /\ c[i] \in Nat /\ h[i] \in Nat
    BY <2>4
  <2>6. PICK z : z = Higher(top, h[i])
    OBVIOUS
  <2>7. /\ SaturatingAdd(Capped(x, CountMax), Capped(c[i], CountMax), CountMax) = Capped(x + c[i], CountMax)
        /\ Higher(Capped(top, HeightMax), Capped(h[i], HeightMax)) = Capped(z, HeightMax)
        /\ z \in {top, h[i]} /\ top <= z /\ h[i] <= z
    <3>1. CountMax \in Nat /\ HeightMax \in Nat
      BY MetaAssumption
    <3>2. SaturatingAdd(Capped(x, CountMax), Capped(c[i], CountMax), CountMax) = Capped(x + c[i], CountMax)
      BY <2>2, <2>5, <3>1, CappedAdd
    <3>3. Higher(Capped(top, HeightMax), Capped(h[i], HeightMax)) = Capped(z, HeightMax)
      BY <2>5, <2>6, <3>1, CappedHigher
    <3>4. z \in {top, h[i]} /\ top <= z /\ h[i] <= z
      BY <2>5, <2>6, HigherOf
    <3>5. QED
      BY <3>2, <3>3, <3>4
  <2>8. /\ z \in {0} \cup {h[j] : j \in 1 .. i}
        /\ \A j \in 1 .. i : h[j] <= z
    <3>1. \A j \in 1 .. i - 1 : h[j] \in Nat /\ h[j] <= top
      BY <2>3, <2>4
    <3>2. z \in Nat
      BY <2>5, <2>7
    <3>3. z \in {0} \cup {h[j] : j \in 1 .. i}
      <4>1. CASE z = h[i]
        <5>1. i \in 1 .. i
          OBVIOUS
        <5>2. QED
          BY <4>1, <5>1
      <4>2. CASE z = top
        <5>1. 1 .. i - 1 \subseteq 1 .. i
          BY <2>4
        <5>2. QED
          BY <2>3, <4>2, <5>1
      <4>3. QED
        BY <2>7, <4>1, <4>2
    <3>4. ASSUME NEW j \in 1 .. i PROVE h[j] <= z
      <4>1. CASE j = i
        BY <2>7, <4>1
      <4>2. CASE j \in 1 .. i - 1
        BY <2>5, <2>7, <3>1, <3>2, <4>2
      <4>3. QED
        BY <2>4, <4>1, <4>2
    <3>5. QED
      BY <3>3, <3>4
  <2>9. UNION {fl[j] : j \in 1 .. i} = (UNION {fl[j] : j \in 1 .. i - 1}) \cup fl[i]
    BY <2>4
  <2>10. Sums(ms)[i] = fold(Sums(ms)[i - 1], ms[i]) /\ Totals(c)[i] = x + c[i]
    BY <1>0, <2>1
  <2>11. ms[i] = [count |-> Capped(c[i], CountMax), height |-> Capped(h[i], HeightMax), flags |-> fl[i]]
    OBVIOUS
  <2>12. Sums(ms)[i] = [count |-> Capped(Totals(c)[i], CountMax),
                        height |-> Capped(z, HeightMax),
                        flags |-> UNION {fl[j] : j \in 1 .. i}]
    <3>1. PICK a, b, f, a2, b2 :
            /\ a = Capped(x, CountMax) /\ a2 = Capped(c[i], CountMax)
            /\ b = Capped(top, HeightMax) /\ b2 = Capped(h[i], HeightMax)
            /\ f = UNION {fl[j] : j \in 1 .. i - 1}
      OBVIOUS
    <3>2. /\ Sums(ms)[i - 1] = [count |-> a, height |-> b, flags |-> f]
          /\ ms[i] = [count |-> a2, height |-> b2, flags |-> fl[i]]
      BY ONLY <2>3, <2>11, <3>1
    <3>3. Sums(ms)[i] = [count |-> SaturatingAdd(a, a2, CountMax), height |-> Higher(b, b2),
                         flags |-> f \cup fl[i]]
      <4>1. PICK s, v : s = Sums(ms)[i - 1] /\ v = ms[i]
        OBVIOUS
      <4>2. s = [count |-> a, height |-> b, flags |-> f] /\ v = [count |-> a2, height |-> b2, flags |-> fl[i]]
        BY ONLY <3>2, <4>1
      <4>3. Folded(s, v, a, a2, b, b2, f, fl[i])
        BY ONLY <4>2, FoldOf DEF Folded
      <4>4. QED
        BY ONLY <2>10, <4>1, <4>3 DEF Folded
    <3>4. /\ SaturatingAdd(a, a2, CountMax) = Capped(Totals(c)[i], CountMax)
          /\ Higher(b, b2) = Capped(z, HeightMax)
          /\ f \cup fl[i] = UNION {fl[j] : j \in 1 .. i}
      BY ONLY <2>7, <2>9, <2>10, <3>1
    <3>5. QED
      BY ONLY <3>3, <3>4
  <2>13. QED
    <3>1. Totals(c)[i] \in Nat
      BY <2>2, <2>5, <2>10
    <3>2. QED
      BY <2>8, <2>12, <3>1 DEF UpTo
<1>3. ASSUME NEW m \in T, \A k \in T : m <= k PROVE FALSE
  <2>1. m # 0 /\ m \in 1 .. n
    BY <1>1, <1>3
  <2>2. m - 1 \in 0 .. n /\ m - 1 < m
    BY <2>1
  <2>3. UpTo(m - 1, ms, c, h, fl)
    BY <1>3, <2>2
  <2>4. QED
    BY <1>2, <1>3, <2>1, <2>3
<1>4. T = {}
  <2>1. T \in SUBSET Nat
    OBVIOUS
  <2> HIDE DEF T
  <2>2. QED
    BY <1>3, <2>1, Least
<1>5. QED
  BY <1>4

LEMMA SameTree ==
  ASSUME NEW d \in Data, NEW F, NEW G, \A k \in Kids(d) : F[k] = G[k]
  PROVE  OneMore(F, d) = OneMore(G, d)
<1>1. \A i \in DOMAIN d.kids : d.kids[i] \in Kids(d)
  BY NoDataAssumption DEF Kids
<1>2. [i \in DOMAIN d.kids |-> F[d.kids[i]].count] = [i \in DOMAIN d.kids |-> G[d.kids[i]].count]
  BY <1>1
<1>3. {F[k].height : k \in Kids(d)} = {G[k].height : k \in Kids(d)}
  OBVIOUS
<1>4. QED
  BY <1>2, <1>3 DEF OneMore

(* Creation ids make the recursion over the structure well founded.        *)
Before(m) == {n \in Existing : id[n] < m}

LEMMA KidsBefore ==
  ASSUME IInv, NEW m \in Nat, NEW n \in Before(m)
  PROVE  /\ data[n] \in Data /\ m > 0
         /\ \A k \in Kids(data[n]) : k \in Before(m - 1)
<1>1. n \in Nodes /\ Exists(n) /\ id[n] \in Nat /\ id[n] < m /\ data[n] \in Data
  BY DEF Before, Existing, IInv, Structural, StateOK, DataThere
<1>2. ASSUME NEW k \in Kids(data[n])
      PROVE  k \in Nodes /\ Exists(k) /\ id[k] \in Nat /\ id[k] < id[n]
  <2>1. k \in Nodes
    BY <1>1, KidsAreNodes
  <2>2. QED
    BY <1>1, <2>1 DEF IInv, Structural, StateOK, KidsLive, Ids, IdsOrder, Exists
<1>3. QED
  BY <1>1, <1>2 DEF Before, Existing

LEMMA TreeExists ==
  ASSUME IInv
  PROVE  Tree = [n \in Existing |-> OneMore(Tree, data[n])]
<1> DEFINE G(m) == \E g : g = [n \in Before(m) |-> OneMore(g, data[n])]
           T == {m \in Nat : ~G(m)}
<1>1. ASSUME NEW m \in T, \A k \in T : m <= k PROVE FALSE
  <2>1. CASE m = 0
    <3>1. Before(m) = {}
      BY <2>1 DEF Before, Existing, IInv, Structural, StateOK
    <3>2. [n \in Before(m) |-> 0] = [n \in Before(m) |-> OneMore([p \in Before(m) |-> 0], data[n])]
      BY <3>1
    <3>3. QED
      BY <3>2
  <2>2. CASE m # 0
    <3>1. m \in Nat /\ m - 1 \in Nat /\ m - 1 < m
      BY <2>2
    <3>2. G(m - 1)
      <4> HIDE DEF G
      <4>1. m - 1 \notin T
        BY <1>1, <3>1
      <4>2. QED
        BY <3>1, <4>1
    <3>3. PICK f : f = [n \in Before(m - 1) |-> OneMore(f, data[n])]
      BY <3>2
    <3>4. PICK g : g = [n \in Before(m) |-> OneMore(f, data[n])]
      OBVIOUS
    <3>5. Before(m - 1) \subseteq Before(m)
      BY <3>1 DEF Before, Existing, IInv, Structural, StateOK
    <3>6. \A n \in Before(m - 1) : g[n] = f[n]
      BY <3>3, <3>4, <3>5
    <3>7. ASSUME NEW n \in Before(m) PROVE OneMore(f, data[n]) = OneMore(g, data[n])
      <4>1. data[n] \in Data /\ \A k \in Kids(data[n]) : g[k] = f[k]
        BY <3>1, <3>6, KidsBefore
      <4>2. QED
        BY <4>1, SameTree
    <3>8. g = [n \in Before(m) |-> OneMore(g, data[n])]
      BY <3>4, <3>7
    <3>9. QED
      BY <3>8
  <2>3. QED
    BY <2>1, <2>2
<1>2. T = {}
  <2>1. T \in SUBSET Nat
    OBVIOUS
  <2> HIDE DEF T
  <2>2. QED
    BY <1>1, <2>1, Least
<1>3. counter \in Nat /\ Before(counter) = Existing
  BY DEF Before, Existing, IInv, Structural, StateOK, Ids, IdsTaken
<1>4. \E g : g = [n \in Existing |-> OneMore(g, data[n])]
  BY <1>2, <1>3
<1>5. QED
  BY <1>4, Zenon DEF Tree

(* What can be read through a node: itself and what can be through its     *)
(* children.                                                               *)
LEMMA BelowOf ==
  ASSUME IInv, NEW n \in Nodes
  PROVE  Below(n) = {n} \cup UNION {Below(k) : k \in Kids(data[n])}
<1> DEFINE Closed(S) == \A p \in S : Kids(data[p]) \subseteq S
           U == {n} \cup UNION {Below(k) : k \in Kids(data[n])}
<1>1. \A p \in Nodes : Kids(data[p]) \subseteq Nodes
  BY KidsAreNodes DEF IInv, Structural, StateOK
<1>2. ASSUME NEW k \in Nodes PROVE k \in Below(k) /\ Below(k) \subseteq Nodes /\ Closed(Below(k))
  <2>1. ASSUME NEW p \in Below(k), NEW q \in Kids(data[p]) PROVE q \in Below(k)
    BY <1>1 DEF Below
  <2>2. QED
    BY <2>1 DEF Below
<1>3. U \in SUBSET Nodes
  BY <1>1, <1>2
<1>4. Closed(U)
  <2>1. \A k \in Kids(data[n]) : k \in Below(k) /\ Closed(Below(k))
    BY <1>1, <1>2
  <2>2. ASSUME NEW p \in U, NEW q \in Kids(data[p]) PROVE q \in U
    <3>1. CASE p = n
      BY <2>1, <2>2, <3>1
    <3>2. CASE p # n
      <4>1. PICK k \in Kids(data[n]) : p \in Below(k)
        BY <3>2
      <4>2. q \in Below(k)
        BY <2>1, <4>1
      <4>3. QED
        BY <4>2
    <3>3. QED
      BY <3>1, <3>2
  <2>3. QED
    BY <2>2
<1>5. Below(n) \subseteq U
  <2>1. n \in U
    OBVIOUS
  <2> HIDE DEF U
  <2>2. QED
    BY <1>3, <1>4, <2>1 DEF Below
<1>6. ASSUME NEW k \in Kids(data[n]) PROVE Below(k) \subseteq Below(n)
  <2>1. k \in Nodes
    BY <1>1
  <2>2. k \in Below(n)
    BY <1>2
  <2>3. QED
    BY <1>2, <2>1, <2>2 DEF Below
<1>7. QED
  BY <1>2, <1>5, <1>6

LEMMA HighestIs ==
  ASSUME NEW S \in SUBSET Nat, NEW top \in S, \A k \in S : k <= top
  PROVE  Highest(S) = top
<1>1. \A h \in S : (\A k \in S : k <= h) => h = top
  OBVIOUS
<1>2. QED
  BY <1>1 DEF Highest

LEMMA Updated ==
  ASSUME NEW x, NEW y, NEW f, NEW p, NEW q, NEW r,
         r = [count |-> x, height |-> y, flags |-> f]
  PROVE  [r EXCEPT !.count = p, !.height = q] = [count |-> p, height |-> q, flags |-> f]
<1>1. r \in [count : {x}, height : {y}, flags : {f}]
  OBVIOUS
<1>2. PICK u : u = [r EXCEPT !.count = p, !.height = q]
  OBVIOUS
<1>3. u \in [count : {p}, height : {q}, flags : {f}]
  BY <1>1, <1>2
<1>4. u = [count |-> p, height |-> q, flags |-> f]
  BY ONLY <1>3
<1>5. QED
  BY ONLY <1>2, <1>4

LEMMA Flagged ==
  ASSUME NEW x, NEW y, NEW f, NEW g, NEW r,
         r = [count |-> x, height |-> y, flags |-> f]
  PROVE  add_flags(r, g) = [count |-> x, height |-> y, flags |-> f \cup g]
<1>1. r \in [count : {x}, height : {y}, flags : {f}] /\ r.flags = f
  OBVIOUS
<1>2. PICK u : u = [r EXCEPT !.flags = f \cup g]
  OBVIOUS
<1>3. u \in [count : {x}, height : {y}, flags : {f \cup g}]
  BY <1>1, <1>2
<1>4. u = [count |-> x, height |-> y, flags |-> f \cup g]
  BY ONLY <1>3
<1>5. add_flags(r, g) = u
  BY <1>1, <1>2 DEF add_flags
<1>6. QED
  BY ONLY <1>4, <1>5

AddsOne(r, x, y, f, g) ==
  add_flags(increment(r), g)
    = [count |-> SaturatingAdd(x, 1, CountMax),
       height |-> SaturatingAdd(y, 1, HeightMax), flags |-> f \cup g]

LEMMA AddOne ==
  ASSUME NEW x, NEW y, NEW f, NEW g, NEW r,
         r = [count |-> x, height |-> y, flags |-> f]
  PROVE  AddsOne(r, x, y, f, g)
<1>1. r.count = x /\ r.height = y
  OBVIOUS
<1>2. increment(r) = [r EXCEPT !.count = SaturatingAdd(x, 1, CountMax),
                               !.height = SaturatingAdd(y, 1, HeightMax)]
  BY <1>1 DEF increment
<1>3. increment(r) = [count |-> SaturatingAdd(x, 1, CountMax),
                      height |-> SaturatingAdd(y, 1, HeightMax), flags |-> f]
  BY <1>2, Updated
<1>4. PICK u, p, q : u = increment(r) /\ p = SaturatingAdd(x, 1, CountMax)
                     /\ q = SaturatingAdd(y, 1, HeightMax)
  OBVIOUS
<1>5. add_flags(u, g) = [count |-> p, height |-> q, flags |-> f \cup g]
  BY <1>3, <1>4, Flagged
<1>6. QED
  BY ONLY <1>4, <1>5 DEF AddsOne

LEMMA LenOf ==
  ASSUME NEW n \in Nat, NEW s, NEW S, s \in [1 .. n -> S]
  PROVE  Len(s) = n
OBVIOUS

(* The sum of the siblings, and what it says of the count and the height.  *)
Siblings(n, ms, c, h, fl, S, f) ==
  /\ Len(ms) = n /\ Len(c) = n
  /\ \A i \in 1 .. n : c[i] \in Nat /\ h[i] \in Nat
  /\ \A i \in 1 .. n : ms[i] = [count |-> Capped(c[i], CountMax),
                                height |-> Capped(h[i], HeightMax), flags |-> fl[i]]
  /\ S = {0} \cup {h[j] : j \in 1 .. n}
  /\ f = UNION {fl[j] : j \in 1 .. n}

SummedTo(ms, c, S, F) ==
  \E x, top \in Nat :
     /\ Total(c) = x /\ Highest(S) = top
     /\ Sum(ms) = [count |-> Capped(x, CountMax), height |-> Capped(top, HeightMax), flags |-> F]

LEMMA SumIs ==
  ASSUME NEW n \in Nat, NEW ms, NEW c, NEW h, NEW fl, NEW S, NEW f,
         Siblings(n, ms, c, h, fl, S, f)
  PROVE  SummedTo(ms, c, S, f)
<1>0. Len(ms) = n
  BY DEF Siblings
<1>1. UpTo(n, ms, c, h, fl)
  <2>1. n \in 0 .. n
    OBVIOUS
  <2>2. QED
    BY <2>1, SumCapped DEF Siblings
<1>2. PICK x : x = Totals(c)[n]
  OBVIOUS
<1>3. x \in Nat /\ Total(c) = x
  BY <1>1, <1>2 DEF UpTo, Total, Siblings
<1>4. S = {0} \cup {h[j] : j \in 1 .. n} /\ f = UNION {fl[j] : j \in 1 .. n}
  BY DEF Siblings
<1>5. S \in SUBSET Nat
  BY <1>4 DEF Siblings
<1>6. PICK top \in S :
         /\ \A j \in 1 .. n : h[j] <= top
         /\ Sums(ms)[n] = [count |-> Capped(x, CountMax), height |-> Capped(top, HeightMax),
                           flags |-> f]
  BY <1>1, <1>2, <1>4 DEF UpTo
<1>7. top \in Nat /\ \A k \in S : k <= top
  BY <1>4, <1>5, <1>6
<1>8. Highest(S) = top
  BY <1>5, <1>7, HighestIs
<1>9. Sum(ms) = Sums(ms)[n]
  BY <1>0 DEF Sum
<1>10. QED
  BY <1>3, <1>6, <1>7, <1>8, <1>9 DEF SummedTo

(* One level: the metadata of data whose children's is exact.              *)
ExactKid(k, M, T, fl) ==
  /\ T[k].count \in Nat /\ T[k].height \in Nat
  /\ M[k] = [count |-> Capped(T[k].count, CountMax),
             height |-> Capped(T[k].height, HeightMax), flags |-> fl[k]]

OneExact(d, M, T, f) ==
  \E x, y \in Nat :
     /\ OneMore(T, d) = [count |-> x, height |-> y]
     /\ MetaFrom(M, d) = [count |-> Capped(x, CountMax), height |-> Capped(y, HeightMax),
                          flags |-> f \cup FlagsOf[d.label]]

OfKids(n, e, K, M, T, fl, ms, c, S, f) ==
  /\ K = {e[i] : i \in 1 .. n}
  /\ \A k \in K : ExactKid(k, M, T, fl)
  /\ ms = [i \in 1 .. n |-> M[e[i]]]
  /\ c = [i \in 1 .. n |-> T[e[i]].count]
  /\ S = {0} \cup {T[k].height : k \in K}
  /\ f = UNION {fl[k] : k \in K}

LEMMA SumOfKids ==
  ASSUME NEW n \in Nat, NEW e, NEW K, NEW M, NEW T, NEW fl, NEW ms, NEW c, NEW S, NEW f,
         OfKids(n, e, K, M, T, fl, ms, c, S, f)
  PROVE  SummedTo(ms, c, S, f)
<1>1. K = {e[i] : i \in 1 .. n}
  BY DEF OfKids
<1>2. ms = [i \in 1 .. n |-> M[e[i]]] /\ c = [i \in 1 .. n |-> T[e[i]].count]
  BY DEF OfKids
<1>3. PICK h : h = [i \in 1 .. n |-> T[e[i]].height]
  OBVIOUS
<1>4. PICK fs : fs = [i \in 1 .. n |-> fl[e[i]]]
  OBVIOUS
<1>5. Len(ms) = n /\ Len(c) = n
  <2>1. ms \in [1 .. n -> {M[e[i]] : i \in 1 .. n}]
    BY <1>2
  <2>2. c \in [1 .. n -> {T[e[i]].count : i \in 1 .. n}]
    BY <1>2
  <2>3. QED
    BY <2>1, <2>2, LenOf
<1>6. \A i \in 1 .. n : ExactKid(e[i], M, T, fl)
  BY <1>1 DEF OfKids
<1>7. \A i \in 1 .. n : c[i] \in Nat /\ h[i] \in Nat
  BY <1>2, <1>3, <1>6 DEF ExactKid
<1>8. \A i \in 1 .. n : ms[i] = [count |-> Capped(c[i], CountMax),
                                 height |-> Capped(h[i], HeightMax), flags |-> fs[i]]
  BY <1>2, <1>3, <1>4, <1>6 DEF ExactKid
<1>9. S = {0} \cup {h[j] : j \in 1 .. n}
  <2>1. \A j \in 1 .. n : h[j] = T[e[j]].height
    BY <1>3
  <2>2. S = {0} \cup {T[k].height : k \in K}
    BY DEF OfKids
  <2>3. QED
    BY ONLY <1>1, <2>1, <2>2
<1>10. f = UNION {fs[j] : j \in 1 .. n}
  <2>1. \A j \in 1 .. n : fs[j] = fl[e[j]]
    BY <1>4
  <2>2. f = UNION {fl[k] : k \in K}
    BY DEF OfKids
  <2>3. QED
    BY ONLY <1>1, <2>1, <2>2
<1>11. Siblings(n, ms, c, h, fs, S, f)
  BY <1>5, <1>7, <1>8, <1>9, <1>10 DEF Siblings
<1>12. QED
  BY <1>11, SumIs

LEMMA OneMoreMeta ==
  ASSUME NEW d \in Data, NEW M, NEW T, NEW fl,
         \A k \in Kids(d) : ExactKid(k, M, T, fl)
  PROVE  OneExact(d, M, T, UNION {fl[k] : k \in Kids(d)})
<1>1. PICK l \in Labels : d \in [label : {l}, kids : [1 .. Arity[l] -> Nodes]]
  BY DEF Data
<1>2. PICK n : n = Arity[l]
  OBVIOUS
<1>3. PICK e : e = d.kids
  OBVIOUS
<1>4. n \in Nat
  BY <1>2, DagAssumption
<1>5. DOMAIN e = 1 .. n
  BY <1>1, <1>2, <1>3
<1>6. PICK K : K = Kids(d)
  OBVIOUS
<1>7. K = {e[i] : i \in 1 .. n}
  BY <1>3, <1>5, <1>6, NoDataAssumption DEF Kids
<1>8. PICK ms : ms = [i \in 1 .. n |-> M[e[i]]]
  OBVIOUS
<1>9. PICK c, S, f : /\ c = [i \in 1 .. n |-> T[e[i]].count]
                     /\ S = {0} \cup {T[k].height : k \in K}
                     /\ f = UNION {fl[k] : k \in K}
  OBVIOUS
<1>10. SummedTo(ms, c, S, f)
  <2>1. OfKids(n, e, K, M, T, fl, ms, c, S, f)
    BY <1>6, <1>7, <1>8, <1>9 DEF OfKids
  <2>2. QED
    BY <1>4, <2>1, SumOfKids
<1>11. PICK x \in Nat, top \in Nat :
         /\ Total(c) = x /\ Highest(S) = top
         /\ Sum(ms) = [count |-> Capped(x, CountMax), height |-> Capped(top, HeightMax),
                       flags |-> f]
  BY <1>10 DEF SummedTo
<1>12. OneMore(T, d) = [count |-> 1 + x, height |-> 1 + top]
  BY <1>3, <1>5, <1>6, <1>9, <1>11 DEF OneMore
<1>13. PICK r, a, b, g : /\ r = Sum(ms) /\ g = FlagsOf[d.label]
                         /\ a = Capped(x, CountMax) /\ b = Capped(top, HeightMax)
  OBVIOUS
<1>14. MetaFrom(M, d) = add_flags(increment(r), g)
  BY <1>3, <1>5, <1>8, <1>13 DEF MetaFrom
<1>15. add_flags(increment(r), g) = [count |-> SaturatingAdd(a, 1, CountMax),
                                     height |-> SaturatingAdd(b, 1, HeightMax),
                                     flags |-> f \cup g]
  <2>1. r = [count |-> a, height |-> b, flags |-> f]
    BY <1>11, <1>13
  <2>2. QED
    <3>1. AddsOne(r, a, b, f, g)
      BY ONLY <2>1, AddOne, Zenon
    <3>2. QED
      BY ONLY <3>1 DEF AddsOne
<1>16. /\ SaturatingAdd(a, 1, CountMax) = Capped(1 + x, CountMax)
       /\ SaturatingAdd(b, 1, HeightMax) = Capped(1 + top, HeightMax)
  BY <1>13, MetaAssumption, CappedAdd
<1>17. PICK y \in Nat, z \in Nat : y = 1 + x /\ z = 1 + top
  BY ONLY x \in Nat, top \in Nat
<1>18. MetaFrom(M, d) = [count |-> Capped(y, CountMax), height |-> Capped(z, HeightMax),
                         flags |-> f \cup g]
  BY <1>14, <1>15, <1>16, <1>17
<1>19. OneMore(T, d) = [count |-> y, height |-> z]
  BY <1>12, <1>17
<1>20. QED
  BY <1>6, <1>9, <1>13, <1>18, <1>19 DEF OneExact

FlagsBelow(n) == UNION {FlagsOf[data[k].label] : k \in Below(n)}
ExactAt(n) ==
  /\ Tree[n].count \in Nat /\ Tree[n].height \in Nat
  /\ meta[n] = [count |-> Capped(Tree[n].count, CountMax),
                height |-> Capped(Tree[n].height, HeightMax), flags |-> FlagsBelow(n)]

LEMMA ExactStep ==
  ASSUME IInv, MetaOK, NEW n \in Existing, \A k \in Kids(data[n]) : ExactAt(k)
  PROVE  ExactAt(n)
<1> DEFINE fl == [k \in Kids(data[n]) |-> FlagsBelow(k)]
<1>1. n \in Nodes /\ Exists(n) /\ data[n] \in Data
  BY DEF Existing, IInv, Structural, DataThere
<1>2. Tree[n] = OneMore(Tree, data[n])
  BY TreeExists
<1>3. meta[n] = MetaFrom(meta, data[n])
  BY <1>1 DEF MetaOK, MetaOf
<1>4. \A k \in Kids(data[n]) : ExactKid(k, meta, Tree, fl)
  BY DEF ExactAt, ExactKid
<1>5. (UNION {fl[k] : k \in Kids(data[n])}) \cup FlagsOf[data[n].label] = FlagsBelow(n)
  <2>1. Below(n) = {n} \cup UNION {Below(k) : k \in Kids(data[n])}
    BY <1>1, BelowOf
  <2>2. UNION {fl[k] : k \in Kids(data[n])} = UNION {FlagsBelow(k) : k \in Kids(data[n])}
    OBVIOUS
  <2>3. \A f : f \in FlagsBelow(n) <=> \E k \in Below(n) : f \in FlagsOf[data[k].label]
    BY DEF FlagsBelow
  <2>4. \A f : f \in UNION {FlagsBelow(k) : k \in Kids(data[n])}
           <=> \E j \in Kids(data[n]) : \E k \in Below(j) : f \in FlagsOf[data[k].label]
    BY DEF FlagsBelow
  <2>5. \A k : k \in Below(n) <=> k = n \/ \E j \in Kids(data[n]) : k \in Below(j)
    BY <2>1
  <2>6. PICK G, L : G = UNION {FlagsBelow(k) : k \in Kids(data[n])} /\ L = FlagsOf[data[n].label]
    OBVIOUS
  <2>7. \A f : f \in FlagsBelow(n) <=> f \in G \/ f \in L
    BY <2>3, <2>4, <2>5, <2>6
  <2>8. PICK B : B = FlagsBelow(n)
    OBVIOUS
  <2>9. G \cup L = B
    BY ONLY <2>7, <2>8
  <2>10. QED
    BY <2>2, <2>6, <2>8, <2>9
<1> HIDE DEF fl
<1>6. PICK f : f = UNION {fl[k] : k \in Kids(data[n])}
  OBVIOUS
<1>7. OneExact(data[n], meta, Tree, f)
  BY <1>1, <1>4, <1>6, OneMoreMeta
<1>8. PICK x \in Nat, y \in Nat :
        /\ OneMore(Tree, data[n]) = [count |-> x, height |-> y]
        /\ MetaFrom(meta, data[n])
             = [count |-> Capped(x, CountMax), height |-> Capped(y, HeightMax),
                flags |-> f \cup FlagsOf[data[n].label]]
  BY <1>7 DEF OneExact
<1>9. Tree[n].count = x /\ Tree[n].height = y
  BY <1>2, <1>8
<1>10. QED
  BY <1>3, <1>5, <1>6, <1>8, <1>9 DEF ExactAt

LEMMA Exactness == IInv /\ MetaOK => MetaExact
<1> SUFFICES ASSUME IInv, MetaOK, NEW n \in Existing, ~ExactAt(n)
             PROVE  FALSE
  BY DEF MetaExact, ExactAt, FlagsBelow
<1> DEFINE T == {id[p] : p \in {q \in Existing : ~ExactAt(q)}}
<1>1. T \in SUBSET Nat /\ T # {}
  BY DEF Existing, IInv, Structural, StateOK
<1>2. PICK m \in T : \A k \in T : m <= k
  <2> HIDE DEF T
  <2>1. QED
    BY <1>1, Least
<1>3. PICK p \in Existing : ~ExactAt(p) /\ id[p] = m
  OBVIOUS
<1>4. PICK k \in Kids(data[p]) : ~ExactAt(k)
  BY <1>3, ExactStep
<1>5. k \in Existing /\ id[k] < m /\ id[k] \in Nat /\ m \in Nat
  <2>0. m \in Nat
    <3> HIDE DEF T
    <3>1. QED
      BY <1>1
  <2>1. m + 1 \in Nat
    BY <2>0
  <2>2. p \in Before(m + 1)
    BY <1>3, <2>0 DEF Before
  <2>3. k \in Before(m)
    BY <2>0, <2>1, <2>2, KidsBefore
  <2>4. QED
    BY <2>0, <2>3 DEF Before, Existing, IInv, Structural, StateOK
<1>6. QED
  BY <1>2, <1>4, <1>5

(* The metadata a node caches is that of the whole structure under it: a   *)
(* sum that saturates at every level gives the saturated total, and the    *)
(* height and the flags are those of every node that can be reached,       *)
(* although it was computed from the children's caches alone.              *)
THEOREM MetadataIsExact == Spec => []MetaExact
  BY Invariant, MetaInvariant, Exactness, PTL
-----------------------------------------------------------------------------
(***************************************************************************)
(* What callers of the generated code see, as Heap has it: interning in    *)
(* one step.  A node of the heap is one that is live, and its fields are   *)
(* references of one variant.  A call that ends has interned its data: it  *)
(* found the node there was, or made one at a free address (of which Heap  *)
(* takes one, since none is different from another).  Otherwise nodes only *)
(* expire.  A reset of the tables would break this, and is left out.       *)
(***************************************************************************)
Field(n) == [variant |-> "reference", ref |-> n]
Shown(d) == [label |-> d.label, fields |-> [i \in DOMAIN d.kids |-> Field(d.kids[i])]]
Nothing == CHOOSE x : x \notin {Shown(d) : d \in Data}
View == [n \in Nodes |-> IF life[n] = "live" THEN Shown(data[n]) ELSE Nothing]
FieldShape == [l \in Labels |-> [i \in 1 .. Arity[l] |-> {"reference"} \X Types]]

H == INSTANCE Heap WITH node <- View, Shape <- FieldShape, NoData <- Nothing, NoNode <- Nothing

OneNodePerData == \A n, p \in H!Live : View[n] = View[p] => n = p

Interns(d) ==
  /\ H!IsData(d)
  /\ \/ H!Known(d) /\ UNCHANGED View
     \/ ~H!Known(d) /\ \E n \in Nodes \ H!Live : View' = [View EXCEPT ![n] = d]
HeapStep ==
  \/ UNCHANGED View
  \/ \E d \in Data : Interns(Shown(d))
  \/ \E n \in Nodes : H!Expire(n)
Answers ==
  \A t \in Threads :
    pc[t] # "idle" /\ pc'[t] = "idle" =>
      /\ Interns(Shown(arg[t].data))
      /\ \E n \in holds'[t] : View'[n] = Shown(arg[t].data)

LEMMA FieldIs ==
  ASSUME NEW n
  PROVE  Field(n).ref = n /\ Field(n).variant = "reference"
BY DEF Field

LEMMA DataHas ==
  ASSUME NEW d \in Data
  PROVE  /\ d.label \in Labels /\ Arity[d.label] \in Nat
         /\ DOMAIN d.kids = 1 .. Arity[d.label] /\ \A i \in DOMAIN d.kids : d.kids[i] \in Nodes
         /\ Kids(d) = {d.kids[i] : i \in DOMAIN d.kids}
<1>1. PICK l \in Labels : d \in [label : {l}, kids : [1 .. Arity[l] -> Nodes]]
  BY DEF Data
<1>2. d.label = l /\ d.kids \in [1 .. Arity[l] -> Nodes]
  BY ONLY <1>1
<1>3. Arity[l] \in Nat
  BY DagAssumption
<1>4. d # NoData
  BY NoDataAssumption
<1>5. QED
  BY ONLY <1>2, <1>3, <1>4 DEF Kids

LEMMA ShownIs ==
  ASSUME NEW d \in Data
  PROVE  /\ Shown(d).label = d.label
         /\ DOMAIN Shown(d).fields = 1 .. Arity[d.label]
         /\ \A i \in 1 .. Arity[d.label] : Shown(d).fields[i] = Field(d.kids[i])
         /\ Shown(d) # Nothing
         /\ H!Refs(Shown(d)) = Kids(d)
<1>1. PICK f : f = [i \in DOMAIN d.kids |-> Field(d.kids[i])]
  OBVIOUS
<1>2. Shown(d) = [label |-> d.label, fields |-> f]
  BY ONLY <1>1 DEF Shown
<1>3. Shown(d).label = d.label /\ Shown(d).fields = f
  BY ONLY <1>2
<1>4. DOMAIN f = 1 .. Arity[d.label] /\ \A i \in 1 .. Arity[d.label] : f[i] = Field(d.kids[i])
  BY ONLY <1>1, DataHas, d \in Data
<1>5. Nothing \notin {Shown(c) : c \in Data}
  <2>1. \E x : x \notin {Shown(c) : c \in Data}
    BY NoSetContainsEverything
  <2>2. QED
    BY ONLY <2>1, Zenon DEF Nothing
<1>6. H!Refs(Shown(d)) = Kids(d)
  <2>1. \A i \in 1 .. Arity[d.label] : f[i].ref = d.kids[i]
    BY ONLY <1>4, FieldIs
  <2>2. H!Refs(Shown(d)) = {f[i].ref : i \in 1 .. Arity[d.label]}
    BY ONLY <1>3, <1>4 DEF H!Refs
  <2>3. Kids(d) = {d.kids[i] : i \in 1 .. Arity[d.label]}
    BY DataHas
  <2>4. QED
    BY ONLY <2>1, <2>2, <2>3
<1>7. QED
  BY <1>3, <1>4, <1>5, <1>6

(* Nothing is lost in what is shown of data.                               *)
LEMMA ShownDistinct ==
  ASSUME NEW d \in Data, NEW c \in Data, Shown(d) = Shown(c)
  PROVE  d = c
<1>1. d.label = c.label /\ Shown(d).fields = Shown(c).fields
  BY ShownIs
<1>2. \A i \in 1 .. Arity[d.label] : Field(d.kids[i]) = Field(c.kids[i])
  <2>1. \A i \in 1 .. Arity[d.label] : Shown(d).fields[i] = Field(d.kids[i])
    BY ShownIs
  <2>2. \A i \in 1 .. Arity[c.label] : Shown(c).fields[i] = Field(c.kids[i])
    BY ShownIs
  <2>3. QED
    BY ONLY <1>1, <2>1, <2>2
<1>3. \A i \in 1 .. Arity[d.label] : d.kids[i] = c.kids[i]
  BY ONLY <1>2 DEF Field
<1>4. QED
  BY <1>1, <1>3, SameData

LEMMA ViewIs ==
  ASSUME IInv
  PROVE  /\ H!Live = Alive /\ Alive \subseteq Nodes
         /\ \A n \in Alive : View[n] = Shown(data[n]) /\ data[n] \in Data
         /\ \A n \in Nodes \ Alive : View[n] = Nothing
<1>1. \A n \in Alive : n \in Nodes /\ data[n] \in Data
  BY DEF IInv, Structural, DataThere, Exists, Alive
<1>2. \A n \in Nodes : View[n] = IF life[n] = "live" THEN Shown(data[n]) ELSE Nothing
  BY DEF View
<1>3. \A n \in Alive : View[n] = Shown(data[n]) /\ View[n] # Nothing
  BY <1>1, <1>2, ShownIs DEF Alive
<1>4. \A n \in Nodes \ Alive : View[n] = Nothing
  BY ONLY <1>2 DEF Alive
<1>5. H!Live = Alive
  BY ONLY <1>1, <1>3, <1>4 DEF H!Live
<1>6. QED
  BY <1>1, <1>3, <1>4, <1>5

LEMMA ShownData ==
  ASSUME IInv, NEW d \in Data, Kids(d) \subseteq Alive
  PROVE  H!IsData(Shown(d))
<1>1. PICK s, l : s = Shown(d) /\ l = d.label
  OBVIOUS
<1>2. l \in Labels /\ s.label = l /\ DOMAIN s.fields = 1 .. Arity[l]
      /\ \A i \in 1 .. Arity[l] : s.fields[i] = Field(d.kids[i]) /\ d.kids[i] \in Alive
  BY <1>1, ShownIs, DataHas
<1>3. FieldShape[l] = [i \in 1 .. Arity[l] |-> {"reference"} \X Types]
  BY <1>2 DEF FieldShape
<1>4. ASSUME NEW i \in 1 .. Arity[l] PROVE H!IsField(s.fields[i], FieldShape[l][i])
  <2>1. PICK k : k = d.kids[i]
    OBVIOUS
  <2>2. s.fields[i].ref = k /\ s.fields[i].variant = "reference" /\ k \in Alive
    BY ONLY <1>2, <2>1, FieldIs, i \in 1 .. Arity[l]
  <2>3. H!Type(k) \in Types
    <3>1. View[k].label = data[k].label /\ data[k].label \in Labels
      BY <2>2, ViewIs, ShownIs, DataHas
    <3>2. QED
      BY ONLY <3>1 DEF H!Type, Types
  <2>4. FieldShape[l][i] = {"reference"} \X Types
    BY <1>3
  <2>5. k \in H!Live
    BY <2>2, ViewIs
  <2>6. QED
    BY ONLY <2>2, <2>3, <2>4, <2>5 DEF H!IsField
<1>5. DOMAIN FieldShape[l] = 1 .. Arity[l]
  BY <1>3
<1>6. H!IsData(s)
  BY ONLY <1>2, <1>4, <1>5 DEF H!IsData
<1>7. QED
  BY <1>1, <1>6

(* The state shown is one of Heap's, with one node for each data.          *)
LEMMA ViewOK ==
  ASSUME IInv
  PROVE  H!HeapTypeOK
<1>1. \A n \in H!Live : H!IsData(View[n])
  <2>1. \A n \in Alive : Kids(data[n]) \subseteq Alive
    BY KidsAreNodes DEF IInv, Structural, StateOK, KidsLive, Alive
  <2>2. QED
    BY <2>1, ViewIs, ShownData
<1>2. ASSUME NEW d \in Data PROVE Shown(d) \in H!AllData
  <2>1. PICK s, l, S : s = Shown(d) /\ l = d.label /\ S = 1 .. Arity[l]
    OBVIOUS
  <2>2. /\ l \in Labels /\ s.label = l /\ DOMAIN s.fields = S /\ l = d.label
        /\ \A i \in S : s.fields[i] = Field(d.kids[i]) /\ d.kids[i] \in Nodes
    BY <2>1, ShownIs, DataHas
  <2>3. FieldShape[l] = [i \in S |-> {"reference"} \X Types]
    BY <2>1, <2>2 DEF FieldShape
  <2>4. TypeOf[l] \in Types
    BY <2>2 DEF Types
  <2>5. ASSUME NEW i \in S PROVE "reference" \in H!Variants
    <3>1. <<"reference", TypeOf[l]>> \in FieldShape[l][i] /\ i \in DOMAIN FieldShape[l]
      BY ONLY <2>3, <2>4, <2>5
    <3>2. <<"reference", TypeOf[l]>>[1] = "reference"
      OBVIOUS
    <3>3. "reference" \in {a[1] : a \in FieldShape[l][i]}
      BY ONLY <3>1, <3>2
    <3>4. QED
      BY ONLY <2>2, <3>1, <3>3 DEF H!Variants
  <2>6. PICK V : V = H!Variants
    OBVIOUS
  <2>7. \A i \in S : Field(d.kids[i]) \in [variant : V, ref : Nodes]
    BY ONLY <2>2, <2>5, <2>6 DEF Field
  <2>8. PICK f : f = [i \in DOMAIN d.kids |-> Field(d.kids[i])]
    OBVIOUS
  <2>9. s = [label |-> l, fields |-> f] /\ f = s.fields
    BY ONLY <2>1, <2>8 DEF Shown
  <2>10. DOMAIN f = S /\ f = [i \in S |-> f[i]] /\ \A i \in S : f[i] \in [variant : V, ref : Nodes]
    BY ONLY <2>2, <2>7, <2>8, <2>9
  <2>11. f \in [S -> [variant : V, ref : Nodes]]
    BY ONLY <2>10
  <2>12. DOMAIN FieldShape[l] = S
    BY ONLY <2>3
  <2>13. s \in [label : {l}, fields : [DOMAIN FieldShape[l] -> [variant : H!Variants, ref : Nodes]]]
    BY ONLY <2>6, <2>9, <2>11, <2>12
  <2>14. s \in H!DataOver(Nodes)
    BY ONLY <2>2, <2>13 DEF H!DataOver
  <2>15. QED
    BY ONLY <2>1, <2>14 DEF H!AllData
<1>3. View \in [Nodes -> H!AllData \cup {Nothing}]
  <2>1. View = [n \in Nodes |-> View[n]]
    BY DEF View
  <2>2. \A n \in Nodes : View[n] \in H!AllData \cup {Nothing}
    BY <1>2, ViewIs
  <2>3. QED
    BY ONLY <2>1, <2>2
<1>4. QED
  BY ONLY <1>1, <1>3 DEF H!HeapTypeOK

(* Without resets the tables know every node that is live.                 *)
Remembered == table = Alive

LEMMA ViewUnique ==
  ASSUME IInv, Remembered
  PROVE  OneNodePerData
<1>1. \A n, p \in Alive : data[n] = data[p] => n = p
  BY DEF IInv, Contents, ContentsDistinct, Remembered
<1>2. \A n, p \in Alive : View[n] = View[p] => data[n] = data[p]
  BY ViewIs, ShownDistinct
<1>3. QED
  BY <1>1, <1>2, ViewIs DEF OneNodePerData

(* A step that is about handles or calls only.                             *)
LEMMA ViewStays ==
  ASSUME UNCHANGED <<life, data>>
  PROVE  UNCHANGED View /\ Alive' = Alive
BY DEF View, Alive

Returning(t) == pc[t] # "idle" /\ pc'[t] = "idle"

LEMMA FindShown ==
  ASSUME IInv, Remembered, NEW t \in Threads, NEW n \in Nodes, Find(t, n)
  PROVE  /\ Interns(Shown(arg[t].data)) /\ arg[t].data \in Data
         /\ \E p \in holds'[t] : View'[p] = Shown(arg[t].data)
         /\ Remembered' /\ \A u \in Threads : Returning(u) => u = t
<1>1. PICK d : d = arg[t].data
  OBVIOUS
<1>2. /\ pc[t] = "lookup" /\ n \in table /\ data[n] = d /\ UNCHANGED <<life, data, table>>
      /\ holds' = [holds EXCEPT ![t] = @ \cup {n}] /\ pc' = [pc EXCEPT ![t] = "idle"]
  BY <1>1 DEF Find, Matches, Upgradable, nodes
<1>3. d \in Data /\ Kids(d) \subseteq Alive
  BY <1>1, <1>2 DEF IInv, Structural, ArgOK
<1>4. H!IsData(Shown(d))
  BY <1>3, ShownData
<1>5. n \in Alive /\ View[n] = Shown(d)
  BY <1>2, ViewIs DEF Remembered
<1>6. H!Known(Shown(d))
  <2>1. n \in H!Live
    BY <1>5, ViewIs
  <2>2. QED
    BY ONLY <1>5, <2>1 DEF H!Known
<1>7. UNCHANGED View /\ Alive' = Alive
  BY <1>2, ViewStays
<1>8. Interns(Shown(d))
  BY ONLY <1>4, <1>6, <1>7 DEF Interns
<1>9. holds \in [Threads -> SUBSET Alive] /\ pc \in [Threads -> {"idle", "lookup", "insert"}]
  BY DEF IInv, Structural, StateOK
<1>10. n \in holds'[t] /\ View'[n] = Shown(d)
  BY ONLY <1>2, <1>5, <1>7, <1>9, t \in Threads
<1>11. \A u \in Threads : Returning(u) => u = t
  BY ONLY <1>2, <1>9 DEF Returning
<1>12. Remembered'
  BY ONLY <1>2, <1>7, Remembered DEF Remembered
<1>13. QED
  BY <1>1, <1>3, <1>8, <1>10, <1>11, <1>12

(* No call for the same data can have made a node since the miss.          *)
LEMMA InsertShown ==
  ASSUME IInv, Remembered, NEW t \in Threads, NEW n \in Nodes, Insert(t, n)
  PROVE  /\ Interns(Shown(arg[t].data)) /\ arg[t].data \in Data
         /\ \E p \in holds'[t] : View'[p] = Shown(arg[t].data)
         /\ Remembered' /\ \A u \in Threads : Returning(u) => u = t
<1>1. PICK d : d = arg[t].data
  OBVIOUS
<1>2. /\ pc[t] = "insert" /\ life[n] = "free" /\ life' = [life EXCEPT ![n] = "live"]
      /\ data' = [data EXCEPT ![n] = d] /\ table' = table \cup {n}
      /\ holds' = [holds EXCEPT ![t] = @ \cup {n}] /\ pc' = [pc EXCEPT ![t] = "idle"]
  BY <1>1 DEF Insert
<1>3. d \in Data /\ Kids(d) \subseteq Alive
  BY <1>1, <1>2 DEF IInv, Structural, ArgOK
<1>4. H!IsData(Shown(d))
  BY <1>3, ShownData
<1>5. /\ life \in [Nodes -> {"free", "live", "expired"}] /\ data \in [Nodes -> Data \cup {NoData}]
      /\ holds \in [Threads -> SUBSET Alive] /\ pc \in [Threads -> {"idle", "lookup", "insert"}]
  BY DEF IInv, Structural, StateOK
<1>6. Alive' = Alive \cup {n} /\ n \notin Alive
  BY ONLY <1>2, <1>5, n \in Nodes DEF Alive
<1>7. ~H!Known(Shown(d))
  <2>1. \A p \in Alive : data[p] # d /\ p \in Nodes
    BY <1>1, <1>2 DEF IInv, Contents, MissesExact, Remembered, Inserting, Alive
  <2>2. \A p \in Alive : View[p] # Shown(d)
    BY <1>3, <2>1, ViewIs, ShownDistinct
  <2>3. \A p \in H!Live : View[p] # Shown(d)
    BY <2>2, ViewIs
  <2>4. QED
    BY ONLY <2>3 DEF H!Known
<1>8. n \in Nodes \ H!Live
  BY <1>6, ViewIs
<1>9. View' = [View EXCEPT ![n] = Shown(d)]
  <2>1. PICK s : s = Shown(d)
    OBVIOUS
  <2>2. View'[n] = s /\ \A p \in Nodes : p # n => View'[p] = View[p]
    BY <1>2, <1>5, <2>1 DEF View
  <2>3. View = [p \in Nodes |-> View[p]] /\ View' = [p \in Nodes |-> View'[p]]
    BY DEF View
  <2>4. PICK v, w : v = View /\ w = View'
    OBVIOUS
  <2>5. w = [v EXCEPT ![n] = s]
    BY ONLY <2>2, <2>3, <2>4, n \in Nodes
  <2>6. QED
    BY ONLY <2>1, <2>4, <2>5
<1>10. Interns(Shown(d))
  BY ONLY <1>4, <1>7, <1>8, <1>9 DEF Interns
<1>11. n \in holds'[t] /\ View'[n] = Shown(d)
  <2>1. n \in holds'[t]
    BY ONLY <1>2, <1>5, t \in Threads
  <2>2. DOMAIN View = Nodes
    BY DEF View
  <2>3. QED
    BY ONLY <1>9, <2>1, <2>2, n \in Nodes
<1>12. \A u \in Threads : Returning(u) => u = t
  BY ONLY <1>2, <1>5 DEF Returning
<1>13. Remembered'
  BY ONLY <1>2, <1>6, Remembered DEF Remembered
<1>14. QED
  BY <1>1, <1>3, <1>10, <1>11, <1>12, <1>13

(* A node that nothing holds is no field of another.                       *)
LEMMA ExpireShown ==
  ASSUME IInv, Remembered, NEW n \in Nodes, Expire(n)
  PROVE  H!Expire(n) /\ Remembered'
<1>1. /\ life[n] = "live" /\ life' = [life EXCEPT ![n] = "expired"] /\ data' = data
      /\ table' = table \ {n} /\ \A p \in Nodes : n \notin Kids(data[p])
  BY DEF Expire, Held, HeldByNode
<1>2. life \in [Nodes -> {"free", "live", "expired"}]
  BY DEF IInv, Structural, StateOK
<1>3. n \in Alive /\ Alive' = Alive \ {n}
  BY ONLY <1>1, <1>2, n \in Nodes DEF Alive
<1>4. n \in H!Live
  BY <1>3, ViewIs
<1>5. ~H!HeldByNode(n)
  <2>1. ASSUME NEW p \in H!Live PROVE n \notin H!Kids(p)
    <3>1. p \in Alive /\ p \in Nodes /\ View[p] = Shown(data[p]) /\ data[p] \in Data
      BY ViewIs
    <3>2. View[p] # Nothing /\ H!Refs(View[p]) = Kids(data[p])
      BY <3>1, ShownIs
    <3>3. QED
      BY ONLY <1>1, <3>1, <3>2 DEF H!Kids
  <2>2. QED
    BY ONLY <2>1 DEF H!HeldByNode
<1>6. View' = [View EXCEPT ![n] = Nothing]
  <2>1. View'[n] = Nothing /\ \A p \in Nodes : p # n => View'[p] = View[p]
    BY <1>1, <1>2 DEF View
  <2>2. View = [p \in Nodes |-> View[p]] /\ View' = [p \in Nodes |-> View'[p]]
    BY DEF View
  <2>3. PICK v, w : v = View /\ w = View'
    OBVIOUS
  <2>4. w = [v EXCEPT ![n] = Nothing]
    BY ONLY <2>1, <2>2, <2>3, n \in Nodes
  <2>5. QED
    BY ONLY <2>3, <2>4
<1>7. H!Expire(n)
  BY ONLY <1>4, <1>5, <1>6 DEF H!Expire
<1>8. QED
  BY ONLY <1>1, <1>3, <1>7, Remembered DEF Remembered

LEMMA StepShown ==
  ASSUME Calls = {}, IInv, Remembered, [Next]_vars
  PROVE  HeapStep /\ Answers /\ Remembered'
<1>1. ASSUME UNCHANGED <<life, data, table>>, \A t \in Threads : ~Returning(t)
      PROVE  HeapStep /\ Answers /\ Remembered'
  BY <1>1, ViewStays DEF HeapStep, Answers, Returning, Remembered
<1>2. pc \in [Threads -> {"idle", "lookup", "insert"}]
  BY DEF IInv, Structural, StateOK
<1>3. ASSUME UNCHANGED <<life, data, table, pc>>
      PROVE  HeapStep /\ Answers /\ Remembered'
  BY <1>1, <1>3 DEF Returning
<1>4. ASSUME NEW t \in Threads, NEW u \in Threads, NEW n \in Nodes, Clone(t, u, n)
      PROVE  HeapStep /\ Answers /\ Remembered'
  BY <1>3, <1>4 DEF Clone, nodes
<1>5. ASSUME NEW t \in Threads, NEW n \in Nodes, NEW k \in Nodes, CloneKid(t, n, k)
      PROVE  HeapStep /\ Answers /\ Remembered'
  BY <1>3, <1>5 DEF CloneKid, nodes
<1>6. ASSUME NEW t \in Threads, NEW n \in Nodes, Drop(t, n)
      PROVE  HeapStep /\ Answers /\ Remembered'
  BY <1>3, <1>6 DEF Drop, nodes
<1>7. ASSUME NEW t \in Threads, NEW label \in {"lookup", "insert"}, pc' = [pc EXCEPT ![t] = label]
      PROVE  \A u \in Threads : ~Returning(u)
  BY ONLY <1>2, <1>7 DEF Returning
<1>8. ASSUME NEW t \in Threads, NEW d \in Data, Spawn(t, d)
      PROVE  HeapStep /\ Answers /\ Remembered'
  <2>1. UNCHANGED <<life, data, table>> /\ pc' = [pc EXCEPT ![t] = "lookup"]
    BY <1>8 DEF Spawn, nodes
  <2>2. QED
    BY <1>1, <1>7, <2>1
<1>9. ASSUME NEW t \in Threads, Miss(t)
      PROVE  HeapStep /\ Answers /\ Remembered'
  <2>1. UNCHANGED <<life, data, table>> /\ pc' = [pc EXCEPT ![t] = "insert"]
    BY <1>9 DEF Miss, nodes
  <2>2. QED
    BY <1>1, <1>7, <2>1
<1>10. ASSUME NEW t \in Threads, NEW n \in Nodes, Find(t, n) \/ Insert(t, n)
       PROVE  HeapStep /\ Answers /\ Remembered'
  <2>1. /\ Interns(Shown(arg[t].data)) /\ arg[t].data \in Data
        /\ \E p \in holds'[t] : View'[p] = Shown(arg[t].data)
        /\ Remembered' /\ \A u \in Threads : Returning(u) => u = t
    BY <1>10, FindShown, InsertShown
  <2>2. HeapStep
    BY ONLY <2>1 DEF HeapStep
  <2>3. Answers
    BY ONLY <2>1 DEF Answers, Returning
  <2>4. QED
    BY ONLY <2>1, <2>2, <2>3
<1>11. ASSUME NEW n \in Nodes, Expire(n)
       PROVE  HeapStep /\ Answers /\ Remembered'
  <2>1. H!Expire(n) /\ Remembered' /\ pc' = pc
    BY <1>11, ExpireShown DEF Expire
  <2>2. HeapStep
    BY ONLY <2>1, n \in Nodes DEF HeapStep
  <2>3. Answers
    BY ONLY <2>1 DEF Answers
  <2>4. QED
    BY ONLY <2>1, <2>2, <2>3
<1>12. ASSUME NEW n \in Nodes, Destroy(n)
       PROVE  HeapStep /\ Answers /\ Remembered'
  <2>1. /\ life[n] = "expired" /\ life' = [life EXCEPT ![n] = "free"]
        /\ data' = [data EXCEPT ![n] = DropsKids(n)] /\ table' = table /\ pc' = pc
    BY <1>12 DEF Destroy
  <2>2. \A p \in Nodes : (life'[p] = "live" <=> life[p] = "live")
                         /\ (life[p] = "live" => data'[p] = data[p])
    BY <2>1 DEF IInv, Structural, StateOK
  <2>3. UNCHANGED View
    BY <2>2 DEF View
  <2>4. Alive' = Alive
    BY <2>2 DEF Alive
  <2>5. QED
    BY <2>1, <2>3, <2>4 DEF HeapStep, Answers, Remembered
<1>13. ASSUME NEW c \in Calls
       PROVE  FALSE
  OBVIOUS
<1>14. CASE UNCHANGED vars
  BY <1>3, <1>14 DEF vars, nodes
<1>15. QED
  BY <1>4, <1>5, <1>6, <1>8, <1>9, <1>10, <1>11, <1>12, <1>13, <1>14 DEF Next

(* Rewriting and archives are modelled on Heap, and this is why they may   *)
(* be: in a program without resets, for any number of threads, every       *)
(* behaviour of the nodes is one in which calls intern in a single step,   *)
(* although a lookup, the node's creation and the drops of others fall     *)
(* between one another, and each call's answer is the node of its data.    *)
THEOREM ShowsHeap ==
  ASSUME Calls = {}
  PROVE  Spec => /\ H!HeapInit
                 /\ [](H!HeapTypeOK /\ OneNodePerData)
                 /\ [][HeapStep /\ Answers]_vars
<1>1. Init => H!HeapInit /\ Remembered
  BY DEF Init, H!HeapInit, View, Remembered, Alive
<1>2. IInv /\ Remembered /\ [Next]_vars => Remembered' /\ [HeapStep /\ Answers]_vars
  BY StepShown
<1>3. IInv /\ Remembered => H!HeapTypeOK /\ OneNodePerData
  BY ViewOK, ViewUnique
<1>4. QED
  BY <1>1, <1>2, <1>3, Invariant, PTL DEF Spec
=============================================================================
