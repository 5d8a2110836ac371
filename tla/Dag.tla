-------------------------------- MODULE Dag --------------------------------
(***************************************************************************)
(* Interned nodes: HirpdagRef, HirpdagStorage and HirpdagHashconsTable     *)
(* (src/hirpdag/src/base/reference.rs) and what #[hirpdag] generates for a *)
(* struct (src/hirpdag_derive/src/lib.rs: spawn, hirpdag_compute_meta).    *)
(*                                                                         *)
(* A node is known by the address of its storage, which is reused once the *)
(* storage was freed.  Its data is a label, which stands for its type and  *)
(* every field that is no reference (enum payloads included: enums are not *)
(* interned), and the references to its children.  Its type's table finds  *)
(* it by content: equal label, and pointer-equal children.  The table is   *)
(* taken by its contract (Interning.tla): it knows weak references only    *)
(* and holds a lock from lookup to insertion that covers every call for    *)
(* data with the same hash.  hirpdag_reset_tables (feature reset-tables)   *)
(* empties the tables type after type, each shard after shard, while       *)
(* threads go on interning; a thread that calls it does nothing else until *)
(* it returns, so a call is an actor of its own.                           *)
(***************************************************************************)
EXTENDS Meta, Sequences, FiniteSets

CONSTANTS
  Threads,
  Nodes,        (* addresses                                               *)
  Labels,
  Arity,        (* Arity[l]: how many references data with label l has     *)
  TypeOf,       (* TypeOf[l]: the hirpdag type of the label                *)
  FlagsOf,      (* FlagsOf[l]: hirpdag_flags of data with label l          *)
  TypeOrder,    (* the types in the order of their declarations            *)
  NShards,      (* N_SHARDS                                                *)
  Shard(_),     (* get_shard: the shard of its type's table a hash is in   *)
  Calls,        (* the calls of hirpdag_reset_tables; none if it is off    *)
  MaxId,        (* bound: creation ids given out                           *)
  NoData

Types == {TypeOf[l] : l \in Labels}
Shards == 0 .. NShards - 1
Hashes == UNION {{<<l, ids>> : ids \in [1 .. Arity[l] -> 0 .. MaxId]} : l \in Labels}

ASSUME DagAssumption ==
  /\ Arity \in [Labels -> Nat]
  /\ FlagsOf \in [Labels -> SUBSET Flags]
  /\ MaxId \in Nat

ASSUME ResetAssumption ==
  /\ TypeOrder \in Seq(Types)
  /\ \A l \in Labels : \E i \in 1 .. Len(TypeOrder) : TypeOrder[i] = TypeOf[l]
  /\ NShards \in Nat \ {0}
  /\ \A h \in Hashes : Shard(h) \in Shards

VARIABLES
  counter,      (* HIRPDAG_CREATION_COUNTER                                *)
  life,         (* life[n]: "free", "live", "expired" (cannot be upgraded) *)
  data,         (* data[n]: hirpdag_data                                   *)
  meta,         (* meta[n]: hirpdag_meta                                   *)
  id,           (* id[n]: hirpdag_creation_id                              *)
  table,        (* nodes the tables have a weak reference to               *)
  holds,        (* holds[t]: nodes t has a strong reference to             *)
  pc,           (* what t does next                                        *)
  arg,          (* the storage t's hirpdag_hashcons moves into the table   *)
  at,           (* at[c]: the type, by its place, and the shard c empties  *)
                (* next; type 0 before, and one past the last after it     *)
  began,        (* history: began[c]: counter when c began                 *)
  settled       (* history: counter when a shard was last emptied          *)

nodes == <<life, data, meta, id>>
resets == <<at, began, settled>>
vars == <<counter, nodes, table, holds, pc, arg, resets>>

Data == UNION {[label : {l}, kids : [1 .. Arity[l] -> Nodes]] : l \in Labels}

ASSUME NoDataAssumption == NoData \notin Data

Kids(d) == IF d = NoData THEN {} ELSE {d.kids[i] : i \in DOMAIN d.kids}

TypeOK ==
  /\ counter \in 1 .. MaxId + 1
  /\ life \in [Nodes -> {"free", "live", "expired"}]
  /\ data \in [Nodes -> Data \cup {NoData}]
  /\ meta \in [Nodes -> HirpdagMeta]
  /\ id \in [Nodes -> 0 .. MaxId]
  /\ table \in SUBSET {n \in Nodes : life[n] = "live"}
  /\ holds \in [Threads -> SUBSET {n \in Nodes : life[n] = "live"}]
  /\ pc \in [Threads -> {"idle", "lookup", "insert"}]
  /\ arg \in [Threads -> [data : Data \cup {NoData}, meta : HirpdagMeta, id : 0 .. MaxId]]
  /\ at \in [Calls -> [type : 0 .. Len(TypeOrder) + 1, shard : Shards]]
  /\ began \in [Calls -> 0 .. MaxId + 1]
  /\ settled \in 0 .. MaxId + 1

(* The storage hirpdag_hashcons starts from.                               *)
Storage(d) == [data |-> d, meta |-> zero, id |-> 0]

Init ==
  /\ counter = 1
  /\ life = [n \in Nodes |-> "free"]
  /\ data = [n \in Nodes |-> NoData]
  /\ meta = [n \in Nodes |-> zero]
  /\ id = [n \in Nodes |-> 0]
  /\ table = {}
  /\ holds = [t \in Threads |-> {}]
  /\ pc = [t \in Threads |-> "idle"]
  /\ arg = [t \in Threads |-> Storage(NoData)]
  /\ at = [c \in Calls |-> [type |-> 0, shard |-> 0]]
  /\ began = [c \in Calls |-> 0]
  /\ settled = 0

(* The hash of data takes the children's creation ids for the children.    *)
Hash(d) == <<d.label, [i \in DOMAIN d.kids |-> id[d.kids[i]]]>>

(* hirpdag_compute_meta: the metadata of the fields summed, one level up.  *)
Sums(ms) ==
  LET upTo[i \in 0 .. Len(ms)] == IF i = 0 THEN zero ELSE fold(upTo[i - 1], ms[i])
  IN  upTo
Sum(ms) == Sums(ms)[Len(ms)]
ComputeMeta(d) ==
  add_flags(increment(Sum([i \in DOMAIN d.kids |-> meta[d.kids[i]]])), FlagsOf[d.label])

(* A node lives on the handles threads have, those in the data of a call   *)
(* under way, and those in the data of other nodes.                        *)
HeldByThread(n) == \E t \in Threads : n \in holds[t] \/ n \in Kids(arg[t].data)
HeldByNode(n) == \E p \in Nodes : n \in Kids(data[p])
Held(n) == HeldByThread(n) \/ HeldByNode(n)
-----------------------------------------------------------------------------
(***************************************************************************)
(* Handles: clone (for any thread), drop, a child reached through Deref.   *)
(***************************************************************************)
Clone(t, u, n) ==
  /\ n \in holds[t]
  /\ holds' = [holds EXCEPT ![u] = @ \cup {n}]
  /\ UNCHANGED <<counter, nodes, table, pc, arg, resets>>

CloneKid(t, n, k) ==
  /\ n \in holds[t]
  /\ k \in Kids(data[n])
  /\ holds' = [holds EXCEPT ![t] = @ \cup {k}]
  /\ UNCHANGED <<counter, nodes, table, pc, arg, resets>>

Drop(t, n) ==
  /\ n \in holds[t]
  /\ holds' = [holds EXCEPT ![t] = @ \ {n}]
  /\ UNCHANGED <<counter, nodes, table, pc, arg, resets>>

(* The last strong reference is gone: no weak one can be upgraded any more *)
Expire(n) ==
  /\ life[n] = "live"
  /\ ~Held(n)
  /\ life' = [life EXCEPT ![n] = "expired"]
  /\ table' = table \ {n}
  /\ UNCHANGED <<counter, data, meta, id, holds, pc, arg, resets>>

KeepsKids(n) == data[n]
DropsKids(n) == NoData

(* ... and the destructor drops the data with the references to children.  *)
Destroy(n) ==
  /\ life[n] = "expired"
  /\ life' = [life EXCEPT ![n] = "free"]
  /\ data' = [data EXCEPT ![n] = DropsKids(n)]
  /\ meta' = [meta EXCEPT ![n] = zero]
  /\ id' = [id EXCEPT ![n] = 0]
  /\ UNCHANGED <<counter, table, holds, pc, arg, resets>>
-----------------------------------------------------------------------------
(***************************************************************************)
(* spawn and hirpdag_hashcons: new data from clones of handles the thread  *)
(* has (a handle that moves into the data is one dropped right after).     *)
(***************************************************************************)
Spawn(t, d) ==
  /\ pc[t] = "idle"
  /\ Kids(d) \subseteq holds[t]
  /\ pc' = [pc EXCEPT ![t] = "lookup"]
  /\ arg' = [arg EXCEPT ![t] = Storage(d)]
  /\ UNCHANGED <<counter, nodes, table, holds, resets>>

(* The lock that covers a hash is free.                                    *)
NoLock(h) == TRUE
Unlocked(h) ==
  \A u \in Threads : pc[u] = "insert" => Hash(arg[u].data) # h

(* A lookup upgrades the weak reference of a node with the same hash, then *)
(* compares: labels, and addresses of children.                            *)
Upgradable(n) == n \in table
Matches(n, d) == Upgradable(n) /\ Hash(data[n]) = Hash(d) /\ data[n] = d

(* get_or_insert finds an equal node: the data moved into it is dropped.   *)
Find(t, n) ==
  LET d == arg[t].data
  IN  /\ pc[t] = "lookup"
      /\ Unlocked(Hash(d))
      /\ Matches(n, d)
      /\ holds' = [holds EXCEPT ![t] = @ \cup {n}]
      /\ arg' = [arg EXCEPT ![t] = Storage(NoData)]
      /\ pc' = [pc EXCEPT ![t] = "idle"]
      /\ UNCHANGED <<counter, nodes, table, resets>>

NotTaken(c) == c
FetchAdd(c) == c + 1

(* ... or none: creation_meta computes the metadata and takes an id ...    *)
Miss(t) ==
  LET d == arg[t].data
  IN  /\ pc[t] = "lookup"
      /\ Unlocked(Hash(d))
      /\ \A n \in Nodes : ~Matches(n, d)
      /\ counter <= MaxId
      /\ counter' = FetchAdd(counter)
      /\ arg' = [arg EXCEPT ![t].meta = ComputeMeta(d), ![t].id = counter]
      /\ pc' = [pc EXCEPT ![t] = "insert"]
      /\ UNCHANGED <<nodes, table, holds, resets>>

(* ... and the storage moves behind a new reference the table knows.       *)
Insert(t, n) ==
  /\ pc[t] = "insert"
  /\ life[n] = "free"
  /\ life' = [life EXCEPT ![n] = "live"]
  /\ data' = [data EXCEPT ![n] = arg[t].data]
  /\ meta' = [meta EXCEPT ![n] = arg[t].meta]
  /\ id' = [id EXCEPT ![n] = arg[t].id]
  /\ table' = table \cup {n}
  /\ holds' = [holds EXCEPT ![t] = @ \cup {n}]
  /\ arg' = [arg EXCEPT ![t] = Storage(NoData)]
  /\ pc' = [pc EXCEPT ![t] = "idle"]
  /\ UNCHANGED <<counter, resets>>

(***************************************************************************)
(* hirpdag_reset_tables                                                    *)
(***************************************************************************)
BeginReset(c) ==
  /\ at[c].type = 0
  /\ at' = [at EXCEPT ![c].type = 1]
  /\ began' = [began EXCEPT ![c] = counter]
  /\ UNCHANGED <<counter, nodes, table, holds, pc, arg, settled>>

Resetting(c) == at[c].type \in 1 .. Len(TypeOrder)
HasReset(c) == at[c].type > Len(TypeOrder)

(* What belongs in the shard c empties next, and the lock of that shard.   *)
InShard(d, c) ==
  TypeOf[d.label] = TypeOrder[at[c].type] /\ Shard(Hash(d)) = at[c].shard

Unguarded(c) == TRUE
ShardUnlocked(c) ==
  \A u \in Threads : pc[u] = "insert" => ~InShard(arg[u].data, c)

NextShard(p) ==
  IF p.shard + 1 < NShards THEN [p EXCEPT !.shard = @ + 1]
  ELSE [type |-> p.type + 1, shard |-> 0]

ResetShard(c) ==
  /\ Resetting(c)
  /\ ShardUnlocked(c)
  /\ table' = {n \in table : ~InShard(data[n], c)}
  /\ at' = [at EXCEPT ![c] = NextShard(@)]
  /\ settled' = counter
  /\ UNCHANGED <<counter, nodes, holds, pc, arg, began>>
-----------------------------------------------------------------------------
Next ==
  \/ \E t \in Threads :
        \/ \E u \in Threads, n \in Nodes : Clone(t, u, n)
        \/ \E n, k \in Nodes : CloneKid(t, n, k)
        \/ \E n \in Nodes : Drop(t, n) \/ Find(t, n) \/ Insert(t, n)
        \/ \E d \in Data : Spawn(t, d)
        \/ Miss(t)
  \/ \E n \in Nodes : Expire(n) \/ Destroy(n)
  \/ \E c \in Calls : BeginReset(c) \/ ResetShard(c)

Spec == Init /\ [][Next]_vars

(* Expire and Destroy are the rest of the drop that was the last one.      *)
Fairness == \A n \in Nodes : WF_vars(Expire(n) \/ Destroy(n))
FairSpec == Spec /\ Fairness
-----------------------------------------------------------------------------
Exists(n) == life[n] # "free"

(* A node never outlives its children: until its data is dropped they are  *)
(* live and can be read through it.                                        *)
KidsLive ==
  \A n \in Nodes : \A k \in Kids(data[n]) : life[k] = "live"

(* Creation ids order the nodes that exist: distinct, and smaller for a    *)
(* dependency than for what depends on it (the order of `cmp').  So no     *)
(* node can reach itself.                                                  *)
IdsOrder ==
  /\ \A n, p \in Nodes : Exists(n) /\ Exists(p) /\ id[n] = id[p] => n = p
  /\ \A n \in Nodes : \A k \in Kids(data[n]) : id[k] < id[n]

(* A relation between nodes of equal structure: their labels are equal and *)
(* their children are the same node or related again.                      *)
DeeplyEqual(R) ==
  \A e \in R :
    LET d == data[e[1]]
        c == data[e[2]]
    IN  /\ d.label = c.label
        /\ \A i \in 1 .. Arity[d.label] :
              d.kids[i] = c.kids[i] \/ <<d.kids[i], c.kids[i]>> \in R

(* Pointer equality is deep equality: no two nodes the tables know (where  *)
(* no reset has separated them) have the same structure, though the tables *)
(* only ever compare one level, children die and are created again, and    *)
(* addresses are reused.                                                   *)
DeepCanonical ==
  \A R \in SUBSET {e \in table \X table : e[1] # e[2]} : DeeplyEqual(R) => R = {}

(* After hirpdag_reset_tables has returned, construction starts as if      *)
(* nothing had been interned: no table knows a node from before the call,  *)
(* though threads interned while it went from shard to shard and type to   *)
(* type, and had missed when it began.  And nodes made since a shard was   *)
(* last emptied are canonical among themselves (not with nodes made        *)
(* earlier, nor where they have different nodes of equal structure, one    *)
(* from before and one from after, as children).                           *)
MadeSince == {n \in Nodes : life[n] = "live" /\ id[n] >= settled}
FreshStart ==
  /\ \A c \in Calls : HasReset(c) => \A n \in table : id[n] >= began[c]
  /\ \A R \in SUBSET {e \in MadeSince \X MadeSince : e[1] # e[2]} : DeeplyEqual(R) => R = {}

(* The nodes of the tree a node unfolds to, each path counted, and its     *)
(* height, without saturation.                                             *)
Totals(s) ==
  LET upTo[i \in 0 .. Len(s)] == IF i = 0 THEN 0 ELSE upTo[i - 1] + s[i]
  IN  upTo
Total(s) == Totals(s)[Len(s)]
Highest(S) == CHOOSE h \in S : \A k \in S : k <= h

Existing == {n \in Nodes : Exists(n)}
OneMore(T, d) ==
  [count |-> 1 + Total([i \in DOMAIN d.kids |-> T[d.kids[i]].count]),
   height |-> 1 + Highest({0} \cup {T[k].height : k \in Kids(d)})]
Tree[n \in Existing] == OneMore(Tree, data[n])

(* The nodes that can be read through n.                                   *)
Below(n) ==
  {k \in Nodes : \A S \in SUBSET Nodes :
     (n \in S /\ \A p \in S : Kids(data[p]) \subseteq S) => k \in S}

Capped(x, top) == IF x > top THEN top ELSE x

(* The cached metadata is that of the whole structure: sums that saturate  *)
(* at every level still give the saturated total.                          *)
MetaExact ==
  \A n \in Existing :
    meta[n] = [count |-> Capped(Tree[n].count, CountMax),
               height |-> Capped(Tree[n].height, HeightMax),
               flags |-> UNION {FlagsOf[data[k].label] : k \in Below(n)}]

(* Everything no thread can reach is freed, however deep: an acyclic graph *)
(* needs no collector.                                                     *)
Reachable == UNION {Below(n) : n \in {p \in Nodes : Exists(p) /\ HeldByThread(p)}}
GarbageFreed ==
  \A n \in Nodes :
    (Exists(n) /\ n \notin Reachable) ~> (life[n] = "free" \/ n \in Reachable)
=============================================================================
