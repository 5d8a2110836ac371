----------------------------- MODULE HeapProofs -----------------------------
(***************************************************************************)
(* What holds of the heap of interned nodes for any labels, shapes and     *)
(* addresses, whoever uses it: interning and expiry keep it typed, without *)
(* cycles and without two nodes of the same data; the structure below a    *)
(* node is well defined, and tells nodes apart.                            *)
(***************************************************************************)
EXTENDS Heap, FiniteSetTheorems, TLAPS

(* Nodes are ranked, each above those it refers to.                        *)
Ranked(rank, b) ==
  /\ rank \in [Nodes -> Nat]
  /\ \A n \in Nodes : rank[n] < b
  /\ \A n \in Live : \A k \in Kids(n) : rank[k] < rank[n]
Acyclic == \E b \in Nat : \E rank : Ranked(rank, b)

Unique == \A n, p \in Live : node[n] = node[p] => n = p

HeapOK == HeapTypeOK /\ Acyclic /\ Unique

LEMMA Least ==
  ASSUME NEW T \in SUBSET Nat, T # {}
  PROVE  \E m \in T : \A k \in T : m <= k
<1> DEFINE I == {1 .. k : k \in T}
<1>1. I \subseteq FiniteSubsetsOf(Nat)
  <2>1. ASSUME NEW k \in T PROVE 1 .. k \in SUBSET Nat /\ IsFiniteSet(1 .. k)
    <3>1. k \in Nat /\ 1 \in Int /\ k \in Int
      OBVIOUS
    <3>2. QED
      BY <3>1, FS_Interval
  <2>2. QED
    BY <2>1 DEF FiniteSubsetsOf
<1>2. IsWellFoundedOn(StrictSubsetOrdering(Nat), FiniteSubsetsOf(Nat))
  BY FS_StrictSubsetOrderingWellFounded
<1>3. PICK x \in I : \A y \in I : <<y, x>> \notin StrictSubsetOrdering(Nat)
  <2>1. I # {}
    OBVIOUS
  <2> HIDE DEF I
  <2>2. QED
    BY <1>1, <1>2, <2>1, WFMin
<1>4. PICK m \in T : x = 1 .. m
  OBVIOUS
<1>5. ASSUME NEW k \in T, k < m PROVE FALSE
  <2>1. 1 .. k \in I /\ 1 .. k \subseteq 1 .. m /\ m \in 1 .. m /\ m \notin 1 .. k
    BY <1>5
  <2>2. <<1 .. k, 1 .. m>> \in StrictSubsetOrdering(Nat)
    BY <2>1 DEF StrictSubsetOrdering
  <2>3. QED
    BY <1>3, <1>4, <2>1, <2>2
<1>6. QED
  BY <1>5


LEMMA DataIs ==
  ASSUME NEW d \in AllData
  PROVE  /\ d # NoData /\ d.label \in Labels
         /\ d.fields \in [1 .. Len(Shape[d.label]) -> [variant : Variants, ref : Nodes]]
         /\ DOMAIN d.fields = 1 .. Len(Shape[d.label]) /\ Len(Shape[d.label]) \in Nat
         /\ d = [label |-> d.label, fields |-> d.fields]
         /\ Refs(d) \subseteq Nodes
<1>1. d # NoData
  BY HeapAssumption
<1>2. PICK l \in Labels :
        d \in [label : {l}, fields : [DOMAIN Shape[l] -> [variant : Variants, ref : Nodes]]]
  BY DEF AllData, DataOver
<1>3. Len(Shape[l]) \in Nat /\ DOMAIN Shape[l] = 1 .. Len(Shape[l])
  BY HeapAssumption
<1>4. d.label = l /\ d.fields \in [1 .. Len(Shape[l]) -> [variant : Variants, ref : Nodes]]
  BY <1>2, <1>3
<1>5. d = [label |-> d.label, fields |-> d.fields]
  BY <1>2
<1>6. Refs(d) \subseteq Nodes
  BY <1>4 DEF Refs
<1>7. QED
  BY <1>1, <1>3, <1>4, <1>5, <1>6

LEMMA FunctionIsSeq ==
  ASSUME NEW m \in Nat, NEW S, NEW f \in [1 .. m -> S]
  PROVE  f \in Seq(S) /\ Len(f) = m
<1>1. f = [i \in 1 .. m |-> f[i]] /\ \A i \in 1 .. m : f[i] \in S
  OBVIOUS
<1>2. [i \in 1 .. m |-> f[i]] \in Seq(S) /\ Len([i \in 1 .. m |-> f[i]]) = m
  BY <1>1
<1>3. QED
  BY <1>1, <1>2

LEMMA DataFields ==
  ASSUME NEW d \in AllData
  PROVE  /\ d.fields \in Seq([variant : Variants, ref : Nodes])
         /\ Len(d.fields) = Len(Shape[d.label])
BY DataIs, FunctionIsSeq

LEMMA LiveIs ==
  ASSUME HeapTypeOK, NEW n \in Live
  PROVE  /\ n \in Nodes /\ node[n] \in AllData /\ IsData(node[n])
         /\ Kids(n) = Refs(node[n]) /\ Kids(n) \subseteq Live
<1>1. n \in Nodes /\ node[n] \in AllData /\ IsData(node[n]) /\ node[n] # NoData
  BY DEF Live, HeapTypeOK
<1>2. Kids(n) = Refs(node[n])
  BY <1>1 DEF Kids
<1>3. Refs(node[n]) \subseteq Live
  BY <1>1 DEF Refs, IsData, IsField
<1>4. QED
  BY <1>1, <1>2, <1>3

LEMMA HeapInitOK == HeapInit => HeapOK
<1> SUFFICES ASSUME HeapInit PROVE HeapOK
  OBVIOUS
<1>1. Live = {} /\ node = [n \in Nodes |-> NoData]
  BY DEF HeapInit, Live
<1>2. Ranked([n \in Nodes |-> 0], 1)
  BY <1>1 DEF Ranked
<1>3. Acyclic
  BY <1>2 DEF Acyclic
<1>4. HeapTypeOK /\ Unique
  BY <1>1 DEF HeapTypeOK, Unique
<1>5. QED
  BY <1>3, <1>4 DEF HeapOK

(* What a step does to the heap, for whoever takes it.                     *)
Grows == Live \subseteq Live' /\ \A n \in Live : node'[n] = node[n]
Frees(n) == Live' = Live \ {n} /\ \A p \in Live : p # n => node'[p] = node[p]

LEMMA StoreAnswers ==
  ASSUME HeapTypeOK, NEW d \in AllData, Store(d)
  PROVE  /\ Grows
         /\ Known(d) => UNCHANGED node /\ hashcons(d) \in Live
         /\ ~Known(d) => /\ hashcons(d) \in Nodes \ Live /\ Live' = Live \cup {hashcons(d)}
                         /\ node' = [node EXCEPT ![hashcons(d)] = d]
         /\ hashcons(d) \in Live' /\ node'[hashcons(d)] = d
<1>1. d # NoData
  BY DataIs
<1>2. CASE Known(d)
  <2>1. PICK n \in Live : node[n] = d
    BY <1>2 DEF Known
  <2>2. hashcons(d) \in Live /\ node[hashcons(d)] = d
    BY <1>2, <2>1 DEF hashcons
  <2>3. UNCHANGED node
    BY <1>2 DEF Store
  <2>4. Live' = Live
    BY <2>3 DEF Live
  <2>5. QED
    BY <1>2, <2>2, <2>3, <2>4 DEF Grows
<1>3. CASE ~Known(d)
  <2>1. Live # Nodes /\ Live \subseteq Nodes
    BY <1>3 DEF Store, Live
  <2>2. hashcons(d) = CHOOSE n \in Nodes \ Live : TRUE
    BY <1>3 DEF hashcons
  <2>3. hashcons(d) \in Nodes \ Live
    BY <2>1, <2>2
  <2>4. node' = [node EXCEPT ![hashcons(d)] = d]
    BY <1>3 DEF Store
  <2>5. PICK h : h = hashcons(d)
    OBVIOUS
  <2>6. h \in Nodes /\ h \notin Live /\ node' = [node EXCEPT ![h] = d]
    BY <2>3, <2>4, <2>5
  <2>7. DOMAIN node = Nodes
    BY DEF HeapTypeOK
  <2>8. node'[h] = d /\ \A n \in Nodes : n # h => node'[n] = node[n]
    BY <2>6, <2>7
  <2>9. Live' = Live \cup {h}
    BY <1>1, <2>6, <2>8 DEF Live
  <2>10. Grows
    BY <2>6, <2>8, <2>9 DEF Grows, Live
  <2>11. QED
    BY <1>3, <2>3, <2>4, <2>5, <2>8, <2>9, <2>10
<1>4. QED
  BY <1>2, <1>3

LEMMA StoreOK ==
  ASSUME HeapOK, NEW d \in AllData, IsData(d), Store(d)
  PROVE  HeapOK'
<1>1. CASE Known(d)
  <2>1. UNCHANGED node
    BY <1>1 DEF Store
  <2>2. QED
    BY <2>1 DEF HeapOK, HeapTypeOK, Acyclic, Ranked, Unique, Live, Kids, IsData, IsField, Type
<1>2. CASE ~Known(d)
  <2>0. HeapTypeOK
    BY DEF HeapOK
  <2>1. PICK h : h = hashcons(d)
    OBVIOUS
  <2>2. /\ h \in Nodes /\ h \notin Live /\ Live' = Live \cup {h}
        /\ node' = [node EXCEPT ![h] = d] /\ node \in [Nodes -> AllData \cup {NoData}]
    BY <1>2, <2>0, <2>1, StoreAnswers DEF HeapTypeOK
  <2>3. node'[h] = d /\ \A n \in Live : node'[n] = node[n]
    BY <2>2 DEF Live
  <2>4. Refs(d) \subseteq Live
    BY DEF IsData, IsField, Refs
  <2>5. \A n \in Live : Kids(n)' = Kids(n) /\ Kids(n) \subseteq Live
    BY <2>0, <2>3, LiveIs DEF Kids
  <2>6. Kids(h)' = Refs(d)
    BY <2>3, DataIs DEF Kids
  <2>7. HeapTypeOK'
    <3>1. node' \in [Nodes -> AllData \cup {NoData}]
      BY <2>2
    <3>2. \A n \in Live : Type(n)' = Type(n) /\ n \in Live'
      BY <2>2, <2>3 DEF Type
    <3>3. \A e \in AllData : IsData(e) => IsData(e)'
      BY <3>2 DEF IsData, IsField
    <3>4. \A n \in Live : IsData(node[n]) /\ node[n] \in AllData
      BY <2>0, LiveIs
    <3>5. \A n \in Live' : \E e : e = node'[n] /\ IsData(e)'
      BY <2>2, <2>3, <3>3, <3>4
    <3>6. QED
      BY <3>1, <3>5 DEF HeapTypeOK, IsData, IsField
  <2>8. Acyclic'
    <3>1. PICK b \in Nat : \E rank : Ranked(rank, b)
      BY DEF HeapOK, Acyclic
    <3>2. PICK rank : Ranked(rank, b)
      BY <3>1
    <3>3. PICK r : r = [rank EXCEPT ![h] = b]
      OBVIOUS
    <3>4. r \in [Nodes -> Nat] /\ r[h] = b /\ \A n \in Nodes : n # h => r[n] = rank[n]
      BY <2>2, <3>2, <3>3 DEF Ranked
    <3>5. \A n \in Nodes : r[n] < b + 1
      BY <3>2, <3>4 DEF Ranked
    <3>6. \A n \in Live : n \in Nodes /\ n # h
      BY <2>2 DEF Live
    <3>7. \A n \in Live' : \A k \in Kids(n)' : r[k] < r[n]
      BY <2>2, <2>4, <2>5, <2>6, <3>2, <3>4, <3>6 DEF Ranked
    <3>8. Ranked(r, b + 1)'
      BY <3>4, <3>5, <3>7 DEF Ranked
    <3>9. b + 1 \in Nat
      OBVIOUS
    <3>10. QED
      BY <3>8, <3>9 DEF Acyclic
  <2>9. Unique'
    BY <1>2, <2>2, <2>3 DEF HeapOK, Unique, Known
  <2>10. QED
    BY <2>7, <2>8, <2>9 DEF HeapOK
<1>3. QED
  BY <1>1, <1>2

LEMMA ExpireOK ==
  ASSUME HeapOK, NEW n \in Nodes, Expire(n)
  PROVE  HeapOK' /\ Frees(n)
<1>1. /\ HeapTypeOK /\ n \in Live /\ ~HeldByNode(n)
      /\ node' = [node EXCEPT ![n] = NoData] /\ node \in [Nodes -> AllData \cup {NoData}]
  BY DEF HeapOK, Expire, HeapTypeOK
<1>2. Live' = Live \ {n} /\ \A p \in Live : p # n => node'[p] = node[p]
  BY <1>1 DEF Live
<1>3. \A p \in Live' : Kids(p)' = Kids(p) /\ Kids(p) \subseteq Live' /\ p \in Live /\ p # n
  <2>1. \A p \in Live : Kids(p) \subseteq Live /\ n \notin Kids(p)
    BY <1>1, LiveIs DEF HeldByNode
  <2>2. \A p \in Live' : Kids(p)' = Kids(p)
    BY <1>2 DEF Kids
  <2>3. QED
    BY <1>2, <2>1, <2>2
<1>4. HeapTypeOK'
  <2>1. node' \in [Nodes -> AllData \cup {NoData}]
    BY <1>1
  <2>2. \A p \in Live' : Type(p)' = Type(p)
    BY <1>2 DEF Type
  <2>3. ASSUME NEW p \in Live' PROVE \E e : e = node'[p] /\ IsData(e)'
    <3>1. IsData(node[p]) /\ Kids(p) = Refs(node[p]) /\ node'[p] = node[p]
      BY <1>1, <1>2, <1>3, LiveIs
    <3>2. \A i \in DOMAIN node[p].fields : node[p].fields[i].ref \in Live'
      BY <1>3, <3>1 DEF Refs
    <3>3. QED
      BY <2>2, <3>1, <3>2 DEF IsData, IsField
  <2>4. QED
    BY <2>1, <2>3 DEF HeapTypeOK, IsData, IsField
<1>5. Acyclic'
  <2>1. PICK b \in Nat : \E rank : Ranked(rank, b)
    BY DEF HeapOK, Acyclic
  <2>2. PICK rank : Ranked(rank, b)
    BY <2>1
  <2>3. Ranked(rank, b)'
    BY <1>3, <2>2 DEF Ranked
  <2>4. QED
    BY <2>3 DEF Acyclic
<1>6. Unique'
  BY <1>2 DEF HeapOK, Unique
<1>7. QED
  BY <1>2, <1>4, <1>5, <1>6 DEF HeapOK, Frees
-----------------------------------------------------------------------------
(***************************************************************************)
(* Structures.                                                             *)
(***************************************************************************)

(* A set of nodes has one that refers to none of them.                     *)
LEMMA Lowest ==
  ASSUME HeapOK, NEW S \in SUBSET Live, S # {}
  PROVE  \E n \in S : \A k \in Kids(n) : k \notin S
<1>1. PICK b \in Nat : \E rank : Ranked(rank, b)
  BY DEF HeapOK, Acyclic
<1>2. PICK rank : Ranked(rank, b)
  BY <1>1
<1>3. \A n \in S : n \in Nodes /\ rank[n] \in Nat
  BY <1>2 DEF Ranked, Live
<1>4. PICK T : T = {rank[n] : n \in S}
  OBVIOUS
<1>5. PICK m \in T : \A k \in T : m <= k
  <2>1. T \in SUBSET Nat /\ T # {}
    BY <1>3, <1>4
  <2>2. QED
    BY <2>1, Least
<1>6. PICK n \in S : rank[n] = m
  BY <1>4, <1>5
<1>7. \A k \in Kids(n) : rank[k] < rank[n]
  BY <1>2 DEF Ranked
<1>8. \A k \in S : rank[n] <= rank[k]
  BY <1>4, <1>5, <1>6
<1>9. \A k \in Kids(n) : k \notin S
  BY <1>3, <1>7, <1>8
<1>10. QED
  BY <1>9

LEMMA SameUnfolded ==
  ASSUME NEW d \in AllData, NEW F, NEW G, \A k \in Refs(d) : F[k] = G[k]
  PROVE  Unfolded(F, d) = Unfolded(G, d)
<1>1. \A i \in DOMAIN d.fields : d.fields[i].ref \in Refs(d)
  BY DEF Refs
<1>2. [i \in DOMAIN d.fields |-> [variant |-> d.fields[i].variant, ref |-> F[d.fields[i].ref]]]
        = [i \in DOMAIN d.fields |-> [variant |-> d.fields[i].variant, ref |-> G[d.fields[i].ref]]]
  BY <1>1
<1>3. QED
  BY <1>2 DEF Unfolded

(* The recursion over the structure has a solution, because it goes down.  *)
Under(rank, m) == {n \in Live : rank[n] < m}

LEMMA KidsUnder ==
  ASSUME HeapTypeOK, NEW rank, NEW b \in Nat, Ranked(rank, b), NEW m \in Nat, NEW n \in Under(rank, m)
  PROVE  /\ node[n] \in AllData /\ m # 0 /\ Kids(n) = Refs(node[n])
         /\ \A k \in Kids(n) : k \in Under(rank, m - 1)
<1>1. n \in Live /\ n \in Nodes /\ rank[n] \in Nat /\ rank[n] < m
  BY DEF Under, Live, Ranked
<1>2. node[n] \in AllData /\ Kids(n) = Refs(node[n]) /\ Kids(n) \subseteq Live
  BY <1>1, LiveIs
<1>3. \A k \in Kids(n) : k \in Live /\ rank[k] \in Nat /\ rank[k] < rank[n]
  BY <1>1, <1>2 DEF Ranked, Live
<1>4. \A k \in Kids(n) : rank[k] < m - 1
  BY <1>1, <1>3
<1>5. QED
  BY <1>1, <1>2, <1>3, <1>4 DEF Under

TreeDefined == Tree = [n \in Live |-> Unfolded(Tree, node[n])]
LEMMA TreeExists == HeapOK => TreeDefined
<1> SUFFICES ASSUME HeapOK
             PROVE  TreeDefined
  OBVIOUS
<1>1. PICK b \in Nat : \E rank : Ranked(rank, b)
  BY DEF HeapOK, Acyclic
<1>2. PICK rank : Ranked(rank, b)
  BY <1>1
<1> DEFINE G(m) == \E g : g = [n \in Under(rank, m) |-> Unfolded(g, node[n])]
           T == {m \in Nat : ~G(m)}
<1>3. ASSUME NEW m \in T, \A k \in T : m <= k PROVE FALSE
  <2>0. m \in Nat
    OBVIOUS
  <2>1. CASE m = 0
    <3>1. Under(rank, m) = {}
      BY <1>2, <2>0, <2>1 DEF Under, Live, Ranked
    <3>2. [n \in Under(rank, m) |-> 0] = [n \in Under(rank, m) |-> Unfolded([p \in Under(rank, m) |-> 0], node[n])]
      BY <3>1
    <3>3. QED
      BY <3>2
  <2>2. CASE m # 0
    <3>1. m - 1 \in Nat /\ m - 1 < m
      BY <2>0, <2>2
    <3>2. G(m - 1)
      BY <1>3, <3>1
    <3>3. PICK f : f = [n \in Under(rank, m - 1) |-> Unfolded(f, node[n])]
      BY <3>2
    <3>4. PICK g : g = [n \in Under(rank, m) |-> Unfolded(f, node[n])]
      OBVIOUS
    <3>5. Under(rank, m - 1) \subseteq Under(rank, m)
      BY <1>2, <2>0, <3>1 DEF Under, Live, Ranked
    <3>6. \A n \in Under(rank, m - 1) : g[n] = f[n]
      BY <3>3, <3>4, <3>5
    <3>7. ASSUME NEW n \in Under(rank, m) PROVE Unfolded(f, node[n]) = Unfolded(g, node[n])
      <4>1. node[n] \in AllData /\ \A k \in Refs(node[n]) : g[k] = f[k]
        BY <1>2, <2>0, <3>6, KidsUnder DEF HeapOK
      <4>2. QED
        BY <4>1, SameUnfolded
    <3>8. g = [n \in Under(rank, m) |-> Unfolded(g, node[n])]
      BY <3>4, <3>7
    <3>9. QED
      BY <3>8
  <2>3. QED
    BY <2>1, <2>2
<1>4. T = {}
  <2>1. T \in SUBSET Nat
    OBVIOUS
  <2> HIDE DEF T
  <2>2. QED
    BY <1>3, <2>1, Least
<1>5. Under(rank, b) = Live
  BY <1>2 DEF Under, Ranked, Live
<1>6. \E g : g = [n \in Live |-> Unfolded(g, node[n])]
  BY <1>4, <1>5
<1>7. QED
  BY <1>6, Zenon DEF Tree, TreeDefined

LEMMA TreeIs ==
  ASSUME HeapOK, NEW n \in Live
  PROVE  /\ Tree[n] = Unfolded(Tree, node[n])
         /\ Tree[n].label = node[n].label
         /\ DOMAIN Tree[n].fields = DOMAIN node[n].fields
         /\ \A i \in DOMAIN node[n].fields :
              /\ Tree[n].fields[i].variant = node[n].fields[i].variant
              /\ Tree[n].fields[i].ref = Tree[node[n].fields[i].ref]
<1>1. Tree[n] = Unfolded(Tree, node[n])
  BY TreeExists DEF TreeDefined
<1>2. PICK T, d : T = Tree /\ d = node[n]
  OBVIOUS
<1>3. PICK u : u = Unfolded(T, d)
  OBVIOUS
<1>4. /\ u.label = d.label /\ DOMAIN u.fields = DOMAIN d.fields
      /\ \A i \in DOMAIN d.fields : /\ u.fields[i].variant = d.fields[i].variant
                                   /\ u.fields[i].ref = T[d.fields[i].ref]
  BY ONLY <1>3 DEF Unfolded
<1>5. Tree[n] = u
  BY ONLY <1>1, <1>2, <1>3
<1>6. QED
  BY ONLY <1>1, <1>2, <1>4, <1>5

LEMMA SameData ==
  ASSUME NEW d \in AllData, NEW c \in AllData, d.label = c.label,
         \A i \in DOMAIN d.fields : d.fields[i].variant = c.fields[i].variant
                                    /\ d.fields[i].ref = c.fields[i].ref
  PROVE  d = c
<1>1. PICK D : D = 1 .. Len(Shape[d.label])
  OBVIOUS
<1>2. /\ d.fields \in [D -> [variant : Variants, ref : Nodes]]
      /\ c.fields \in [D -> [variant : Variants, ref : Nodes]]
      /\ d = [label |-> d.label, fields |-> d.fields] /\ c = [label |-> c.label, fields |-> c.fields]
  BY <1>1, DataIs
<1>3. \A i \in D : d.fields[i] = c.fields[i]
  <2>1. ASSUME NEW i \in D PROVE d.fields[i] = c.fields[i]
    <3>1. PICK x, y : x = d.fields[i] /\ y = c.fields[i]
      OBVIOUS
    <3>2. x \in [variant : Variants, ref : Nodes] /\ y \in [variant : Variants, ref : Nodes]
      BY <1>2, <3>1
    <3>3. x.variant = y.variant /\ x.ref = y.ref
      BY <1>2, <3>1
    <3>4. x = y
      BY ONLY <3>2, <3>3
    <3>5. QED
      BY <3>1, <3>4
  <2>2. QED
    BY <2>1
<1>4. d.fields = c.fields
  BY <1>2, <1>3
<1>5. QED
  BY <1>2, <1>4

(* Pointer equality is structural equality.                                *)
LEMMA TreeInjective ==
  ASSUME HeapOK, NEW n \in Live, NEW p \in Live, Tree[n] = Tree[p]
  PROVE  n = p
<1> DEFINE S == {x \in Live : \E y \in Live : y # x /\ Tree[y] = Tree[x]}
<1>1. S = {}
  <2>1. S \in SUBSET Live
    OBVIOUS
  <2>2. ASSUME NEW x \in S, \A k \in Kids(x) : k \notin S PROVE FALSE
    <3>1. x \in Live
      OBVIOUS
    <3>2. PICK y \in Live : y # x /\ Tree[y] = Tree[x]
      OBVIOUS
    <3>3. HeapTypeOK
      BY DEF HeapOK
    <3>4. PICK d, c : d = node[x] /\ c = node[y]
      OBVIOUS
    <3>5. /\ d \in AllData /\ c \in AllData
          /\ Refs(d) = Kids(x) /\ Refs(d) \subseteq Live /\ Refs(c) \subseteq Live
      BY <3>1, <3>3, <3>4, LiveIs
    <3>6. d.label = c.label /\ DOMAIN d.fields = DOMAIN c.fields
      BY <3>1, <3>2, <3>4, TreeIs
    <3>7. ASSUME NEW i \in DOMAIN d.fields
          PROVE  d.fields[i].variant = c.fields[i].variant /\ d.fields[i].ref = c.fields[i].ref
      <4>1. d.fields[i].ref \in Refs(d) /\ c.fields[i].ref \in Refs(c)
        BY <3>6 DEF Refs
      <4>2. /\ d.fields[i].variant = c.fields[i].variant
            /\ Tree[d.fields[i].ref] = Tree[c.fields[i].ref]
        BY <3>1, <3>2, <3>4, <3>6, TreeIs
      <4>3. d.fields[i].ref \notin S
        BY <2>2, <3>5, <4>1
      <4>4. QED
        BY <3>5, <4>1, <4>2, <4>3
    <3>8. d = c
      BY <3>5, <3>6, <3>7, SameData
    <3>9. QED
      BY <3>1, <3>2, <3>4, <3>8 DEF HeapOK, Unique
  <2> HIDE DEF S
  <2>3. QED
    BY <2>1, <2>2, Lowest
<1>2. QED
  BY <1>1

(* Nodes a step leaves alone, with all they refer to.                      *)
Keeps(C) ==
  /\ C \subseteq Live /\ C \subseteq Live'
  /\ \A n \in C : node'[n] = node[n] /\ Kids(n) \subseteq C

LEMMA GrowsKeeps == HeapOK /\ Grows => Keeps(Live)
  BY LiveIs DEF HeapOK, Grows, Keeps

LEMMA ExpireKeeps ==
  ASSUME HeapOK, NEW n \in Nodes, Expire(n)
  PROVE  Keeps(Live \ {n})
<1>1. Frees(n) /\ ~HeldByNode(n)
  BY ExpireOK DEF Expire
<1>2. \A p \in Live : Kids(p) \subseteq Live /\ n \notin Kids(p)
  BY <1>1, LiveIs DEF HeapOK, HeldByNode
<1>3. QED
  BY <1>1, <1>2 DEF Frees, Keeps

(* Interning and expiry do not change structures.                          *)
LEMMA TreeSame ==
  ASSUME HeapOK, HeapOK', NEW C, Keeps(C)
  PROVE  \A n \in C : Tree'[n] = Tree[n]
<1>0. C \subseteq Live /\ C \subseteq Live' /\ \A n \in C : node'[n] = node[n] /\ Kids(n) \subseteq C
  BY DEF Keeps
<1> DEFINE S == {n \in C : Tree'[n] # Tree[n]}
<1>1. S = {}
  <2>1. S \in SUBSET Live
    BY <1>0
  <2>2. ASSUME NEW n \in S, \A k \in Kids(n) : k \notin S PROVE FALSE
    <3>1. n \in Live /\ n \in Live' /\ n \in C
      BY <1>0
    <3>2. node[n] \in AllData /\ Kids(n) = Refs(node[n]) /\ node'[n] = node[n]
      BY <1>0, <3>1, LiveIs DEF HeapOK
    <3>3. Tree[n] = Unfolded(Tree, node[n])
      BY <3>1, TreeIs
    <3>4. (Tree[n] = Unfolded(Tree, node[n]))'
      <4>1. TreeDefined'
        BY TreeExists, PTL
      <4>2. QED
        BY <3>1, <4>1 DEF TreeDefined
    <3>5. \A k \in Refs(node[n]) : Tree'[k] = Tree[k]
      BY <1>0, <2>2, <3>1, <3>2
    <3>6. PICK F, G : F = Tree /\ G = Tree'
      OBVIOUS
    <3>7. Unfolded(F, node[n]) = Unfolded(G, node[n])
      BY <3>2, <3>5, <3>6, SameUnfolded
    <3>8. QED
      BY <3>2, <3>3, <3>4, <3>6, <3>7 DEF Unfolded
  <2> HIDE DEF S
  <2>3. QED
    BY <2>1, <2>2, Lowest
<1>2. QED
  BY <1>1

LEMMA KeptIs ==
  ASSUME HeapOK, HeapOK', NEW C, Keeps(C), NEW n \in C
  PROVE  /\ n \in Live /\ n \in Live' /\ n \in Nodes
         /\ node'[n] = node[n] /\ Type(n)' = Type(n) /\ Kids(n)' = Kids(n) /\ Tree'[n] = Tree[n]
<1>1. n \in Live /\ n \in Live' /\ node'[n] = node[n]
  BY DEF Keeps
<1>2. Type(n)' = Type(n) /\ Kids(n)' = Kids(n) /\ n \in Nodes
  BY <1>1 DEF Type, Kids, Live
<1>3. QED
  BY <1>1, <1>2, TreeSame
=============================================================================
