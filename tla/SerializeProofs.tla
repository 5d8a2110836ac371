-------------------------- MODULE SerializeProofs --------------------------
(***************************************************************************)
(* Archives round-trip, share, and are accepted exactly when they are      *)
(* well-formed, for any types, formats, archives of others and number of   *)
(* threads, however calls nest, fail and end.                              *)
(*                                                                         *)
(* The invariant is about each call a thread is in.  One that writes has   *)
(* encoded the first of the nodes it collected, which live because its     *)
(* roots are held (WriterOK).  One that reads has a session whose k-th     *)
(* node is what the k-th entry denotes (ReaderOK).  A thread is in at most *)
(* one call of a kind, so calls made from within leave the session alone   *)
(* (CallsOK).  What was written has a meaning apart from the heap          *)
(* (WrittenOK), which therefore survives whatever the heap becomes.        *)
(*                                                                         *)
(* The last part is about Expand, whose builds write and read archives:    *)
(* what the fingerprint in the header stands for, and what a build uses.   *)
(***************************************************************************)
EXTENDS Serialize, Expand, HeapProofs, SequenceTheorems

(* Facts about sequences over no particular set.                          *)
LEMMA SeqIs ==
  ASSUME NEW s, IsSeq(s)
  PROVE  \E S : s \in Seq(S) /\ DOMAIN s = 1 .. Len(s) /\ \A i \in 1 .. Len(s) : s[i] \in S
<1>1. PICK m, S : m \in Nat /\ m = Len(s) /\ S = {s[i] : i \in 1 .. m}
  BY DEF IsSeq
<1>2. s = [i \in 1 .. m |-> s[i]] /\ \A i \in 1 .. m : s[i] \in S
  BY <1>1 DEF IsSeq
<1>3. s \in [1 .. m -> S]
  BY <1>2
<1>4. s \in Seq(S)
  BY <1>1, <1>3, FunctionIsSeq
<1>5. QED
  BY <1>1, <1>2, <1>4

LEMMA SeqIsSeq ==
  ASSUME NEW S, NEW s \in Seq(S)
  PROVE  IsSeq(s) /\ DOMAIN s = 1 .. Len(s) /\ Range(s) = {s[i] : i \in 1 .. Len(s)} /\ Range(s) \subseteq S
<1>1. Len(s) \in Nat /\ DOMAIN s = 1 .. Len(s) /\ \A i \in 1 .. Len(s) : s[i] \in S
  OBVIOUS
<1>2. s = [i \in 1 .. Len(s) |-> s[i]]
  BY <1>1
<1>3. QED
  BY <1>1, <1>2 DEF IsSeq, Range

LEMMA AppendSeq ==
  ASSUME NEW s, IsSeq(s), NEW e
  PROVE  /\ IsSeq(Append(s, e)) /\ Len(Append(s, e)) = Len(s) + 1 /\ Append(s, e) # <<>>
         /\ Append(s, e)[Len(s) + 1] = e /\ \A i \in 1 .. Len(s) : Append(s, e)[i] = s[i]
<1>1. PICK S : s \in Seq(S) /\ \A i \in 1 .. Len(s) : s[i] \in S
  BY SeqIs
<1>2. PICK T : T = S \cup {e}
  OBVIOUS
<1>3. s \in Seq(T) /\ e \in T
  <2>1. S \subseteq T /\ e \in T
    BY <1>2
  <2>2. QED
    BY <1>1, <2>1
<1>4. /\ Append(s, e) \in Seq(T) /\ Append(s, e) # <<>> /\ Len(Append(s, e)) = Len(s) + 1
      /\ Append(s, e)[Len(s) + 1] = e /\ \A i \in 1 .. Len(s) : Append(s, e)[i] = s[i]
  BY <1>3, AppendProperties
<1>5. QED
  BY <1>4, SeqIsSeq

LEMMA FrontSeq ==
  ASSUME NEW s, IsSeq(s), s # <<>>
  PROVE  /\ Len(s) > 0 /\ IsSeq(Front(s)) /\ Len(Front(s)) = Len(s) - 1
         /\ \A i \in 1 .. Len(s) - 1 : Front(s)[i] = s[i]
<1>1. PICK S : s \in Seq(S)
  BY SeqIs, Zenon
<1>2. PICK m \in Nat : m = Len(s) /\ m > 0
  BY <1>1
<1>3. PICK r : r = SubSeq(s, 1, m - 1)
  OBVIOUS
<1>4. r \in Seq(S) /\ Len(r) = m - 1 /\ \A i \in 1 .. m - 1 : r[i] = s[i]
  BY <1>1, <1>2, <1>3
<1>5. IsSeq(r)
  BY <1>4, SeqIsSeq
<1>6. Front(s) = r
  BY <1>2, <1>3 DEF Front
<1>7. QED
  BY <1>2, <1>4, <1>5, <1>6

Updated(s, i, e) == [s EXCEPT ![i] = e]
LEMMA UpdatedSeq ==
  ASSUME NEW s, IsSeq(s), NEW i \in 1 .. Len(s), NEW e
  PROVE  /\ IsSeq(Updated(s, i, e)) /\ Len(Updated(s, i, e)) = Len(s)
         /\ Updated(s, i, e)[i] = e /\ \A j \in 1 .. Len(s) : j # i => Updated(s, i, e)[j] = s[j]
<1>1. PICK S : s \in Seq(S)
  <2>1. IsSeq(s)
    OBVIOUS
  <2>2. QED
    BY ONLY <2>1, SeqIs, Zenon
<1>2. PICK m, T, r : m = Len(s) /\ T = S \cup {e} /\ r = [s EXCEPT ![i] = e]
  OBVIOUS
<1>3. m \in Nat /\ s \in [1 .. m -> S]
  BY <1>1, <1>2
<1>4. r \in [1 .. m -> T] /\ r[i] = e /\ \A j \in 1 .. m : j # i => r[j] = s[j]
  BY <1>2, <1>3
<1>5. r \in Seq(T) /\ Len(r) = m
  BY <1>3, <1>4, FunctionIsSeq
<1>6. IsSeq(r)
  BY <1>5, SeqIsSeq
<1>7. QED
  BY <1>2, <1>4, <1>5, <1>6, Zenon DEF Updated

-----------------------------------------------------------------------------
(***************************************************************************)
(* What an archive denotes.                                                *)
(***************************************************************************)
(* References go backwards.                                                *)
Backwards(nodes) ==
  \A k \in 1 .. Len(nodes) : \A i \in DOMAIN nodes[k].fields :
    nodes[k].fields[i].index \in Nat /\ nodes[k].fields[i].index + 1 < k

LEMMA DenotesIs ==
  ASSUME NEW nodes, IsSeq(nodes), Backwards(nodes),
         NEW F, F = [k \in 1 .. Len(nodes) |-> Denoted(F, nodes[k])]
  PROVE  Denotes(nodes) = F
<1>1. PICK m \in Nat : m = Len(nodes) /\ DOMAIN nodes = 1 .. m
  BY SeqIs DEF IsSeq
<1>2. F = [k \in DOMAIN nodes |-> Denoted(F, nodes[k])]
  BY <1>1
<1>3. PICK G : G = Denotes(nodes)
  OBVIOUS
<1>4. G = [k \in DOMAIN nodes |-> Denoted(G, nodes[k])]
  BY <1>2, <1>3, Zenon DEF Denotes
<1> DEFINE T == {k \in 1 .. m : F[k] # G[k]}
<1>5. T = {}
  <2>1. T \in SUBSET Nat
    OBVIOUS
  <2>2. ASSUME NEW k \in T, \A j \in T : k <= j PROVE FALSE
    <3>1. k \in 1 .. m /\ F[k] # G[k]
      OBVIOUS
    <3>2. PICK e : e = nodes[k]
      OBVIOUS
    <3>3. ASSUME NEW i \in DOMAIN e.fields
          PROVE  F[e.fields[i].index + 1] = G[e.fields[i].index + 1]
      <4>1. PICK j : j = e.fields[i].index + 1
        OBVIOUS
      <4>2. j \in 1 .. m /\ j < k
        BY <1>1, <3>1, <3>2, <4>1 DEF Backwards
      <4>3. j \notin T
        BY <2>2, <3>1, <4>2
      <4>4. QED
        BY <4>1, <4>2, <4>3
    <3>4. [i \in DOMAIN e.fields |-> [variant |-> e.fields[i].variant, ref |-> F[e.fields[i].index + 1]]]
          = [i \in DOMAIN e.fields |-> [variant |-> e.fields[i].variant, ref |-> G[e.fields[i].index + 1]]]
      BY <3>3
    <3>5. Denoted(F, e) = Denoted(G, e)
      BY <3>4 DEF Denoted
    <3>6. F[k] = Denoted(F, e) /\ G[k] = Denoted(G, e)
      BY <1>1, <1>2, <1>4, <3>1, <3>2
    <3>7. QED
      BY <3>1, <3>5, <3>6
  <2> HIDE DEF T
  <2>3. QED
    BY <2>1, <2>2, Least
<1>6. F = G
  BY <1>1, <1>2, <1>4, <1>5
<1>7. QED
  BY <1>3, <1>6
-----------------------------------------------------------------------------
(***************************************************************************)
(* What hirpdag_collect collects.                                          *)
(***************************************************************************)
Steps(c, ns, seen, u, m) ==
  u = [i \in 0 .. m |-> IF i = 0 THEN seen ELSE c[ns[i]][u[i - 1]]]

LEMMA StepsExist ==
  ASSUME NEW c, NEW ns, NEW seen, NEW m \in Nat
  PROVE  \E u : Steps(c, ns, seen, u, m)
<1> DEFINE T == {k \in Nat : ~\E u : Steps(c, ns, seen, u, k)}
<1>1. ASSUME NEW k \in T, \A j \in T : k <= j PROVE FALSE
  <2>0. k \in Nat
    OBVIOUS
  <2>1. CASE k = 0
    <3>1. PICK u : u = [i \in 0 .. k |-> seen]
      OBVIOUS
    <3>2. \A i \in 0 .. k : i = 0
      BY <2>1
    <3>3. u = [i \in 0 .. k |-> IF i = 0 THEN seen ELSE c[ns[i]][u[i - 1]]]
      BY <3>1, <3>2
    <3>4. QED
      BY <3>3 DEF Steps
  <2>2. CASE k # 0
    <3>1. k - 1 \in Nat /\ k - 1 < k
      BY <2>0, <2>2
    <3>2. PICK v : Steps(c, ns, seen, v, k - 1)
      BY <1>1, <3>1
    <3>3. PICK u : u = [i \in 0 .. k |-> IF i = 0 THEN seen ELSE c[ns[i]][v[i - 1]]]
      OBVIOUS
    <3>4. ASSUME NEW i \in 0 .. k - 1 PROVE u[i] = v[i] /\ i \in 0 .. k
      <4>1. i \in 0 .. k
        BY <2>0
      <4>2. u[i] = IF i = 0 THEN seen ELSE c[ns[i]][v[i - 1]]
        BY ONLY <3>3, <4>1
      <4>3. v[i] = IF i = 0 THEN seen ELSE c[ns[i]][v[i - 1]]
        BY <3>2 DEF Steps
      <4>4. QED
        BY ONLY <4>1, <4>2, <4>3
    <3>5. \A i \in 0 .. k : i # 0 => i - 1 \in 0 .. k - 1
      BY <2>0
    <3>6. \A i \in 0 .. k : i # 0 => u[i - 1] = v[i - 1]
      BY <3>4, <3>5
    <3>7. u = [i \in 0 .. k |-> IF i = 0 THEN seen ELSE c[ns[i]][u[i - 1]]]
      BY <3>3, <3>6
    <3>8. QED
      BY <3>7 DEF Steps
  <2>3. QED
    BY <2>1, <2>2
<1>2. T = {}
  <2>1. T \in SUBSET Nat
    OBVIOUS
  <2> HIDE DEF T
  <2>2. QED
    BY <1>1, <2>1, Least
<1>3. QED
  BY <1>2

LEMMA StepsOnce ==
  ASSUME NEW c, NEW d, NEW ns, NEW seen, NEW u, NEW v, NEW m \in Nat,
         Steps(c, ns, seen, u, m), Steps(d, ns, seen, v, m),
         \A i \in 1 .. m : c[ns[i]] = d[ns[i]]
  PROVE  u = v
<1> DEFINE T == {i \in 0 .. m : u[i] # v[i]}
<1>1. T = {}
  <2>1. T \in SUBSET Nat
    OBVIOUS
  <2>2. ASSUME NEW i \in T, \A j \in T : i <= j PROVE FALSE
    <3>1. i \in 0 .. m /\ u[i] # v[i]
      OBVIOUS
    <3>2. CASE i = 0
      BY <3>1, <3>2 DEF Steps
    <3>3. CASE i # 0
      <4>1. i - 1 \in 0 .. m /\ i - 1 < i /\ i \in 1 .. m
        BY <3>1, <3>3
      <4>2. i - 1 \notin T
        BY <2>2, <3>1, <4>1
      <4>3. u[i - 1] = v[i - 1]
        BY <4>1, <4>2
      <4>4. u[i] = c[ns[i]][u[i - 1]] /\ v[i] = d[ns[i]][v[i - 1]]
        BY <3>1, <3>3 DEF Steps
      <4>5. QED
        BY <3>1, <4>1, <4>3, <4>4
    <3>4. QED
      BY <3>2, <3>3
  <2> HIDE DEF T
  <2>3. QED
    BY <2>1, <2>2, Least
<1>2. \A i \in 0 .. m : u[i] = v[i]
  BY <1>1
<1>3. QED
  BY <1>2 DEF Steps

LEMMA ThroughIs ==
  ASSUME NEW c, NEW ns, NEW seen, Len(ns) \in Nat
  PROVE  \E u : Steps(c, ns, seen, u, Len(ns)) /\ Through(c, ns, seen) = u[Len(ns)]
<1>1. PICK m \in Nat : m = Len(ns)
  OBVIOUS
<1>2. PICK u : Steps(c, ns, seen, u, m)
  BY StepsExist
<1>3. PICK w : w = CHOOSE v : v = [i \in 0 .. m |-> IF i = 0 THEN seen ELSE c[ns[i]][v[i - 1]]]
  OBVIOUS
<1>4. Steps(c, ns, seen, w, m)
  BY <1>2, <1>3, Zenon DEF Steps
<1>5. Through(c, ns, seen) = w[m]
  BY <1>1, <1>3, Zenon DEF Through
<1>6. QED
  BY <1>1, <1>4, <1>5

LEMMA ThroughSame ==
  ASSUME NEW c, NEW d, NEW ns, NEW seen, Len(ns) \in Nat, \A i \in 1 .. Len(ns) : c[ns[i]] = d[ns[i]]
  PROVE  Through(c, ns, seen) = Through(d, ns, seen)
<1>0. Len(ns) \in Nat
  OBVIOUS
<1>1. PICK u : Steps(c, ns, seen, u, Len(ns)) /\ Through(c, ns, seen) = u[Len(ns)]
  BY ONLY <1>0, ThroughIs, Zenon
<1>2. PICK v : Steps(d, ns, seen, v, Len(ns)) /\ Through(d, ns, seen) = v[Len(ns)]
  BY ONLY <1>0, ThroughIs, Zenon
<1>3. u = v
  BY <1>1, <1>2, StepsOnce
<1>4. QED
  BY <1>1, <1>2, <1>3

LEMMA FieldRefsIs ==
  ASSUME HeapTypeOK, NEW n \in Live
  PROVE  /\ IsSeq(FieldRefs(n)) /\ FieldRefs(n) \in Seq(Live)
         /\ Len(FieldRefs(n)) = Len(node[n].fields) /\ DOMAIN node[n].fields = 1 .. Len(node[n].fields)
         /\ \A i \in 1 .. Len(FieldRefs(n)) : FieldRefs(n)[i] \in Kids(n)
         /\ Kids(n) = {FieldRefs(n)[i] : i \in 1 .. Len(FieldRefs(n))}
<1>1. node[n] \in AllData /\ Kids(n) = Refs(node[n]) /\ Kids(n) \subseteq Live
  BY LiveIs
<1>2. PICK m \in Nat : DOMAIN node[n].fields = 1 .. m /\ Len(node[n].fields) = m
  BY <1>1, DataIs, DataFields
<1>3. FieldRefs(n) = [i \in 1 .. m |-> node[n].fields[i].ref]
  BY <1>2 DEF FieldRefs
<1>4. Kids(n) = {node[n].fields[i].ref : i \in 1 .. m}
  BY <1>1, <1>2 DEF Refs
<1>5. PICK f : f = FieldRefs(n)
  OBVIOUS
<1>6. f \in [1 .. m -> Live] /\ \A i \in 1 .. m : f[i] = node[n].fields[i].ref
  BY <1>1, <1>3, <1>4, <1>5
<1>7. f \in Seq(Live) /\ Len(f) = m
  BY <1>6, FunctionIsSeq
<1>8. IsSeq(f)
  BY <1>7, SeqIsSeq
<1>9. QED
  BY <1>2, <1>4, <1>5, <1>6, <1>7, <1>8

LEMMA SameCollected ==
  ASSUME HeapTypeOK, NEW n \in Live, NEW F, NEW G, \A k \in Kids(n) : F[k] = G[k]
  PROVE  Collected(F, n) = Collected(G, n)
<1>1. PICK ns : ns = FieldRefs(n)
  OBVIOUS
<1>2. Len(ns) \in Nat /\ \A i \in 1 .. Len(ns) : F[ns[i]] = G[ns[i]]
  BY <1>1, FieldRefsIs
<1>3. \A nodes : Through(F, ns, nodes) = Through(G, ns, nodes)
  BY <1>2, ThroughSame
<1>4. [nodes \in Seq(Live) |-> IF Seen(n, nodes) THEN nodes ELSE Append(Through(F, ns, nodes), n)]
    = [nodes \in Seq(Live) |-> IF Seen(n, nodes) THEN nodes ELSE Append(Through(G, ns, nodes), n)]
  BY <1>3
<1>5. QED
  BY <1>1, <1>4 DEF Collected

CollectDefined == Collect = [n \in Live |-> Collected(Collect, n)]
LEMMA CollectExists == HeapOK => CollectDefined
<1> SUFFICES ASSUME HeapOK
             PROVE  CollectDefined
  OBVIOUS
<1>1. PICK b \in Nat : \E rank : Ranked(rank, b)
  BY DEF HeapOK, Acyclic
<1>2. PICK rank : Ranked(rank, b)
  BY <1>1
<1>3. HeapTypeOK
  BY DEF HeapOK
<1> DEFINE G(m) == \E g : g = [n \in Under(rank, m) |-> Collected(g, n)]
           T == {m \in Nat : ~G(m)}
<1>4. ASSUME NEW m \in T, \A k \in T : m <= k PROVE FALSE
  <2>0. m \in Nat
    OBVIOUS
  <2>1. CASE m = 0
    <3>1. Under(rank, m) = {}
      BY <1>2, <2>0, <2>1 DEF Under, Live, Ranked
    <3>2. [n \in Under(rank, m) |-> 0] = [n \in Under(rank, m) |-> Collected([p \in Under(rank, m) |-> 0], n)]
      BY <3>1
    <3>3. QED
      BY <3>2
  <2>2. CASE m # 0
    <3>1. m - 1 \in Nat /\ m - 1 < m
      BY <2>0, <2>2
    <3>2. G(m - 1)
      BY <1>4, <3>1
    <3>3. PICK f : f = [n \in Under(rank, m - 1) |-> Collected(f, n)]
      BY <3>2
    <3>4. PICK g : g = [n \in Under(rank, m) |-> Collected(f, n)]
      OBVIOUS
    <3>5. Under(rank, m - 1) \subseteq Under(rank, m)
      BY <1>2, <2>0, <3>1 DEF Under, Live, Ranked
    <3>6. \A n \in Under(rank, m - 1) : g[n] = f[n]
      BY <3>3, <3>4, <3>5
    <3>7. ASSUME NEW n \in Under(rank, m) PROVE Collected(f, n) = Collected(g, n)
      <4>1. n \in Live /\ \A k \in Kids(n) : g[k] = f[k]
        BY <1>2, <1>3, <2>0, <3>6, KidsUnder DEF Under
      <4>2. QED
        BY <1>3, <4>1, SameCollected
    <3>8. g = [n \in Under(rank, m) |-> Collected(g, n)]
      BY <3>4, <3>7
    <3>9. QED
      BY <3>8
  <2>3. QED
    BY <2>1, <2>2
<1>5. T = {}
  <2>1. T \in SUBSET Nat
    OBVIOUS
  <2> HIDE DEF T
  <2>2. QED
    BY <1>4, <2>1, Least
<1>6. Under(rank, b) = Live
  BY <1>2 DEF Under, Ranked, Live
<1>7. \E g : g = [n \in Live |-> Collected(g, n)]
  BY <1>5, <1>6
<1>8. QED
  BY <1>7, Zenon DEF Collect, CollectDefined

(* A list of nodes as serialize goes through it.                           *)
Among(n, nodes) == \E i \in 1 .. Len(nodes) : nodes[i] = n

Listed(nodes) ==
  /\ nodes \in Seq(Live)
  /\ \A i, j \in 1 .. Len(nodes) : nodes[i] = nodes[j] => i = j
  /\ \A k \in 1 .. Len(nodes) : \A c \in Kids(nodes[k]) : \E j \in 1 .. k - 1 : nodes[j] = c

(* Collecting below R what is not in nodes yet makes more of nodes.        *)
Gathers(rank, b, R, nodes, more) ==
  /\ Listed(more)
  /\ Len(nodes) <= Len(more) /\ \A i \in 1 .. Len(nodes) : more[i] = nodes[i]
  /\ \A n \in R : Among(n, more)
  /\ \A k \in Len(nodes) + 1 .. Len(more) :
        /\ rank[more[k]] < b
        /\ more[k] \in R \/ \E p \in 1 .. Len(more) : more[k] \in Kids(more[p])

LEMMA GathersNone ==
  ASSUME NEW rank, NEW b, NEW nodes, Listed(nodes), NEW R, \A n \in R : Among(n, nodes)
  PROVE  Gathers(rank, b, R, nodes, nodes)
<1>1. Len(nodes) \in Nat
  BY DEF Listed
<1>2. \A k \in Len(nodes) + 1 .. Len(nodes) : FALSE
  BY <1>1
<1>3. QED
  BY <1>1, <1>2 DEF Gathers

LEMMA GathersOn ==
  ASSUME NEW rank, NEW b, NEW R, NEW S, NEW x, Listed(x), NEW y, NEW z,
         Gathers(rank, b, R, x, y), Gathers(rank, b, S, y, z)
  PROVE  Gathers(rank, b, R \cup S, x, z)
<1>1. PICK l \in Nat, m \in Nat, n \in Nat : l = Len(x) /\ m = Len(y) /\ n = Len(z)
  BY DEF Gathers, Listed
<1>2. l <= m /\ m <= n
  BY <1>1 DEF Gathers
<1>3. \A i \in 1 .. m : i \in 1 .. n /\ z[i] = y[i]
  BY <1>1, <1>2 DEF Gathers
<1>4. \A i \in 1 .. l : z[i] = x[i]
  <2>1. \A i \in 1 .. l : i \in 1 .. m /\ y[i] = x[i]
    BY <1>1, <1>2 DEF Gathers
  <2>2. QED
    BY <1>3, <2>1
<1>5. \A k \in R \cup S : Among(k, z)
  <2>1. ASSUME NEW k \in R PROVE Among(k, z)
    <3>1. PICK i \in 1 .. m : y[i] = k
      BY <1>1 DEF Gathers, Among
    <3>2. i \in 1 .. n /\ z[i] = k
      BY <1>3, <3>1
    <3>3. QED
      BY <1>1, <3>2 DEF Among
  <2>2. \A k \in S : Among(k, z)
    BY DEF Gathers
  <2>3. QED
    BY <2>1, <2>2
<1>6. ASSUME NEW k \in l + 1 .. n
      PROVE  /\ rank[z[k]] < b
             /\ z[k] \in R \cup S \/ \E p \in 1 .. n : z[k] \in Kids(z[p])
  <2>1. CASE k <= m
    <3>1. k \in l + 1 .. m /\ k \in 1 .. m
      BY <1>1, <2>1
    <3>2. rank[y[k]] < b /\ (y[k] \in R \/ \E p \in 1 .. m : y[k] \in Kids(y[p]))
      BY <1>1, <3>1 DEF Gathers
    <3>3. QED
      BY <1>3, <3>1, <3>2
  <2>2. CASE ~(k <= m)
    <3>1. k \in m + 1 .. n
      BY <1>1, <2>2
    <3>2. QED
      BY <1>1, <3>1 DEF Gathers
  <2>3. QED
    BY <2>1, <2>2
<1>7. Listed(z)
  BY DEF Gathers
<1>8. QED
  BY <1>1, <1>2, <1>4, <1>5, <1>6, <1>7 DEF Gathers

(* One after the other.                                                    *)
EachGathers(rank, b, R, c, ns) ==
  \A i \in 1 .. Len(ns) : \A x : Listed(x) => Gathers(rank, b, R[ns[i]], x, c[ns[i]][x])

AllOf(R, ns) == UNION {R[ns[i]] : i \in 1 .. Len(ns)}

LEMMA GathersThrough ==
  ASSUME NEW rank, NEW b, NEW c, NEW R, NEW ns, Len(ns) \in Nat, EachGathers(rank, b, R, c, ns),
         NEW seen, Listed(seen)
  PROVE  Gathers(rank, b, AllOf(R, ns), seen, Through(c, ns, seen))
<1>1. PICK m \in Nat : m = Len(ns)
  OBVIOUS
<1>2. PICK u : Steps(c, ns, seen, u, Len(ns)) /\ Through(c, ns, seen) = u[Len(ns)]
  BY ThroughIs, Zenon
<1> DEFINE U(k) == UNION {R[ns[i]] : i \in 1 .. k}
           T == {k \in 0 .. m : ~Gathers(rank, b, U(k), seen, u[k])}
<1> HIDE DEF U
<1>3. T = {}
  <2>1. T \in SUBSET Nat
    OBVIOUS
  <2>2. ASSUME NEW k \in T, \A j \in T : k <= j PROVE FALSE
    <3>1. k \in 0 .. m /\ ~Gathers(rank, b, U(k), seen, u[k])
      OBVIOUS
    <3>2. CASE k = 0
      <4>1. u[k] = seen
        BY <1>1, <1>2, <3>1, <3>2 DEF Steps
      <4>2. U(k) = {}
        BY <3>2 DEF U
      <4>3. Gathers(rank, b, {}, seen, seen)
        BY GathersNone
      <4>4. QED
        BY <3>1, <4>1, <4>2, <4>3
    <3>3. CASE k # 0
      <4>1. k - 1 \in 0 .. m /\ k - 1 < k /\ k \in 1 .. m
        BY <3>1, <3>3
      <4>2. k - 1 \notin T
        BY <2>2, <3>1, <4>1
      <4>3. Gathers(rank, b, U(k - 1), seen, u[k - 1])
        BY <4>1, <4>2
      <4>4. u[k] = c[ns[k]][u[k - 1]]
        BY <1>1, <1>2, <3>1, <3>3 DEF Steps
      <4>5. Listed(u[k - 1])
        BY <4>3 DEF Gathers
      <4>6. Gathers(rank, b, R[ns[k]], u[k - 1], u[k])
        BY <1>1, <4>1, <4>4, <4>5 DEF EachGathers
      <4>7. Gathers(rank, b, U(k - 1) \cup R[ns[k]], seen, u[k])
        BY <4>3, <4>6, GathersOn
      <4>8. U(k) = U(k - 1) \cup R[ns[k]]
        <5>1. 1 .. k = (1 .. k - 1) \cup {k}
          BY <4>1
        <5>2. QED
          BY <5>1 DEF U
      <4>9. QED
        BY <3>1, <4>7, <4>8
    <3>4. QED
      BY <3>2, <3>3
  <2> HIDE DEF T
  <2>3. QED
    BY <2>1, <2>2, Least
<1>4. Gathers(rank, b, U(m), seen, u[m])
  BY <1>1, <1>3
<1>5. QED
  BY <1>1, <1>2, <1>4 DEF U, AllOf

LEMMA GathersBelow ==
  ASSUME HeapOK, NEW rank, NEW d \in Nat, Ranked(rank, d), NEW b \in Nat, NEW a \in Nat, a <= b,
         NEW R, NEW x, Listed(x), NEW y, Gathers(rank, a, R, x, y)
  PROVE  Gathers(rank, b, R, x, y)
<1>1. Len(x) \in Nat /\ Len(y) \in Nat /\ y \in Seq(Live)
  BY DEF Gathers, Listed
<1>2. \A k \in Len(x) + 1 .. Len(y) : y[k] \in Live
  BY <1>1
<1>3. \A n \in Live : rank[n] \in Nat
  BY DEF Ranked, Live
<1>4. ASSUME NEW k \in Len(x) + 1 .. Len(y) PROVE rank[y[k]] < b
  <2>1. rank[y[k]] \in Nat /\ rank[y[k]] < a
    BY <1>2, <1>3 DEF Gathers
  <2>2. QED
    BY <2>1
<1>5. QED
  BY <1>4 DEF Gathers

(* What n adds: what is below it and was not there, then n itself.         *)
LEMMA GathersWith ==
  ASSUME HeapOK, NEW rank, NEW d \in Nat, Ranked(rank, d), NEW n \in Live,
         NEW x, Listed(x), ~Among(n, x), NEW y, Gathers(rank, rank[n], Kids(n), x, y)
  PROVE  Gathers(rank, rank[n] + 1, {n}, x, Append(y, n))
<1>0. PICK z : z = Append(y, n)
  OBVIOUS
<1>1. PICK l \in Nat, m \in Nat : l = Len(x) /\ m = Len(y)
  BY DEF Gathers, Listed
<1>2. l <= m /\ y \in Seq(Live) /\ Listed(y)
  BY <1>1 DEF Gathers, Listed
<1>3. z \in Seq(Live) /\ Len(z) = m + 1 /\ z[m + 1] = n /\ \A i \in 1 .. m : z[i] = y[i]
  BY <1>0, <1>1, <1>2, AppendProperties
<1>4. \A k \in Live : rank[k] \in Nat
  BY DEF Ranked, Live
<1>5. \A i \in 1 .. m : y[i] # n
  <2>1. ASSUME NEW i \in 1 .. m, y[i] = n PROVE FALSE
    <3>1. CASE i <= l
      <4>1. i \in 1 .. l
        BY <3>1
      <4>2. x[i] = n
        BY <1>1, <2>1, <4>1 DEF Gathers
      <4>3. QED
        BY <1>1, <4>1, <4>2 DEF Among
    <3>2. CASE ~(i <= l)
      <4>1. i \in l + 1 .. m
        BY <1>1, <3>2
      <4>2. rank[y[i]] < rank[n]
        BY <1>1, <4>1 DEF Gathers
      <4>3. QED
        BY <1>4, <2>1, <4>2
    <3>3. QED
      BY <3>1, <3>2
  <2>2. QED
    BY <2>1
<1>6. Listed(z)
  <2>1. \A i, j \in 1 .. m : y[i] = y[j] => i = j
    BY <1>1, <1>2 DEF Listed
  <2>2. \A i, j \in 1 .. m + 1 : z[i] = z[j] => i = j
    BY <1>3, <1>5, <2>1
  <2>3. ASSUME NEW k \in 1 .. m + 1, NEW c \in Kids(z[k]) PROVE \E j \in 1 .. k - 1 : z[j] = c
    <3>1. CASE k = m + 1
      <4>1. c \in Kids(n)
        BY <1>3, <3>1
      <4>2. PICK j \in 1 .. m : y[j] = c
        BY <1>1, <4>1 DEF Gathers, Among
      <4>3. j \in 1 .. k - 1 /\ z[j] = c
        BY <1>3, <3>1, <4>2
      <4>4. QED
        BY <4>3
    <3>2. CASE k # m + 1
      <4>1. k \in 1 .. m /\ c \in Kids(y[k])
        BY <1>3, <3>2
      <4>2. PICK j \in 1 .. k - 1 : y[j] = c
        BY <1>1, <1>2, <4>1 DEF Listed
      <4>3. j \in 1 .. m
        BY <4>1
      <4>4. QED
        BY <1>3, <4>2, <4>3
    <3>3. QED
      BY <3>1, <3>2
  <2>4. QED
    BY <1>3, <2>2, <2>3 DEF Listed
<1>7. \A i \in 1 .. l : z[i] = x[i]
  <2>1. \A i \in 1 .. l : i \in 1 .. m /\ y[i] = x[i]
    BY <1>1, <1>2 DEF Gathers
  <2>2. QED
    BY <1>3, <2>1
<1>8. Among(n, z)
  BY <1>3 DEF Among
<1>9. ASSUME NEW k \in l + 1 .. m + 1
      PROVE  /\ rank[z[k]] < rank[n] + 1
             /\ z[k] = n \/ \E p \in 1 .. m + 1 : z[k] \in Kids(z[p])
  <2>1. CASE k = m + 1
    <3>1. z[k] = n /\ rank[n] \in Nat
      BY <1>3, <1>4, <2>1
    <3>2. QED
      BY <3>1
  <2>2. CASE k # m + 1
    <3>1. k \in l + 1 .. m /\ k \in 1 .. m
      BY <1>1, <2>2
    <3>2. PICK e : e = y[k] /\ e = z[k] /\ e \in Live
      BY <1>2, <1>1, <1>3, <3>1
    <3>3. rank[e] < rank[n] /\ (e \in Kids(n) \/ \E p \in 1 .. m : e \in Kids(y[p]))
      BY <1>1, <3>1, <3>2 DEF Gathers
    <3>4. rank[e] \in Nat /\ rank[n] \in Nat
      BY <1>4, <3>2
    <3>5. rank[e] < rank[n] + 1
      BY <3>3, <3>4
    <3>6. \E p \in 1 .. m + 1 : e \in Kids(z[p])
      <4>1. m + 1 \in 1 .. m + 1 /\ \A p \in 1 .. m : p \in 1 .. m + 1
        BY <1>1
      <4>2. QED
        BY <1>3, <3>3, <4>1
    <3>7. QED
      BY <3>2, <3>5, <3>6
  <2>3. QED
    BY <2>1, <2>2
<1>10. Len(x) <= Len(z)
  BY <1>1, <1>2, <1>3
<1>11. QED
  BY <1>0, <1>1, <1>3, <1>6, <1>7, <1>8, <1>9, <1>10 DEF Gathers

LEMMA CollectGathers ==
  ASSUME HeapOK, NEW rank, NEW b \in Nat, Ranked(rank, b), NEW n \in Live, NEW x, Listed(x)
  PROVE  Gathers(rank, b, {n}, x, Collect[n][x])
<1> DEFINE Good(k) == \A y : Listed(y) => Gathers(rank, rank[k] + 1, {k}, y, Collect[k][y])
           S == {k \in Live : ~Good(k)}
<1> HIDE DEF Good
<1>1. HeapTypeOK /\ \A k \in Live : rank[k] \in Nat /\ rank[k] < b
  BY DEF HeapOK, Ranked, Live
<1>2. S = {}
  <2>1. S \in SUBSET Live
    OBVIOUS
  <2>2. ASSUME NEW p \in S, \A k \in Kids(p) : k \notin S PROVE FALSE
    <3>1. p \in Live /\ ~Good(p)
      OBVIOUS
    <3>2. \A k \in Kids(p) : k \in Live /\ Good(k) /\ rank[k] < rank[p]
      <4>1. Kids(p) \subseteq Live
        BY <1>1, <3>1, LiveIs
      <4>2. QED
        BY <2>2, <3>1, <4>1 DEF Ranked
    <3>3. ASSUME NEW y, Listed(y) PROVE Gathers(rank, rank[p] + 1, {p}, y, Collect[p][y])
      <4>1. Collect[p] = Collected(Collect, p)
        BY <3>1, CollectExists DEF CollectDefined
      <4>2. Collect[p][y] = IF Seen(p, y) THEN y ELSE Append(Through(Collect, FieldRefs(p), y), p)
        BY <3>3, <4>1 DEF Collected, Listed
      <4>3. Seen(p, y) <=> Among(p, y)
        <5>1. DOMAIN y = 1 .. Len(y)
          BY <3>3 DEF Listed
        <5>2. QED
          BY <5>1 DEF Seen, Among
      <4>4. CASE Among(p, y)
        <5>1. Gathers(rank, rank[p] + 1, {p}, y, y)
          BY <3>3, <4>4, GathersNone
        <5>2. QED
          BY <4>2, <4>3, <4>4, <5>1
      <4>5. CASE ~Among(p, y)
        <5> DEFINE ns == FieldRefs(p)
        <5>1. PICK R : R = [k \in Live |-> {k}]
          OBVIOUS
        <5>2. /\ Len(ns) \in Nat /\ \A i \in 1 .. Len(ns) : ns[i] \in Kids(p)
              /\ Kids(p) = {ns[i] : i \in 1 .. Len(ns)}
          <6>1. IsSeq(ns)
            BY <1>1, <3>1, FieldRefsIs
          <6>2. QED
            BY <1>1, <3>1, <6>1, FieldRefsIs, Zenon DEF IsSeq
        <5> HIDE DEF ns
        <5>3. Kids(p) = AllOf(R, ns)
          BY <3>2, <5>1, <5>2 DEF AllOf
        <5>4. ASSUME NEW i \in 1 .. Len(ns), NEW w, Listed(w)
              PROVE  Gathers(rank, rank[p], R[ns[i]], w, Collect[ns[i]][w])
          <6>1. PICK k \in Kids(p) : k = ns[i]
            BY <5>2
          <6>2. k \in Live /\ rank[k] + 1 <= rank[p] /\ rank[k] + 1 \in Nat /\ rank[p] \in Nat
            BY <1>1, <3>1, <3>2
          <6>3. Gathers(rank, rank[k] + 1, {k}, w, Collect[k][w])
            BY <3>2, <5>4 DEF Good
          <6>4. Gathers(rank, rank[p], {k}, w, Collect[k][w])
            BY <5>4, <6>2, <6>3, GathersBelow
          <6>5. QED
            BY <5>1, <6>1, <6>2, <6>4
        <5>5. Gathers(rank, rank[p], Kids(p), y, Through(Collect, ns, y))
          <6>1. EachGathers(rank, rank[p], R, Collect, ns)
            BY <5>4 DEF EachGathers
          <6>2. Listed(y) /\ Len(ns) \in Nat
            BY <3>3, <5>2
          <6>3. Gathers(rank, rank[p], AllOf(R, ns), y, Through(Collect, ns, y))
            BY ONLY <6>1, <6>2, GathersThrough, Zenon
          <6>4. QED
            BY <5>3, <6>3
        <5>6. Gathers(rank, rank[p] + 1, {p}, y, Append(Through(Collect, ns, y), p))
          BY <3>1, <3>3, <4>5, <5>5, GathersWith
        <5>7. QED
          BY <4>2, <4>3, <4>5, <5>6 DEF ns
      <4>6. QED
        BY <4>4, <4>5
    <3>4. QED
      BY <3>1, <3>3 DEF Good
  <2> HIDE DEF S
  <2>3. QED
    BY <2>1, <2>2, Lowest
<1>3. Gathers(rank, rank[n] + 1, {n}, x, Collect[n][x])
  BY <1>2 DEF Good
<1>4. rank[n] + 1 <= b /\ rank[n] + 1 \in Nat
  BY <1>1
<1>5. QED
  BY <1>3, <1>4, GathersBelow

(* The list serialize goes through: what the roots need, and nothing else. *)
Needed(nodes, R) ==
  \A k \in 1 .. Len(nodes) : nodes[k] \in R \/ \E p \in 1 .. Len(nodes) : nodes[k] \in Kids(nodes[p])

LEMMA CollectsRoots ==
  ASSUME HeapOK, NEW roots,
         \A ty \in RootTypes : IsSeq(roots[ty]) /\ Range(roots[ty]) \subseteq Live
  PROVE  LET nodes == CollectRoots(roots)
         IN  Listed(nodes) /\ Needed(nodes, RootsOf(roots)) /\ \A n \in RootsOf(roots) : Among(n, nodes)
<1>1. PICK b \in Nat : \E rank : Ranked(rank, b)
  BY DEF HeapOK, Acyclic
<1>2. PICK rank : Ranked(rank, b)
  BY <1>1
<1>3. PICK c, R, S, one :
        /\ c = [ty \in RootTypes |-> [nodes \in Seq(Live) |-> Through(Collect, roots[ty], nodes)]]
        /\ R = [ty \in RootTypes |-> Range(roots[ty])]
        /\ S = RootTypes /\ one = [n \in Live |-> {n}]
  OBVIOUS
<1>4. Len(RootOrder) \in Nat /\ RootTypes = {RootOrder[i] : i \in 1 .. Len(RootOrder)}
  <2>1. IsSeq(RootOrder)
    BY SerializeAssumption
  <2>2. PICK T : RootOrder \in Seq(T)
    BY ONLY <2>1, SeqIs, Zenon
  <2>3. QED
    BY <2>2, SeqIsSeq DEF RootTypes
<1>5. ASSUME NEW i \in 1 .. Len(RootOrder), NEW x, Listed(x)
      PROVE  Gathers(rank, b, R[RootOrder[i]], x, c[RootOrder[i]][x])
  <2>1. PICK ty \in RootTypes : ty = RootOrder[i]
    BY <1>4
  <2>2. IsSeq(roots[ty]) /\ Range(roots[ty]) \subseteq Live
    OBVIOUS
  <2>3. PICK rs : rs = roots[ty]
    OBVIOUS
  <2>4. IsSeq(rs)
    BY <2>2, <2>3
  <2>5. PICK T : rs \in Seq(T)
    BY ONLY <2>4, SeqIs, Zenon
  <2>6. Len(rs) \in Nat /\ Range(rs) = {rs[j] : j \in 1 .. Len(rs)} /\ \A j \in 1 .. Len(rs) : rs[j] \in Live
    BY <2>2, <2>3, <2>5, SeqIsSeq
  <2>7. Range(rs) = AllOf(one, rs)
    BY <1>3, <2>6 DEF AllOf
  <2>8. EachGathers(rank, b, one, Collect, rs)
    BY <1>2, <1>3, <2>6, CollectGathers DEF EachGathers
  <2>9. Gathers(rank, b, Range(rs), x, Through(Collect, rs, x))
    BY <1>5, <2>6, <2>7, <2>8, GathersThrough
  <2>10. c[ty][x] = Through(Collect, rs, x)
    BY <1>3, <1>5, <2>3 DEF Listed
  <2>11. R[ty] = Range(rs)
    BY <1>3, <2>3
  <2>12. QED
    BY <2>1, <2>9, <2>10, <2>11
<1>6. Listed(<<>>)
  BY DEF Listed
<1>7. EachGathers(rank, b, R, c, RootOrder)
  BY <1>5 DEF EachGathers
<1>8. RootsOf(roots) = AllOf(R, RootOrder)
  <2>1. RootsOf(roots) = UNION {R[ty] : ty \in RootTypes}
    BY <1>3 DEF RootsOf
  <2>2. QED
    BY <1>4, <2>1 DEF AllOf
<1>9. PICK nodes : nodes = CollectRoots(roots)
  OBVIOUS
<1>10. nodes = Through(c, RootOrder, <<>>)
  BY <1>3, <1>9 DEF CollectRoots
<1>11. Gathers(rank, b, RootsOf(roots), <<>>, nodes)
  BY <1>4, <1>6, <1>7, <1>8, <1>10, GathersThrough
<1>12. Needed(nodes, RootsOf(roots))
  <2>1. Len(<<>>) + 1 = 1
    OBVIOUS
  <2>2. QED
    BY <1>11, <2>1 DEF Gathers, Needed
<1>13. QED
  BY <1>9, <1>11, <1>12 DEF Gathers
-----------------------------------------------------------------------------
(***************************************************************************)
(* The inductive invariant.                                                *)
(***************************************************************************)

(* A call that serializes has encoded the first of its nodes; the nodes    *)
(* live, because the roots are held and the others are their children.     *)
WriterOK(f, session) ==
  /\ f = [kind |-> "ser", format |-> f.format, roots |-> f.roots, nodes |-> f.nodes, out |-> f.out]
  /\ \A ty \in RootTypes : IsSeq(f.roots[ty])
  /\ Listed(f.nodes) /\ Needed(f.nodes, RootsOf(f.roots))
  /\ \A n \in RootsOf(f.roots) : Among(n, f.nodes)
  /\ session = Indices(f.nodes)
  /\ IsSeq(f.out) /\ Len(f.out) <= Len(f.nodes)
  /\ \A k \in 1 .. Len(f.out) : f.out[k] = Encoded(node[f.nodes[k]], session)

(* A reference that was resolved.                                          *)
RefOK(index, ts, session) == index \in Nat /\ IsRef(index, ts, session)

(* The k-th entry has become the k-th node of the session.                 *)
EntryOK(e, session, k) ==
  /\ e.label \in Labels
  /\ DOMAIN e.fields = DOMAIN Shape[e.label]
  /\ node[session[k]] = Decoded(e, session)
  /\ \A i \in DOMAIN e.fields :
        /\ e.fields[i].index + 1 < k
        /\ RefOK(e.fields[i].index, FieldTypes(e, i), session)

Decodes(content, session) ==
  /\ Len(session) <= Len(content)
  /\ \A k \in 1 .. Len(session) : EntryOK(content[k], session, k)

RootsRead(roots, content, session) ==
  /\ \A ty \in RootTypes : \A i \in DOMAIN content[ty] : RefOK(content[ty][i], {ty}, session)
  /\ roots = [ty \in RootTypes |-> [i \in DOMAIN content[ty] |-> session[content[ty][i] + 1]]]

Named(a, p, name) == p \in 1 .. Len(a.parts) /\ a.parts[p].name = name
First(a, p) == \A i \in 1 .. p - 1 : a.parts[i].name # a.parts[p].name

(* A part that was decoded or ignored.                                     *)
PartOK(f, session, p) ==
  LET part == f.archive.parts[p]
  IN /\ part.name # Junk
     /\ part.name \in Fields => First(f.archive, p)
     /\ part.name = "version" => part.content = Version
     /\ part.name = "nodes" => Len(session) = Len(part.content)
     /\ part.name = "roots" =>
          /\ RootsRead(f.roots, part.content, session)
          /\ \A ty \in RootTypes : \A i \in DOMAIN part.content[ty] :
               \E q \in 1 .. p - 1 : Named(f.archive, q, "nodes")

ReaderOK(f, session) ==
  /\ f = [kind |-> "de", archive |-> f.archive, part |-> f.part, roots |-> f.roots]
  /\ IsArchive(f.archive) /\ HeaderOK(f.archive)
  /\ f.part \in 1 .. Len(f.archive.parts) + 1
  /\ session \in Seq(Live)
  /\ RootsOf(f.roots) \subseteq Live
  /\ \A p \in 1 .. f.part - 1 : PartOK(f, session, p)
  /\ \A p \in 1 .. f.part : Named(f.archive, p, "nodes") /\ First(f.archive, p) =>
        Decodes(f.archive.parts[p].content, session)
  /\ (\A p \in 1 .. f.part : ~Named(f.archive, p, "nodes")) => session = <<>>

(* A thread is in at most one call of a kind, which has the session.       *)
Sole(frames) == \A i, j \in 1 .. Len(frames) : frames[i].kind = frames[j].kind => i = j
Within(frames, kind) == \E i \in 1 .. Len(frames) : frames[i].kind = kind

FrameOK(f, x, y) ==
  \/ f.kind = "ser" /\ WriterOK(f, x)
  \/ f.kind = "de" /\ ReaderOK(f, y)

CallsOK(frames, x, y) ==
  /\ IsSeq(frames) /\ Sole(frames)
  /\ \A i \in 1 .. Len(frames) : FrameOK(frames[i], x, y)
  /\ x # NoSession => Within(frames, "ser")
  /\ y # NoSession => Within(frames, "de")

ThreadOK(t) == holds[t] \subseteq Live /\ CallsOK(stack[t], ser[t], de[t])

(* What was written says what it was made from, on its own.                *)
OnceIn(nodes, roots) ==
  LET trees == Denotes(nodes)
  IN /\ \A i, j \in DOMAIN nodes : trees[i] = trees[j] => i = j
     /\ \A k \in DOMAIN nodes :
          \/ \E ty \in RootTypes : k - 1 \in Range(roots[ty])
          \/ \E p \in DOMAIN nodes : \E i \in DOMAIN nodes[p].fields :
               nodes[p].fields[i].index = k - 1

DenotedRoots(nodes, roots) ==
  [ty \in RootTypes |-> [i \in DOMAIN roots[ty] |-> Denotes(nodes)[roots[ty][i] + 1]]]

WrittenOK(w) ==
  LET nodes == PartOf(w.archive, "nodes")
      roots == PartOf(w.archive, "roots")
  IN IsArchive(w.archive) /\ OnceIn(nodes, roots) /\ w.trees = DenotedRoots(nodes, roots)

Typed ==
  /\ holds \in [Threads -> SUBSET Nodes]
  /\ DOMAIN stack = Threads /\ DOMAIN ser = Threads /\ DOMAIN de = Threads

IInv ==
  /\ HeapOK
  /\ Typed
  /\ \A t \in Threads : ThreadOK(t)
  /\ \A w \in written : WrittenOK(w)

-----------------------------------------------------------------------------
(***************************************************************************)
(* Interning, expiry and reading on leave what was done as it is.          *)
(***************************************************************************)
LEMMA SomeSession ==
  /\ \A y : y \in Seq(Live) => y # NoSession
  /\ \A nodes : Listed(nodes) => Indices(nodes) # NoSession
<1>1. Live \subseteq Nodes
  BY DEF Live
<1>2. ASSUME NEW y, y \in Seq(Live) PROVE y # NoSession
  <2>1. y \in Seq(Nodes)
    BY <1>1, <1>2
  <2>2. QED
    BY <2>1, SerializeAssumption
<1>3. ASSUME NEW nodes, Listed(nodes) PROVE Indices(nodes) # NoSession
  <2>1. nodes \in Seq(Live) /\ Range(nodes) = {nodes[k] : k \in 1 .. Len(nodes)} /\ Range(nodes) \subseteq Live
    BY <1>3, SeqIsSeq DEF Listed
  <2>2. PICK S, m : S = Range(nodes) /\ m = Len(nodes)
    OBVIOUS
  <2>3. m \in Nat /\ S \in SUBSET Nodes /\ S = {nodes[k] : k \in 1 .. m}
    BY <1>1, <2>1, <2>2
  <2>4. ASSUME NEW n \in S PROVE (CHOOSE i \in 0 .. m - 1 : nodes[i + 1] = n) \in Nat
    <3>1. PICK k \in 1 .. m : nodes[k] = n
      BY <2>3
    <3>2. k - 1 \in 0 .. m - 1 /\ nodes[k - 1 + 1] = n
      BY <2>3, <3>1
    <3>3. PICK j : j = CHOOSE i \in 0 .. m - 1 : nodes[i + 1] = n
      OBVIOUS
    <3>4. j \in 0 .. m - 1
      BY <3>2, <3>3
    <3>5. QED
      BY <2>3, <3>3, <3>4
  <2>5. Indices(nodes) = [n \in S |-> CHOOSE i \in 0 .. m - 1 : nodes[i + 1] = n]
    BY <2>2 DEF Indices
  <2>6. Indices(nodes) \in [S -> Nat]
    BY <2>4, <2>5
  <2>7. QED
    BY <2>3, <2>6, SerializeAssumption
<1>4. QED
  BY <1>2, <1>3

LEMMA IndicesIs ==
  ASSUME NEW nodes, Listed(nodes)
  PROVE  /\ DOMAIN Indices(nodes) = Range(nodes) /\ Range(nodes) \subseteq Live
         /\ \A n : n \in Range(nodes) <=> Among(n, nodes)
         /\ \A k \in 1 .. Len(nodes) : Indices(nodes)[nodes[k]] = k - 1
<1>1. nodes \in Seq(Live) /\ Range(nodes) = {nodes[k] : k \in 1 .. Len(nodes)} /\ Range(nodes) \subseteq Live
  BY SeqIsSeq DEF Listed
<1>2. PICK m \in Nat : m = Len(nodes)
  BY <1>1
<1>3. Indices(nodes) = [n \in Range(nodes) |-> CHOOSE i \in 0 .. m - 1 : nodes[i + 1] = n]
  BY <1>2 DEF Indices
<1>4. ASSUME NEW k \in 1 .. m PROVE Indices(nodes)[nodes[k]] = k - 1
  <2>1. PICK j : j = CHOOSE i \in 0 .. m - 1 : nodes[i + 1] = nodes[k]
    OBVIOUS
  <2>2. k - 1 \in 0 .. m - 1 /\ nodes[k - 1 + 1] = nodes[k]
    BY <1>2
  <2>3. j \in 0 .. m - 1 /\ nodes[j + 1] = nodes[k]
    BY <2>1, <2>2
  <2>4. j + 1 \in 1 .. m
    BY <1>2, <2>3
  <2>5. j + 1 = k
    BY <1>2, <2>3, <2>4 DEF Listed
  <2>6. j = k - 1
    BY <2>3, <2>5
  <2>7. nodes[k] \in Range(nodes)
    BY <1>1, <1>2
  <2>8. QED
    BY <1>3, <2>1, <2>6, <2>7
<1>5. QED
  BY <1>1, <1>2, <1>3, <1>4 DEF Among

(* Every session has what it had; what it refers to is left alone.         *)
Goes(C, y, z) ==
  /\ y \in Seq(Live) /\ z \in Seq(Live') /\ Len(y) <= Len(z)
  /\ \A i \in 1 .. Len(y) : z[i] = y[i] /\ y[i] \in C

LEMMA RefKept ==
  ASSUME HeapOK, HeapOK', NEW C, Keeps(C), NEW y, NEW z, Goes(C, y, z),
         NEW index, NEW ts, RefOK(index, ts, y)
  PROVE  RefOK(index, ts, z)' /\ z[index + 1] = y[index + 1] /\ index + 1 \in 1 .. Len(y)
<1>1. PICK m, l : m \in Nat /\ l \in Nat /\ m = Len(y) /\ l = Len(z) /\ m <= l
  BY DEF Goes
<1>2. index \in Nat /\ index < m /\ Type(y[index + 1]) \in ts
  BY <1>1 DEF RefOK, IsRef
<1>3. index + 1 \in 1 .. m /\ index < l
  BY <1>1, <1>2
<1>4. z[index + 1] = y[index + 1] /\ y[index + 1] \in C
  BY <1>1, <1>3 DEF Goes
<1>5. Type(y[index + 1])' = Type(y[index + 1])
  BY <1>4, KeptIs
<1>6. QED
  BY <1>1, <1>2, <1>3, <1>4, <1>5 DEF RefOK, IsRef, Type

LEMMA EntryKept ==
  ASSUME HeapOK, HeapOK', NEW C, Keeps(C), NEW y, NEW z, Goes(C, y, z),
         NEW e, NEW k \in 1 .. Len(y), EntryOK(e, y, k)
  PROVE  EntryOK(e, z, k)'
<1>1. z[k] = y[k] /\ y[k] \in C
  BY DEF Goes
<1>2. node'[y[k]] = node[y[k]]
  BY <1>1, KeptIs
<1>3. \A i \in DOMAIN e.fields : RefOK(e.fields[i].index, FieldTypes(e, i), z)'
                                 /\ z[e.fields[i].index + 1] = y[e.fields[i].index + 1]
  BY RefKept DEF EntryOK
<1>4. Decoded(e, z) = Decoded(e, y)
  <2>1. [i \in DOMAIN e.fields |-> [variant |-> e.fields[i].variant, ref |-> z[e.fields[i].index + 1]]]
      = [i \in DOMAIN e.fields |-> [variant |-> e.fields[i].variant, ref |-> y[e.fields[i].index + 1]]]
    BY <1>3
  <2>2. QED
    BY <2>1 DEF Decoded
<1>5. QED
  BY <1>1, <1>2, <1>3, <1>4 DEF EntryOK, FieldTypes

LEMMA RootsKept ==
  ASSUME HeapOK, HeapOK', NEW C, Keeps(C), NEW y, NEW z, Goes(C, y, z),
         NEW roots, NEW content, RootsRead(roots, content, y)
  PROVE  RootsRead(roots, content, z)'
<1>1. \A ty \in RootTypes : \A i \in DOMAIN content[ty] :
         RefOK(content[ty][i], {ty}, z)' /\ z[content[ty][i] + 1] = y[content[ty][i] + 1]
  BY RefKept DEF RootsRead
<1>2. \A ty \in RootTypes :
        [i \in DOMAIN content[ty] |-> z[content[ty][i] + 1]]
          = [i \in DOMAIN content[ty] |-> y[content[ty][i] + 1]]
  BY <1>1
<1>3. [ty \in RootTypes |-> [i \in DOMAIN content[ty] |-> z[content[ty][i] + 1]]]
        = [ty \in RootTypes |-> [i \in DOMAIN content[ty] |-> y[content[ty][i] + 1]]]
  BY <1>2
<1>4. QED
  BY <1>1, <1>3 DEF RootsRead

LEMMA PartKept ==
  ASSUME HeapOK, HeapOK', NEW C, Keeps(C), NEW y, NEW z, Goes(C, y, z),
         NEW f, NEW p, PartOK(f, y, p), z = y \/ f.archive.parts[p].name # "nodes"
  PROVE  PartOK(f, z, p)'
<1> DEFINE part == f.archive.parts[p]
<1>1. CASE part.name = "roots"
  <2>1. RootsRead(f.roots, part.content, y)
    BY <1>1 DEF PartOK
  <2>2. RootsRead(f.roots, part.content, z)'
    BY <2>1, RootsKept
  <2>3. QED
    BY <1>1, <2>2 DEF PartOK
<1>2. CASE part.name # "roots"
  BY <1>2 DEF PartOK
<1>3. QED
  BY <1>1, <1>2

LEMMA SeqOver ==
  ASSUME NEW S, NEW T, NEW s \in Seq(S), \A i \in 1 .. Len(s) : s[i] \in T
  PROVE  s \in Seq(T)
<1>1. PICK m \in Nat : m = Len(s)
  OBVIOUS
<1>2. s \in [1 .. m -> T]
  BY <1>1
<1>3. QED
  BY <1>1, <1>2, FunctionIsSeq

LEMMA ReaderKept ==
  ASSUME HeapOK, HeapOK', NEW C, Keeps(C), NEW f, NEW y, ReaderOK(f, y),
         RootsOf(f.roots) \subseteq C, \A i \in 1 .. Len(y) : y[i] \in C
  PROVE  ReaderOK(f, y)'
<1>1. C \subseteq Live' /\ y \in Seq(Live) /\ Len(y) \in Nat
  BY DEF Keeps, ReaderOK
<1>2. y \in Seq(Live')
  <2>1. \A i \in 1 .. Len(y) : y[i] \in Live'
    BY <1>1
  <2>2. QED
    BY <1>1, <2>1, SeqOver
<1>3. Goes(C, y, y)
  BY <1>1, <1>2 DEF Goes
<1>4. \A p \in 1 .. f.part - 1 : PartOK(f, y, p)'
  <2>1. ASSUME NEW p \in 1 .. f.part - 1 PROVE PartOK(f, y, p)'
    <3>1. PartOK(f, y, p)
      BY DEF ReaderOK
    <3>2. QED
      BY <1>3, <3>1, PartKept
  <2>2. QED
    BY <2>1
<1>5. ASSUME NEW p \in 1 .. f.part, Named(f.archive, p, "nodes"), First(f.archive, p)
      PROVE  Decodes(f.archive.parts[p].content, y)'
  <2>1. PICK content : content = f.archive.parts[p].content
    OBVIOUS
  <2>2. Decodes(content, y)
    BY <1>5, <2>1 DEF ReaderOK
  <2>3. \A k \in 1 .. Len(y) : EntryOK(content[k], y, k)'
    BY <1>3, <2>2, EntryKept DEF Decodes
  <2>4. QED
    BY <2>1, <2>2, <2>3 DEF Decodes
<1>6. RootsOf(f.roots) \subseteq Live'
  BY <1>1
<1>7. QED
  BY <1>2, <1>4, <1>5, <1>6 DEF ReaderOK, RootsOf, Named, First

LEMMA WriterKept ==
  ASSUME HeapOK, HeapOK', NEW C, Keeps(C), NEW f, NEW x, WriterOK(f, x),
         \A k \in 1 .. Len(f.nodes) : f.nodes[k] \in C
  PROVE  WriterOK(f, x)'
<1>1. PICK ns, R : ns = f.nodes /\ R = RootsOf(f.roots)
  OBVIOUS
<1>2. /\ Listed(ns) /\ Needed(ns, R) /\ ns \in Seq(Live) /\ Len(ns) \in Nat
  BY <1>1 DEF WriterOK, Listed
<1>3. \A k \in 1 .. Len(ns) :
        node'[ns[k]] = node[ns[k]] /\ Kids(ns[k])' = Kids(ns[k]) /\ ns[k] \in Live'
  BY <1>1, KeptIs
<1>4. ns \in Seq(Live')
  BY <1>2, <1>3, SeqOver
<1>5. Listed(ns)'
  <2>1. /\ \A i, j \in 1 .. Len(ns) : ns[i] = ns[j] => i = j
        /\ \A k \in 1 .. Len(ns) : \A c \in Kids(ns[k]) : \E j \in 1 .. k - 1 : ns[j] = c
    BY <1>2 DEF Listed
  <2>2. \A k \in 1 .. Len(ns) : \A c \in Kids(ns[k])' : \E j \in 1 .. k - 1 : ns[j] = c
    <3> SUFFICES ASSUME NEW k \in 1 .. Len(ns), NEW c \in Kids(ns[k])'
                 PROVE  \E j \in 1 .. k - 1 : ns[j] = c
      OBVIOUS
    <3>1. c \in Kids(ns[k])
      BY <1>3
    <3>2. QED
      BY ONLY k \in 1 .. Len(ns), <2>1, <3>1
  <2>3. QED
    BY <1>4, <2>1, <2>2 DEF Listed
<1>6. Needed(ns, R)'
  BY <1>2, <1>3 DEF Needed
<1>7. \A k \in 1 .. Len(f.out) : f.out[k] = Encoded(node'[ns[k]], x)
  <2>1. Len(f.out) \in Nat /\ Len(f.out) <= Len(ns)
    BY <1>1 DEF WriterOK, IsSeq
  <2>2. \A k \in 1 .. Len(f.out) : k \in 1 .. Len(ns) /\ f.out[k] = Encoded(node[ns[k]], x)
    BY <1>1, <1>2, <2>1 DEF WriterOK
  <2>3. QED
    BY <1>3, <2>2
<1>8. QED
  BY <1>1, <1>5, <1>6, <1>7 DEF WriterOK, RootsOf, Among, Encoded, Indices

(* The nodes the calls of a thread rely on.                                *)
FrameUses(f, C) ==
  /\ RootsOf(f.roots) \subseteq C
  /\ f.kind = "ser" => \A k \in 1 .. Len(f.nodes) : f.nodes[k] \in C

CallsUse(frames, y, C) ==
  /\ \A i \in 1 .. Len(frames) : FrameUses(frames[i], C)
  /\ y # NoSession => Range(y) \subseteq C

LEMMA FrameLive ==
  ASSUME NEW f, NEW x, NEW y, FrameOK(f, x, y)
  PROVE  FrameUses(f, Live) /\ f.kind \in {"ser", "de"}
<1>1. CASE f.kind = "ser" /\ WriterOK(f, x)
  <2>1. f.nodes \in Seq(Live) /\ Listed(f.nodes)
    BY <1>1 DEF WriterOK, Listed
  <2>2. PICK ns : ns = f.nodes
    OBVIOUS
  <2>3. \A k \in 1 .. Len(ns) : ns[k] \in Live
    BY <2>1, <2>2
  <2>4. \A n \in RootsOf(f.roots) : n \in Live
    BY <1>1, <2>2, <2>3 DEF WriterOK, Among
  <2>5. QED
    BY <1>1, <2>2, <2>3, <2>4 DEF FrameUses
<1>2. CASE f.kind = "de" /\ ReaderOK(f, y)
  BY <1>2 DEF FrameUses, ReaderOK
<1>3. QED
  BY <1>1, <1>2 DEF FrameOK

LEMMA SessionSeq ==
  ASSUME NEW frames, NEW x, NEW y, CallsOK(frames, x, y), y # NoSession
  PROVE  y \in Seq(Live) /\ Range(y) \subseteq Live /\ Range(y) = {y[i] : i \in 1 .. Len(y)}
<1>1. PICK i \in 1 .. Len(frames) : frames[i].kind = "de"
  BY DEF CallsOK, Within
<1>2. ReaderOK(frames[i], y)
  BY <1>1 DEF CallsOK, FrameOK
<1>3. y \in Seq(Live)
  BY <1>2 DEF ReaderOK
<1>4. QED
  BY <1>3, SeqIsSeq

LEMMA CallsLive ==
  ASSUME NEW frames, NEW x, NEW y, CallsOK(frames, x, y)
  PROVE  CallsUse(frames, y, Live)
BY FrameLive, SessionSeq DEF CallsOK, CallsUse

LEMMA CallsKept ==
  ASSUME HeapOK, HeapOK', NEW C, Keeps(C),
         NEW frames, NEW x, NEW y, CallsOK(frames, x, y), CallsUse(frames, y, C)
  PROVE  CallsOK(frames, x, y)'
<1>1. ASSUME NEW i \in 1 .. Len(frames) PROVE FrameOK(frames[i], x, y)'
  <2>1. PICK f : f = frames[i]
    OBVIOUS
  <2>2. FrameOK(f, x, y) /\ FrameUses(f, C)
    BY <2>1 DEF CallsOK, CallsUse
  <2>3. CASE f.kind = "ser" /\ WriterOK(f, x)
    <3>1. WriterOK(f, x)'
      BY <2>2, <2>3, WriterKept DEF FrameUses
    <3>2. QED
      BY <2>1, <2>3, <3>1 DEF FrameOK
  <2>4. CASE f.kind = "de" /\ ReaderOK(f, y)
    <3>1. y # NoSession
      BY <2>4, SomeSession DEF ReaderOK
    <3>2. \A j \in 1 .. Len(y) : y[j] \in C
      BY <3>1, SessionSeq DEF CallsUse
    <3>3. ReaderOK(f, y)'
      BY <2>2, <2>4, <3>2, ReaderKept DEF FrameUses
    <3>4. QED
      BY <2>1, <2>4, <3>3 DEF FrameOK
  <2>5. QED
    BY <2>2, <2>3, <2>4 DEF FrameOK
<1>2. QED
  BY <1>1 DEF CallsOK, Sole, Within

-----------------------------------------------------------------------------
(***************************************************************************)
(* The steps.                                                              *)
(***************************************************************************)
LEMMA InitInv == Init => IInv
<1> SUFFICES ASSUME Init PROVE IInv
  OBVIOUS
<1>1. HeapOK
  BY HeapInitOK DEF Init
<1>2. Typed
  BY DEF Init, Typed
<1>3. ASSUME NEW t \in Threads PROVE ThreadOK(t)
  <2>1. holds[t] = {} /\ stack[t] = <<>> /\ ser[t] = NoSession /\ de[t] = NoSession
    BY DEF Init
  <2>2. CallsOK(<<>>, NoSession, NoSession)
    <3>1. IsSeq(<<>>) /\ Len(<<>>) = 0
      BY DEF IsSeq
    <3>2. QED
      BY <3>1 DEF CallsOK, Sole
  <2>3. QED
    BY <2>1, <2>2 DEF ThreadOK
<1>4. QED
  BY <1>1, <1>2, <1>3 DEF Init, IInv

(* f changes at t alone.                                                   *)
Changed(f, g, t, v) ==
  DOMAIN g = DOMAIN f /\ g[t] = v /\ \A u \in Threads : u # t => g[u] = f[u]

LEMMA ChangedIs ==
  ASSUME NEW f, DOMAIN f = Threads, NEW t \in Threads, NEW v
  PROVE  Changed(f, [f EXCEPT ![t] = v], t, v) /\ Changed(f, f, t, f[t])
BY DEF Changed

Hold(h) == h \in [Threads -> SUBSET Nodes] /\ \A t \in Threads : h[t] \subseteq Live

(* What t does may change its calls and sessions, as long as they fit; the *)
(* heap may grow.                                                          *)
LEMMA StepInv ==
  ASSUME IInv, NEW t \in Threads, HeapOK', Keeps(Live), NEW r, NEW x, NEW y, CallsOK(r, x, y)',
         Changed(stack, stack', t, r), Changed(ser, ser', t, x), Changed(de, de', t, y),
         Hold(holds)', \A w \in written' : WrittenOK(w)
  PROVE  IInv'
<1>1. HeapOK /\ Typed /\ \A u \in Threads : ThreadOK(u)
  BY DEF IInv
<1>2. Typed'
  BY <1>1 DEF Typed, Changed, Hold
<1>3. ASSUME NEW u \in Threads PROVE ThreadOK(u)'
  <2>1. (holds[u] \subseteq Live)'
    BY DEF Hold
  <2>2. CASE u = t
    BY <2>1, <2>2 DEF Changed, ThreadOK
  <2>3. CASE u # t
    <3>1. PICK q, v, z : q = stack[u] /\ v = ser[u] /\ z = de[u]
      OBVIOUS
    <3>2. CallsOK(q, v, z)
      BY <1>1, <3>1 DEF ThreadOK
    <3>3. CallsOK(q, v, z)'
      BY <1>1, <3>2, CallsKept, CallsLive
    <3>4. stack'[u] = q /\ ser'[u] = v /\ de'[u] = z
      BY <2>3, <3>1 DEF Changed
    <3>5. QED
      BY <2>1, <3>3, <3>4 DEF ThreadOK
  <2>4. QED
    BY <2>2, <2>3
<1>4. QED
  BY <1>2, <1>3 DEF IInv, WrittenOK

LEMMA HeapStays == HeapOK /\ UNCHANGED node => HeapOK' /\ Keeps(Live) /\ Live' = Live
<1> SUFFICES ASSUME HeapOK, UNCHANGED node
             PROVE  HeapOK' /\ Keeps(Live) /\ Live' = Live
  OBVIOUS
<1>1. HeapOK'
  BY DEF HeapOK, HeapTypeOK, Acyclic, Ranked, Unique, Live, Kids, IsData, IsField, Type
<1>2. Live' = Live
  BY DEF Live
<1>3. \A n \in Live : Kids(n) \subseteq Live
  BY LiveIs DEF HeapOK
<1>4. QED
  BY <1>1, <1>2, <1>3 DEF Keeps

(* Most steps do not touch the heap.                                       *)
LEMMA QuietInv ==
  ASSUME IInv, NEW t \in Threads, UNCHANGED node, NEW r, NEW x, NEW y, CallsOK(r, x, y),
         Changed(stack, stack', t, r), Changed(ser, ser', t, x), Changed(de, de', t, y),
         Hold(holds'), \A w \in written' : WrittenOK(w)
  PROVE  IInv'
<1>1. HeapOK /\ HeapOK' /\ Live' = Live
  BY HeapStays DEF IInv
<1>2. Keeps(Live)
  BY HeapStays DEF IInv
<1>3. CallsOK(r, x, y)'
  BY <1>1, <1>2, CallsKept, CallsLive
<1>4. Hold(holds)'
  BY <1>1 DEF Hold
<1>5. QED
  BY <1>1, <1>2, <1>3, <1>4, StepInv

-----------------------------------------------------------------------------
(***************************************************************************)
(* Calls begin, go on and end.                                             *)
(***************************************************************************)
LEMMA CallsTop ==
  ASSUME NEW s, NEW x, NEW y, CallsOK(s, x, y), s # <<>>
  PROVE  /\ IsSeq(s) /\ Len(s) \in Nat /\ Len(s) > 0 /\ Len(s) \in 1 .. Len(s)
         /\ FrameOK(s[Len(s)], x, y)
         /\ \A i \in 1 .. Len(s) - 1 : s[i].kind # s[Len(s)].kind
<1>1. IsSeq(s)
  BY DEF CallsOK
<1>2. Len(s) > 0 /\ Len(s) \in Nat
  BY <1>1, FrontSeq DEF IsSeq
<1>3. Len(s) \in 1 .. Len(s) /\ \A i \in 1 .. Len(s) - 1 : i \in 1 .. Len(s) /\ i # Len(s)
  BY <1>2
<1>4. QED
  BY <1>1, <1>2, <1>3 DEF CallsOK, Sole

LEMMA NoneWithin ==
  ASSUME NEW s, NEW x, NEW y, CallsOK(s, x, y)
  PROVE  /\ x = NoSession => ~Within(s, "ser")
         /\ y = NoSession => ~Within(s, "de")
<1>1. \A i \in 1 .. Len(s) : s[i].kind = "ser" => WriterOK(s[i], x)
  BY DEF CallsOK, FrameOK
<1>2. \A i \in 1 .. Len(s) : s[i].kind = "de" => ReaderOK(s[i], y)
  BY DEF CallsOK, FrameOK
<1>3. \A f : WriterOK(f, x) => x # NoSession
  BY SomeSession DEF WriterOK
<1>4. \A f : ReaderOK(f, y) => y # NoSession
  BY SomeSession DEF ReaderOK
<1>5. QED
  BY <1>1, <1>2, <1>3, <1>4 DEF Within

LEMMA ReplacedOK ==
  ASSUME NEW s, NEW x, NEW y, CallsOK(s, x, y), s # <<>>,
         NEW g, FrameOK(g, x, y), g.kind = s[Len(s)].kind
  PROVE  CallsOK(Updated(s, Len(s), g), x, y)
<1>1. PICK m, r : m = Len(s) /\ r = Updated(s, m, g)
  OBVIOUS
<1>2. IsSeq(s) /\ m \in Nat /\ m > 0 /\ m \in 1 .. Len(s) /\ s[m].kind = g.kind
  BY <1>1, CallsTop
<1>3. IsSeq(r) /\ Len(r) = m /\ r[m] = g /\ \A j \in 1 .. m : j # m => r[j] = s[j]
  BY <1>1, <1>2, UpdatedSeq
<1>4. \A j \in 1 .. m : r[j].kind = s[j].kind
  BY <1>2, <1>3
<1>5. \A i \in 1 .. m : FrameOK(r[i], x, y)
  BY <1>1, <1>3 DEF CallsOK
<1>6. CallsOK(r, x, y)
  BY <1>1, <1>3, <1>4, <1>5 DEF CallsOK, Sole, Within
<1>7. QED
  BY <1>1, <1>6

(* What becomes of the other calls when the session of one kind does.      *)
Opens(kind, x, y, v, z) ==
  \/ kind = "ser" /\ x = NoSession /\ z = y
  \/ kind = "de" /\ y = NoSession /\ v = x

LEMMA PushedOK ==
  ASSUME NEW s, NEW x, NEW y, CallsOK(s, x, y), NEW g, NEW v, NEW z, FrameOK(g, v, z),
         Opens(g.kind, x, y, v, z)
  PROVE  CallsOK(Append(s, g), v, z)
<1>1. PICK m, r : m = Len(s) /\ r = Append(s, g)
  OBVIOUS
<1>2. IsSeq(s) /\ m \in Nat
  BY <1>1 DEF CallsOK, IsSeq
<1>3. IsSeq(r) /\ Len(r) = m + 1 /\ r[m + 1] = g /\ \A i \in 1 .. m : r[i] = s[i]
  BY <1>1, <1>2, AppendSeq
<1>4. \A i \in 1 .. m : s[i].kind # g.kind
  BY <1>1, NoneWithin DEF Opens, Within
<1>5. \A i \in 1 .. m : FrameOK(s[i], v, z)
  BY <1>1, <1>4 DEF Opens, CallsOK, FrameOK
<1>6. \A i \in 1 .. m + 1 : i \in 1 .. m \/ i = m + 1
  BY <1>2
<1>7. \A i \in 1 .. m + 1 : FrameOK(r[i], v, z)
  BY <1>3, <1>5, <1>6
<1>8. \A i, j \in 1 .. m : s[i].kind = s[j].kind => i = j
  BY <1>1 DEF CallsOK, Sole
<1>9. Sole(r)
  BY <1>3, <1>4, <1>6, <1>8 DEF Sole
<1>10. g.kind \in {"ser", "de"}
  BY FrameLive
<1>11. \A kind : Within(s, kind) => Within(r, kind)
  BY <1>1, <1>2, <1>3 DEF Within
<1>12. Within(r, g.kind)
  BY <1>2, <1>3 DEF Within
<1>13. (v # NoSession => Within(r, "ser")) /\ (z # NoSession => Within(r, "de"))
  BY <1>10, <1>11, <1>12 DEF Opens, CallsOK
<1>14. CallsOK(r, v, z)
  BY <1>3, <1>7, <1>9, <1>13 DEF CallsOK
<1>15. QED
  BY <1>1, <1>14

LEMMA PoppedOK ==
  ASSUME NEW s, NEW x, NEW y, CallsOK(s, x, y), s # <<>>, NEW v, NEW z,
         Opens(s[Len(s)].kind, v, z, x, y)
  PROVE  CallsOK(Front(s), v, z)
<1>1. PICK m, r, kind : m = Len(s) /\ r = Front(s) /\ kind = s[m].kind
  OBVIOUS
<1>2. IsSeq(s) /\ m \in Nat /\ m > 0 /\ \A i \in 1 .. m - 1 : s[i].kind # kind
  BY <1>1, CallsTop
<1>3. IsSeq(r) /\ Len(r) = m - 1 /\ \A i \in 1 .. m - 1 : r[i] = s[i]
  BY <1>1, <1>2, FrontSeq
<1>4. \A i \in 1 .. m - 1 : i \in 1 .. m
  BY <1>2
<1>5. \A i \in 1 .. m - 1 : FrameOK(s[i], x, y)
  BY <1>1, <1>4 DEF CallsOK
<1>6. \A i \in 1 .. m - 1 : FrameOK(r[i], v, z)
  BY <1>1, <1>2, <1>3, <1>5 DEF Opens, FrameOK
<1>7. Sole(r)
  BY <1>1, <1>3, <1>4 DEF CallsOK, Sole
<1>8. ASSUME NEW k, k # kind, Within(s, k) PROVE Within(r, k)
  <2>1. PICK i \in 1 .. m : s[i].kind = k
    BY <1>1, <1>8 DEF Within
  <2>2. i \in 1 .. m - 1
    BY <1>1, <1>2, <1>8, <2>1
  <2>3. QED
    BY <1>3, <2>1, <2>2 DEF Within
<1>9. (v # NoSession => Within(r, "ser")) /\ (z # NoSession => Within(r, "de"))
  BY <1>1, <1>8 DEF Opens, CallsOK
<1>10. CallsOK(r, v, z)
  BY <1>3, <1>6, <1>7, <1>9 DEF CallsOK
<1>11. QED
  BY <1>1, <1>10

-----------------------------------------------------------------------------
LEMMA Facts ==
  ASSUME IInv, NEW t \in Threads
  PROVE  /\ HeapOK /\ HeapTypeOK /\ CallsOK(stack[t], ser[t], de[t])
         /\ DOMAIN stack = Threads /\ DOMAIN ser = Threads /\ DOMAIN de = Threads
         /\ Hold(holds) /\ \A w \in written : WrittenOK(w)
         /\ stack[t] # <<>> => FrameOK(Top(t), ser[t], de[t])
<1>1. CallsOK(stack[t], ser[t], de[t]) /\ HeapOK /\ Typed
  BY DEF IInv, ThreadOK
<1>2. stack[t] # <<>> => FrameOK(Top(t), ser[t], de[t])
  BY <1>1, CallsTop DEF Top, Depth
<1>3. Hold(holds)
  BY <1>1 DEF IInv, ThreadOK, Typed, Hold
<1>4. QED
  BY <1>1, <1>2, <1>3 DEF IInv, HeapOK, Typed

(* A step of a call that goes on.                                          *)
LEMMA TopInv ==
  ASSUME IInv, NEW t \in Threads, stack[t] # <<>>, NEW g,
         FrameOK(g, ser[t], de[t]), g.kind = Top(t).kind,
         Changed(stack, stack', t, Updated(stack[t], Depth(t), g)),
         UNCHANGED <<node, holds, ser, de, written>>
  PROVE  IInv'
<1>1. PICK s, x, y, r : s = stack[t] /\ x = ser[t] /\ y = de[t] /\ r = Updated(s, Len(s), g)
  OBVIOUS
<1>2. CallsOK(s, x, y) /\ FrameOK(g, x, y) /\ g.kind = s[Len(s)].kind /\ s # <<>>
  BY <1>1, Facts DEF Top, Depth
<1>3. CallsOK(r, x, y)
  BY <1>1, <1>2, ReplacedOK
<1>4. Changed(stack, stack', t, r)
  BY <1>1 DEF Depth
<1>5. Changed(ser, ser', t, x) /\ Changed(de, de', t, y)
  BY <1>1 DEF Changed
<1>6. Hold(holds') /\ \A w \in written' : WrittenOK(w)
  BY Facts DEF Hold
<1>7. QED
  BY <1>3, <1>4, <1>5, <1>6, QuietInv

LEMMA WriterIs ==
  ASSUME IInv, NEW t \in Threads, InCall(t, "ser")
  PROVE  WriterOK(Top(t), ser[t]) /\ stack[t] # <<>> /\ Top(t).kind = "ser"
BY Facts DEF InCall, FrameOK

LEMMA ReaderIs ==
  ASSUME IInv, NEW t \in Threads, InCall(t, "de")
  PROVE  ReaderOK(Top(t), de[t]) /\ stack[t] # <<>> /\ Top(t).kind = "de"
BY Facts DEF InCall, FrameOK

LEMMA WriterParts ==
  ASSUME NEW f, NEW x, WriterOK(f, x)
  PROVE  /\ f.nodes \in Seq(Live) /\ Len(f.nodes) \in Nat /\ DOMAIN f.nodes = 1 .. Len(f.nodes)
         /\ IsSeq(f.out) /\ Len(f.out) \in Nat /\ Len(f.out) <= Len(f.nodes)
         /\ RootsOf(f.roots) \subseteq Live
         /\ x # NoSession /\ f.kind = "ser"
<1>1. f.nodes \in Seq(Live) /\ IsSeq(f.out) /\ Len(f.out) <= Len(f.nodes)
  BY DEF WriterOK, Listed
<1>2. FrameOK(f, x, x) /\ f.kind = "ser"
  BY DEF WriterOK, FrameOK
<1>3. RootsOf(f.roots) \subseteq Live
  BY <1>2, FrameLive DEF FrameUses
<1>4. Len(f.out) \in Nat
  BY <1>1 DEF IsSeq
<1>5. x # NoSession
  BY SomeSession DEF WriterOK
<1>6. QED
  BY <1>1, <1>2, <1>3, <1>4, <1>5

LEMMA EncodeNodeInv ==
  ASSUME IInv, NEW t \in Threads, EncodeNode(t)
  PROVE  IInv'
<1>1. PICK f, x, e : f = Top(t) /\ x = ser[t] /\ e = Encoded(node[f.nodes[Len(f.out) + 1]], x)
  OBVIOUS
<1>2. PICK g : g = [f EXCEPT !.out = Append(f.out, e)]
  OBVIOUS
<1>3. WriterOK(f, x) /\ stack[t] # <<>> /\ f.kind = "ser" /\ Len(f.out) < Len(f.nodes)
  BY <1>1, WriterIs DEF EncodeNode, MoreToEncode
<1>4. Changed(stack, stack', t, Updated(stack[t], Depth(t), g))
  <2>1. stack' = [stack EXCEPT ![t][Depth(t)].out = Append(@, e)]
    BY <1>1 DEF EncodeNode
  <2>2. stack[t][Depth(t)] = f
    BY <1>1 DEF Top
  <2>3. DOMAIN stack = Threads
    BY Facts
  <2>4. QED
    BY <1>2, <2>1, <2>2, <2>3 DEF Changed, Updated
<1>5. PICK k \in Nat : k = Len(f.out)
  BY <1>3, WriterParts
<1>6. g = [kind |-> "ser", format |-> f.format, roots |-> f.roots, nodes |-> f.nodes, out |-> Append(f.out, e)]
  BY <1>2, <1>3 DEF WriterOK
<1>7. WriterOK(g, x)
  <2>1. /\ IsSeq(g.out) /\ Len(g.out) = k + 1 /\ g.out[k + 1] = e /\ \A i \in 1 .. k : g.out[i] = f.out[i]
    BY <1>3, <1>5, <1>6, AppendSeq DEF WriterOK
  <2>2. k + 1 <= Len(f.nodes)
    BY <1>3, <1>5, WriterParts
  <2>3. e = Encoded(node[f.nodes[k + 1]], x)
    BY <1>1, <1>5
  <2>4. \A i \in 1 .. k : f.out[i] = Encoded(node[f.nodes[i]], x)
    BY <1>3, <1>5 DEF WriterOK
  <2>5. \A i \in 1 .. k + 1 : g.out[i] = Encoded(node[f.nodes[i]], x)
    BY <2>1, <2>3, <2>4
  <2>6. g.nodes = f.nodes /\ g.roots = f.roots /\ g.format = f.format
    BY <1>6
  <2>7. QED
    BY <1>3, <1>6, <2>1, <2>2, <2>5, <2>6 DEF WriterOK
<1>8. g.kind = "ser" /\ FrameOK(g, ser[t], de[t])
  BY <1>1, <1>6, <1>7 DEF FrameOK
<1>9. UNCHANGED <<node, holds, ser, de, written>>
  BY DEF EncodeNode
<1>10. QED
  BY <1>1, <1>3, <1>4, <1>8, <1>9, TopInv

(* A step that begins a call.                                              *)
LEMMA PushInv ==
  ASSUME IInv, NEW t \in Threads, NEW g, NEW v, NEW z, FrameOK(g, v, z),
         Opens(g.kind, ser[t], de[t], v, z),
         stack' = [stack EXCEPT ![t] = Append(@, g)],
         Changed(ser, ser', t, v), Changed(de, de', t, z), UNCHANGED <<node, holds, written>>
  PROVE  IInv'
<1>1. PICK s, x, y, r : s = stack[t] /\ x = ser[t] /\ y = de[t] /\ r = Append(s, g)
  OBVIOUS
<1>2. CallsOK(s, x, y) /\ Opens(g.kind, x, y, v, z)
  BY <1>1, Facts
<1>3. CallsOK(r, v, z)
  BY <1>1, <1>2, PushedOK
<1>4. Changed(stack, stack', t, r)
  <2>1. stack' = [stack EXCEPT ![t] = r] /\ DOMAIN stack = Threads
    BY <1>1, Facts
  <2>2. QED
    BY <2>1 DEF Changed
<1>5. Hold(holds') /\ \A w \in written' : WrittenOK(w)
  BY Facts DEF Hold
<1>6. QED
  BY <1>3, <1>4, <1>5, QuietInv

(* A step that ends a call.                                                *)
LEMMA PopInv ==
  ASSUME IInv, NEW t \in Threads, stack[t] # <<>>, NEW v, NEW z,
         Opens(Top(t).kind, v, z, ser[t], de[t]),
         stack' = [stack EXCEPT ![t] = Front(@)],
         Changed(ser, ser', t, v), Changed(de, de', t, z), UNCHANGED node,
         Hold(holds'), \A w \in written' : WrittenOK(w)
  PROVE  IInv'
<1>1. PICK s, x, y, r : s = stack[t] /\ x = ser[t] /\ y = de[t] /\ r = Front(s)
  OBVIOUS
<1>2. CallsOK(s, x, y) /\ Opens(s[Len(s)].kind, v, z, x, y) /\ s # <<>>
  BY <1>1, Facts DEF Top, Depth
<1>3. CallsOK(r, v, z)
  BY <1>1, <1>2, PoppedOK
<1>4. Changed(stack, stack', t, r)
  <2>1. stack' = [stack EXCEPT ![t] = r] /\ DOMAIN stack = Threads
    BY <1>1, Facts
  <2>2. QED
    BY <2>1 DEF Changed
<1>5. QED
  BY <1>3, <1>4, QuietInv

LEMMA AbortInv ==
  ASSUME IInv, NEW t \in Threads, stack[t] # <<>>, Abort(t)
  PROVE  IInv'
<1>1. PICK x, y : x = ser[t] /\ y = de[t]
  OBVIOUS
<1>2. DOMAIN ser = Threads /\ DOMAIN de = Threads /\ Top(t).kind \in {"ser", "de"}
  BY Facts, FrameLive
<1>3. UNCHANGED <<node, holds, written>> /\ stack' = [stack EXCEPT ![t] = Front(@)]
  BY DEF Abort
<1>4. Hold(holds') /\ \A w \in written' : WrittenOK(w)
  BY <1>3, Facts DEF Hold
<1>5. CASE Top(t).kind = "ser"
  <2>1. Changed(ser, ser', t, NoSession) /\ Changed(de, de', t, y)
    BY <1>1, <1>2, <1>5 DEF Abort, DropGuard, Changed
  <2>2. Opens(Top(t).kind, NoSession, y, ser[t], de[t])
    BY <1>1, <1>5 DEF Opens
  <2>3. QED
    BY <1>3, <1>4, <2>1, <2>2, PopInv
<1>6. CASE Top(t).kind = "de"
  <2>1. Changed(de, de', t, NoSession) /\ Changed(ser, ser', t, x)
    BY <1>1, <1>2, <1>6 DEF Abort, DropGuard, Changed
  <2>2. Opens(Top(t).kind, x, NoSession, ser[t], de[t])
    BY <1>1, <1>6 DEF Opens
  <2>3. QED
    BY <1>3, <1>4, <2>1, <2>2, PopInv
<1>7. QED
  BY <1>2, <1>5, <1>6

LEMMA RootsAreSeqs ==
  ASSUME NEW t, NEW roots \in SomeRoots(t), RootsOf(roots) \subseteq holds[t], NEW ty \in RootTypes
  PROVE  IsSeq(roots[ty]) /\ Range(roots[ty]) \subseteq holds[t]
<1>1. PICK r : r = roots[ty]
  OBVIOUS
<1>2. r = <<>> \/ \E n \in holds[t] : r = <<n>>
  BY <1>1 DEF SomeRoots
<1>3. IsSeq(r)
  <2>1. PICK H : H = holds[t]
    OBVIOUS
  <2>2. CASE r = <<>>
    <3>1. r \in Seq(H)
      BY <2>2
    <3>2. QED
      BY <3>1, SeqIsSeq
  <2>3. CASE \E n \in H : r = <<n>>
    <3>1. PICK n \in H : r = <<n>>
      BY <2>3
    <3>2. <<n>> \in Seq(H)
      OBVIOUS
    <3>3. QED
      BY <3>1, <3>2, SeqIsSeq
  <2>4. QED
    BY <1>2, <2>1, <2>2, <2>3
<1>4. Range(r) \subseteq holds[t]
  BY <1>1 DEF RootsOf
<1>5. QED
  BY <1>1, <1>3, <1>4

LEMMA SerializeInv ==
  ASSUME IInv, NEW t \in Threads, NEW format \in Formats, NEW roots \in SomeRoots(t), Serialize(t, format, roots)
  PROVE  IInv'
<1>1. PICK nodes, x, z : nodes = CollectRoots(roots) /\ x = Indices(nodes) /\ z = de[t]
  OBVIOUS
<1>2. PICK g : g = [kind |-> "ser", format |-> format, roots |-> roots, nodes |-> nodes, out |-> <<>>]
  OBVIOUS
<1>3. HeapOK /\ holds[t] \subseteq Live
  BY Facts DEF Hold
<1>4. \A ty \in RootTypes : IsSeq(roots[ty]) /\ Range(roots[ty]) \subseteq Live
  BY <1>3, RootsAreSeqs DEF Serialize
<1>5. Listed(nodes) /\ Needed(nodes, RootsOf(roots)) /\ \A n \in RootsOf(roots) : Among(n, nodes)
  BY <1>1, <1>3, <1>4, CollectsRoots
<1>6. WriterOK(g, x)
  <2>1. IsSeq(<<>>) /\ Len(<<>>) = 0
    BY DEF IsSeq
  <2>2. Len(nodes) \in Nat
    BY <1>5 DEF Listed
  <2>3. QED
    BY <1>1, <1>2, <1>4, <1>5, <2>1, <2>2 DEF WriterOK
<1>7. FrameOK(g, x, z) /\ Opens(g.kind, ser[t], de[t], x, z)
  BY <1>1, <1>2, <1>6 DEF FrameOK, Opens, Serialize, MayOpen
<1>8. Changed(ser, ser', t, x) /\ Changed(de, de', t, z)
  <2>1. DOMAIN ser = Threads /\ DOMAIN de = Threads
    BY Facts
  <2>2. ser' = [ser EXCEPT ![t] = x] /\ de' = de
    BY <1>1 DEF Serialize
  <2>3. QED
    BY <1>1, <2>1, <2>2 DEF Changed
<1>9. stack' = [stack EXCEPT ![t] = Append(@, g)] /\ UNCHANGED <<node, holds, written>>
  BY <1>1, <1>2 DEF Serialize
<1>10. QED
  BY <1>7, <1>8, <1>9, PushInv

LEMMA DeserializeInv ==
  ASSUME IInv, NEW t \in Threads, NEW a \in Readable, Deserialize(t, a)
  PROVE  IInv'
<1>1. PICK g, x : g = [kind |-> "de", archive |-> a, part |-> 1, roots |-> NoRoots] /\ x = ser[t]
  OBVIOUS
<1>2. IsArchive(a)
  BY SerializeAssumption DEF IInv, WrittenOK, Readable
<1>3. Len(a.parts) \in Nat
  BY <1>2 DEF IsArchive, IsSeq
<1>4. RootsOf(NoRoots) = {}
  <2>1. ASSUME NEW ty \in RootTypes PROVE Range(NoRoots[ty]) = {}
    BY DEF NoRoots, Range
  <2>2. QED
    BY <2>1 DEF RootsOf
<1>5. ReaderOK(g, <<>>)
  <2>1. <<>> \in Seq(Live) /\ Len(<<>>) = 0
    OBVIOUS
  <2>2. \A content : Len(content) \in Nat => Decodes(content, <<>>)
    BY <2>1 DEF Decodes
  <2>3. ASSUME NEW p \in 1 .. 1, Named(a, p, "nodes") PROVE Len(a.parts[p].content) \in Nat
    <3>1. p \in DOMAIN a.parts
      <4>1. IsSeq(a.parts)
        BY <1>2 DEF IsArchive
      <4>2. PICK S : a.parts \in Seq(S)
        BY ONLY <4>1, SeqIs, Zenon
      <4>3. QED
        BY <2>3, <4>2 DEF Named
    <3>2. IsSeq(a.parts[p].content)
      BY <1>2, <2>3, <3>1 DEF IsArchive, Named
    <3>3. QED
      BY <3>2 DEF IsSeq
  <2>4. HeaderOK(a)
    BY DEF Deserialize
  <2>5. QED
    BY <1>1, <1>2, <1>3, <1>4, <2>1, <2>2, <2>3, <2>4 DEF ReaderOK
<1>6. FrameOK(g, x, <<>>) /\ Opens(g.kind, ser[t], de[t], x, <<>>)
  BY <1>1, <1>5 DEF FrameOK, Opens, Deserialize, MayOpen
<1>7. Changed(ser, ser', t, x) /\ Changed(de, de', t, <<>>)
  <2>1. DOMAIN ser = Threads /\ DOMAIN de = Threads
    BY Facts
  <2>2. de' = [de EXCEPT ![t] = <<>>] /\ ser' = ser
    BY DEF Deserialize
  <2>3. QED
    BY <1>1, <2>1, <2>2 DEF Changed
<1>8. stack' = [stack EXCEPT ![t] = Append(@, g)] /\ UNCHANGED <<node, holds, written>>
  BY <1>1 DEF Deserialize
<1>9. QED
  BY <1>6, <1>7, <1>8, PushInv

-----------------------------------------------------------------------------
(***************************************************************************)
(* Reading.                                                                *)
(***************************************************************************)
LEMMA FieldsAre ==
  /\ Fields = {"version", "nodes", "roots"} /\ Junk \notin Fields
  /\ FieldNames[1] = "version" /\ FieldNames[2] = "nodes" /\ FieldNames[3] = "roots"
<1>1. PICK s : s = FieldNames
  OBVIOUS
<1>2. s = <<"version", "nodes", "roots">>
  BY <1>1 DEF FieldNames
<1>3. DOMAIN s = 1 .. 3 /\ s[1] = "version" /\ s[2] = "nodes" /\ s[3] = "roots"
  BY <1>2
<1>4. \A i \in 1 .. 3 : i = 1 \/ i = 2 \/ i = 3
  OBVIOUS
<1>5. Range(s) = {s[1], s[2], s[3]}
  BY <1>3, <1>4 DEF Range
<1>6. QED
  BY <1>1, <1>3, <1>5 DEF Fields, Junk

LEMMA ReaderParts ==
  ASSUME NEW f, NEW y, ReaderOK(f, y)
  PROVE  /\ IsSeq(f.archive.parts) /\ Len(f.archive.parts) \in Nat
         /\ DOMAIN f.archive.parts = 1 .. Len(f.archive.parts)
         /\ y \in Seq(Live) /\ Len(y) \in Nat /\ \A i \in 1 .. Len(y) : y[i] \in Live
         /\ f.part \in 1 .. Len(f.archive.parts) + 1 /\ f.part \in Nat
         /\ f.kind = "de" /\ y # NoSession
<1>1. IsSeq(f.archive.parts) /\ y \in Seq(Live) /\ f.kind = "de" /\ f.part \in 1 .. Len(f.archive.parts) + 1
  <2>1. IsArchive(f.archive) /\ y \in Seq(Live) /\ f.part \in 1 .. Len(f.archive.parts) + 1
    BY DEF ReaderOK
  <2>2. IsSeq(f.archive.parts)
    BY ONLY <2>1 DEF IsArchive
  <2>3. f = [kind |-> "de", archive |-> f.archive, part |-> f.part, roots |-> f.roots]
    BY DEF ReaderOK
  <2>4. f.kind = "de"
    BY ONLY <2>3
  <2>5. QED
    BY ONLY <2>1, <2>2, <2>4
<1>2. PICK p : p = f.archive.parts
  OBVIOUS
<1>3. IsSeq(p)
  BY <1>1, <1>2
<1>4. PICK S : p \in Seq(S)
  BY ONLY <1>3, SeqIs, Zenon
<1>5. Len(p) \in Nat /\ DOMAIN p = 1 .. Len(p)
  BY <1>4
<1>6. y # NoSession
  BY <1>1, SomeSession
<1>7. QED
  BY <1>1, <1>2, <1>5, <1>6

LEMMA Contents ==
  ASSUME NEW a, IsArchive(a), NEW p, Named(a, p, "nodes")
  PROVE  LET content == a.parts[p].content
         IN  /\ IsSeq(content) /\ Len(content) \in Nat /\ DOMAIN content = 1 .. Len(content)
             /\ \A k \in 1 .. Len(content) : \A i \in DOMAIN content[k].fields :
                  content[k].fields[i].index \in Nat
<1>1. PICK ps, c : ps = a.parts /\ c = a.parts[p].content
  OBVIOUS
<1>2. IsSeq(ps)
  BY <1>1 DEF IsArchive
<1>3. PICK S : ps \in Seq(S)
  BY ONLY <1>2, SeqIs, Zenon
<1>4. p \in DOMAIN ps
  BY <1>1, <1>3 DEF Named
<1>5. IsSeq(c) /\ \A k \in DOMAIN c : \A i \in DOMAIN c[k].fields : c[k].fields[i].index \in Nat
  BY <1>1, <1>4 DEF IsArchive, Named
<1>6. PICK T : c \in Seq(T)
  BY ONLY <1>5, SeqIs, Zenon
<1>7. DOMAIN c = 1 .. Len(c) /\ Len(c) \in Nat
  BY <1>6
<1>8. QED
  BY <1>1, <1>5, <1>7

LEMMA RootContents ==
  ASSUME NEW a, IsArchive(a), NEW p, Named(a, p, "roots"), NEW ty \in RootTypes
  PROVE  LET r == a.parts[p].content[ty]
         IN  /\ IsSeq(r) /\ Len(r) \in Nat /\ DOMAIN r = 1 .. Len(r)
             /\ \A i \in DOMAIN r : r[i] \in Nat
<1>1. PICK ps, r : ps = a.parts /\ r = a.parts[p].content[ty]
  OBVIOUS
<1>2. IsSeq(ps)
  BY <1>1 DEF IsArchive
<1>3. PICK S : ps \in Seq(S)
  BY ONLY <1>2, SeqIs, Zenon
<1>4. p \in DOMAIN ps
  BY <1>1, <1>3 DEF Named
<1>5. IsSeq(r) /\ Range(r) \subseteq Nat
  BY <1>1, <1>4 DEF IsArchive, Named
<1>6. PICK T : r \in Seq(T)
  BY ONLY <1>5, SeqIs, Zenon
<1>7. DOMAIN r = 1 .. Len(r) /\ Len(r) \in Nat /\ Range(r) = {r[i] : i \in 1 .. Len(r)}
  BY <1>6, SeqIsSeq
<1>8. QED
  BY <1>1, <1>5, <1>7

(* A part is done: what was decoded before stays so.                       *)
Advanced(f, roots) ==
  [kind |-> "de", archive |-> f.archive, part |-> f.part + 1, roots |-> roots]

LEMMA AdvanceOK ==
  ASSUME HeapOK, NEW f, NEW y, ReaderOK(f, y), NEW roots, f.part <= Len(f.archive.parts),
         PartOK(Advanced(f, roots), y, f.part), RootsOf(roots) \subseteq Live,
         \A p \in 1 .. f.part - 1 : f.archive.parts[p].name = "roots" => roots = f.roots
  PROVE  ReaderOK(Advanced(f, roots), y)
<1>1. PICK a, q, m : a = f.archive /\ q = f.part /\ m = Len(f.archive.parts)
  OBVIOUS
<1>2. /\ m \in Nat /\ q \in Nat /\ q \in 1 .. m /\ q + 1 \in 1 .. m + 1
      /\ IsArchive(a) /\ HeaderOK(a) /\ y \in Seq(Live)
  <2>1. m \in Nat /\ q \in Nat /\ q \in 1 .. m + 1 /\ q <= m /\ IsArchive(a) /\ HeaderOK(a) /\ y \in Seq(Live)
    BY <1>1, ReaderParts DEF ReaderOK
  <2>2. QED
    BY <2>1
<1>3. PICK g : g = Advanced(f, roots)
  OBVIOUS
<1>4. g = [kind |-> "de", archive |-> a, part |-> q + 1, roots |-> roots]
  BY <1>1, <1>3 DEF Advanced
<1>5. ASSUME NEW p \in 1 .. q PROVE PartOK(g, y, p)
  <2>1. CASE p = q
    BY <1>1, <1>3, <2>1
  <2>2. CASE p # q
    <3>1. p \in 1 .. q - 1
      BY <1>2, <2>2
    <3>2. PartOK(f, y, p)
      BY <1>1, <3>1 DEF ReaderOK
    <3>3. a.parts[p].name = "roots" => g.roots = f.roots
      BY <1>1, <1>4, <3>1
    <3>4. QED
      BY <1>1, <1>4, <3>2, <3>3 DEF PartOK
  <2>3. QED
    BY <2>1, <2>2
<1>6. ASSUME NEW p \in 1 .. q + 1, Named(a, p, "nodes"), First(a, p)
      PROVE  Decodes(a.parts[p].content, y)
  <2>1. CASE p \in 1 .. q
    BY <1>1, <1>6, <2>1 DEF ReaderOK
  <2>2. CASE p \notin 1 .. q
    <3>1. p = q + 1
      BY <1>2, <2>2
    <3>2. \A i \in 1 .. q : i \in 1 .. p - 1
      BY <1>2, <3>1
    <3>3. \A i \in 1 .. q : ~Named(a, i, "nodes")
      BY <1>6, <3>2 DEF Named, First
    <3>4. y = <<>>
      BY <1>1, <3>3 DEF ReaderOK
    <3>5. Len(a.parts[p].content) \in Nat
      BY <1>2, <1>6, Contents
    <3>6. Len(<<>>) = 0
      OBVIOUS
    <3>7. QED
      BY <3>4, <3>5, <3>6 DEF Decodes
  <2>3. QED
    BY <2>1, <2>2
<1>7. (\A p \in 1 .. q + 1 : ~Named(a, p, "nodes")) => y = <<>>
  <2>1. \A p \in 1 .. q : p \in 1 .. q + 1
    BY <1>2
  <2>2. QED
    BY <1>1, <2>1 DEF ReaderOK
<1>8. \A p \in 1 .. g.part - 1 : PartOK(g, y, p)
  BY <1>2, <1>4, <1>5
<1>9. QED
  BY <1>1, <1>2, <1>3, <1>4, <1>6, <1>7, <1>8 DEF ReaderOK

LEMMA PartIs ==
  ASSUME IInv, NEW t \in Threads, NEW name, AtPart(t, name), NEW f, f = Top(t)
  PROVE  /\ ReaderOK(f, de[t]) /\ stack[t] # <<>> /\ f.kind = "de"
         /\ f.part <= Len(f.archive.parts) /\ f.part \in 1 .. Len(f.archive.parts)
         /\ Named(f.archive, f.part, name)
         /\ FirstOfItsName(t) <=> First(f.archive, f.part)
         /\ Content(t) = f.archive.parts[f.part].content
<1>1. ReaderOK(f, de[t]) /\ stack[t] # <<>> /\ f.kind = "de"
  BY ReaderIs DEF AtPart
<1>2. f.part <= Len(f.archive.parts) /\ f.archive.parts[f.part].name = name
  BY DEF AtPart, Parts
<1>3. f.part \in 1 .. Len(f.archive.parts)
  <2>1. PICK m, q : m = Len(f.archive.parts) /\ q = f.part
    OBVIOUS
  <2>2. m \in Nat /\ q \in 1 .. m + 1 /\ q <= m
    BY <1>1, <1>2, <2>1, ReaderParts
  <2>3. q \in 1 .. m
    BY <2>2
  <2>4. QED
    BY <2>1, <2>3
<1>4. QED
  BY <1>1, <1>2, <1>3 DEF Named, First, FirstOfItsName, Parts, Content

LEMMA AdvanceInv ==
  ASSUME IInv, NEW t \in Threads, InCall(t, "de"), NEW f, f = Top(t), NEW roots,
         \/ stack' = PartDone(t) /\ roots = f.roots
         \/ stack' = [PartDone(t) EXCEPT ![t][Depth(t)].roots = roots],
         ReaderOK(Advanced(f, roots), de[t]), UNCHANGED <<node, holds, ser, de, written>>
  PROVE  IInv'
<1>1. /\ ReaderOK(f, de[t]) /\ stack[t] # <<>> /\ f.kind = "de"
      /\ f = [kind |-> "de", archive |-> f.archive, part |-> f.part, roots |-> f.roots]
  BY ReaderIs DEF ReaderOK
<1>2. PICK g, d, s : g = Advanced(f, roots) /\ d = Depth(t) /\ s = stack[t]
  OBVIOUS
<1>3. s[d] = f /\ DOMAIN stack = Threads /\ IsSeq(s) /\ d \in 1 .. Len(s) /\ DOMAIN s = 1 .. Len(s)
  <2>1. IsSeq(s) /\ d \in 1 .. Len(s)
    BY <1>1, <1>2, Facts, CallsTop DEF Depth
  <2>2. PICK S : s \in Seq(S)
    BY ONLY <2>1, SeqIs, Zenon
  <2>3. DOMAIN s = 1 .. Len(s)
    BY <2>2
  <2>4. QED
    BY <1>2, <2>1, <2>3, Facts DEF Top
<1>4. [f EXCEPT !.part = f.part + 1] = Advanced(f, f.roots)
  BY <1>1 DEF Advanced
<1>5. [Advanced(f, f.roots) EXCEPT !.roots = roots] = g
  BY <1>2 DEF Advanced
<1>6. PICK e : e = Advanced(f, f.roots)
  OBVIOUS
<1>7. PartDone(t) = [stack EXCEPT ![t] = [s EXCEPT ![d] = e]]
  BY <1>2, <1>3, <1>4, <1>6 DEF PartDone
<1>8. stack' = [stack EXCEPT ![t] = [s EXCEPT ![d] = g]]
  <2>1. CASE stack' = PartDone(t) /\ roots = f.roots
    BY <1>2, <1>6, <1>7, <2>1
  <2>2. CASE stack' = [PartDone(t) EXCEPT ![t][Depth(t)].roots = roots]
    <3>1. PICK q, w : q = [s EXCEPT ![d] = e] /\ w = [s EXCEPT ![d] = g]
      OBVIOUS
    <3>2. q[d] = e /\ [q EXCEPT ![d] = g] = w
      BY <1>3, <3>1
    <3>3. PICK st : st = PartDone(t)
      OBVIOUS
    <3>4. st = [stack EXCEPT ![t] = q] /\ st[t] = q /\ DOMAIN st = Threads
      BY <1>3, <1>7, <3>1, <3>3
    <3>5. stack' = [st EXCEPT ![t] = [q EXCEPT ![d] = [q[d] EXCEPT !.roots = roots]]]
      BY <1>2, <2>2, <3>3, <3>4
    <3>6. [q[d] EXCEPT !.roots = roots] = g
      BY <1>5, <1>6, <3>2
    <3>7. stack' = [st EXCEPT ![t] = w]
      BY <3>2, <3>5, <3>6
    <3>8. stack' = [stack EXCEPT ![t] = w]
      BY <3>4, <3>7
    <3>9. QED
      BY <3>1, <3>8
  <2>3. QED
    BY <2>1, <2>2
<1>9. Changed(stack, stack', t, Updated(stack[t], Depth(t), g))
  BY <1>2, <1>3, <1>8 DEF Changed, Updated
<1>10. g.kind = Top(t).kind /\ FrameOK(g, ser[t], de[t])
  BY <1>1, <1>2 DEF Advanced, FrameOK
<1>11. QED
  BY <1>1, <1>9, <1>10, TopInv

LEMMA DecodeVersionInv ==
  ASSUME IInv, NEW t \in Threads, DecodeVersion(t)
  PROVE  IInv'
<1>1. PICK f, y : f = Top(t) /\ y = de[t]
  OBVIOUS
<1>2. /\ ReaderOK(f, y) /\ InCall(t, "de") /\ f.part <= Len(f.archive.parts)
      /\ Named(f.archive, f.part, "version") /\ First(f.archive, f.part)
      /\ f.archive.parts[f.part].content = Version
  BY <1>1, PartIs DEF DecodeVersion, VersionFits, AtPart
<1>3. PartOK(Advanced(f, f.roots), y, f.part)
  BY <1>2 DEF PartOK, Advanced, Named, Junk
<1>4. ReaderOK(Advanced(f, f.roots), y)
  BY <1>2, <1>3, AdvanceOK DEF IInv, ReaderOK
<1>5. stack' = PartDone(t) /\ UNCHANGED <<node, holds, ser, de, written>>
  BY DEF DecodeVersion
<1>6. QED
  BY <1>1, <1>2, <1>4, <1>5, AdvanceInv

LEMMA EndNodesInv ==
  ASSUME IInv, NEW t \in Threads, EndNodes(t)
  PROVE  IInv'
<1>1. PICK f, y : f = Top(t) /\ y = de[t]
  OBVIOUS
<1>2. /\ ReaderOK(f, y) /\ InCall(t, "de") /\ f.part <= Len(f.archive.parts)
      /\ Named(f.archive, f.part, "nodes") /\ First(f.archive, f.part)
      /\ f.part \in 1 .. Len(f.archive.parts)
      /\ ~(Len(y) < Len(f.archive.parts[f.part].content))
  BY <1>1, PartIs DEF EndNodes, NodesEnd, AtPart, MoreToDecode
<1>3. Len(y) = Len(f.archive.parts[f.part].content)
  <2>1. f.part \in 1 .. f.part /\ Len(y) \in Nat
    BY <1>2, ReaderParts
  <2>2. Len(y) <= Len(f.archive.parts[f.part].content) /\ IsArchive(f.archive)
    BY <1>2, <2>1 DEF ReaderOK, Decodes
  <2>3. Len(f.archive.parts[f.part].content) \in Nat
    BY <1>2, <2>2, Contents
  <2>4. QED
    BY <1>2, <2>1, <2>2, <2>3
<1>4. PartOK(Advanced(f, f.roots), y, f.part)
  BY <1>2, <1>3 DEF PartOK, Advanced, Named, Junk
<1>5. ReaderOK(Advanced(f, f.roots), y)
  BY <1>2, <1>4, AdvanceOK DEF IInv, ReaderOK
<1>6. stack' = PartDone(t) /\ UNCHANGED <<node, holds, ser, de, written>>
  BY DEF EndNodes
<1>7. QED
  BY <1>1, <1>2, <1>5, <1>6, AdvanceInv

LEMMA IgnorePartInv ==
  ASSUME IInv, NEW t \in Threads, IgnorePart(t)
  PROVE  IInv'
<1>1. PICK f, y, name : f = Top(t) /\ y = de[t] /\ name = Parts(t)[Top(t).part].name
  OBVIOUS
<1>2. AtPart(t, name) /\ InCall(t, "de") /\ name \notin Fields \cup {Junk}
  BY <1>1 DEF IgnorePart, IsUnknown, AtPart
<1>3. ReaderOK(f, y) /\ f.part <= Len(f.archive.parts) /\ Named(f.archive, f.part, name)
  BY <1>1, <1>2, PartIs
<1>4. PartOK(Advanced(f, f.roots), y, f.part)
  BY <1>2, <1>3, FieldsAre DEF PartOK, Advanced, Named
<1>5. ReaderOK(Advanced(f, f.roots), y)
  BY <1>3, <1>4, AdvanceOK DEF IInv, ReaderOK
<1>6. stack' = PartDone(t) /\ UNCHANGED <<node, holds, ser, de, written>>
  BY DEF IgnorePart
<1>7. QED
  BY <1>1, <1>2, <1>5, <1>6, AdvanceInv

LEMMA DecodeRootsInv ==
  ASSUME IInv, NEW t \in Threads, DecodeRoots(t)
  PROVE  IInv'
<1>1. PICK f, y, content : f = Top(t) /\ y = de[t] /\ content = f.archive.parts[f.part].content
  OBVIOUS
<1>2. /\ ReaderOK(f, y) /\ InCall(t, "de") /\ f.part <= Len(f.archive.parts)
      /\ Named(f.archive, f.part, "roots") /\ First(f.archive, f.part)
      /\ Content(t) = content /\ RootsOK(content, y) /\ IsArchive(f.archive)
  BY <1>1, PartIs DEF DecodeRoots, RootsFit, AtPart, ReaderOK
<1>3. PICK roots : roots = [ty \in RootTypes |-> [i \in DOMAIN content[ty] |-> y[content[ty][i] + 1]]]
  OBVIOUS
<1>4. ASSUME NEW ty \in RootTypes, NEW i \in DOMAIN content[ty]
      PROVE  /\ RefOK(content[ty][i], {ty}, y)
             /\ content[ty][i] + 1 \in 1 .. Len(y)
  <2>1. content[ty][i] \in Nat
    BY <1>1, <1>2, RootContents
  <2>2. IsRef(content[ty][i], {ty}, y)
    BY <1>2 DEF RootsOK
  <2>3. Len(y) \in Nat
    BY <1>2, ReaderParts
  <2>4. QED
    BY <2>1, <2>2, <2>3 DEF RefOK, IsRef
<1>5. RootsRead(roots, content, y)
  BY <1>3, <1>4 DEF RootsRead
<1>6. ASSUME NEW ty \in RootTypes, NEW i \in DOMAIN content[ty]
      PROVE  \E q \in 1 .. f.part - 1 : Named(f.archive, q, "nodes")
  <2>1. y # <<>>
    <3>1. content[ty][i] + 1 \in 1 .. Len(y)
      BY <1>4
    <3>2. CASE y = <<>>
      <4>1. 1 .. Len(y) = {}
        BY <3>2
      <4>2. QED
        BY <3>1, <4>1
    <3>3. QED
      BY <3>2
  <2>2. PICK q \in 1 .. f.part : Named(f.archive, q, "nodes")
    BY <1>2, <2>1 DEF ReaderOK
  <2>3. q # f.part /\ f.part \in Nat
    BY <1>2, <2>2, ReaderParts DEF Named
  <2>4. q \in 1 .. f.part - 1
    BY <2>3
  <2>5. QED
    BY <2>2, <2>4
<1>7. RootsOf(roots) \subseteq Live
  <2>1. ASSUME NEW ty \in RootTypes PROVE Range(roots[ty]) \subseteq Live
    <3>1. \A i \in DOMAIN content[ty] : y[content[ty][i] + 1] \in Live
      BY <1>2, <1>4, ReaderParts
    <3>2. QED
      BY <1>3, <3>1 DEF Range
  <2>2. QED
    BY <2>1 DEF RootsOf
<1>8. PartOK(Advanced(f, roots), y, f.part)
  BY <1>1, <1>2, <1>5, <1>6 DEF PartOK, Advanced, Named, Junk
<1>9. \A p \in 1 .. f.part - 1 : f.archive.parts[p].name # "roots"
  BY <1>2 DEF First, Named
<1>10. ReaderOK(Advanced(f, roots), y)
  BY <1>2, <1>7, <1>8, <1>9, AdvanceOK DEF IInv
<1>11. stack' = [PartDone(t) EXCEPT ![t][Depth(t)].roots = roots]
  BY <1>1, <1>2, <1>3 DEF DecodeRoots
<1>12. UNCHANGED <<node, holds, ser, de, written>>
  BY DEF DecodeRoots
<1>13. QED
  BY <1>1, <1>2, <1>10, <1>11, <1>12, AdvanceInv

(* The entry decoded next is data of the program's types.                  *)
LEMMA DecodedIsData ==
  ASSUME HeapTypeOK, NEW e, NEW y \in Seq(Live), NodeOK(e, y),
         \A i \in DOMAIN e.fields : e.fields[i].index \in Nat
  PROVE  /\ Decoded(e, y) \in AllData /\ IsData(Decoded(e, y))
         /\ \A i \in DOMAIN e.fields : e.fields[i].index + 1 \in 1 .. Len(y)
<1>1. PICK l, m, d : l = e.label /\ m = Len(Shape[l]) /\ d = Decoded(e, y)
  OBVIOUS
<1>2. l \in Labels /\ m \in Nat /\ DOMAIN Shape[l] = 1 .. m /\ DOMAIN e.fields = 1 .. m
  BY <1>1, HeapAssumption DEF NodeOK
<1>3. /\ d.label = l /\ d = [label |-> l, fields |-> d.fields]
      /\ d.fields = [i \in 1 .. m |->
           [variant |-> e.fields[i].variant, ref |-> y[e.fields[i].index + 1]]]
  BY <1>1, <1>2 DEF Decoded
<1>4. ASSUME NEW i \in 1 .. m
      PROVE  /\ e.fields[i].index + 1 \in 1 .. Len(y)
             /\ y[e.fields[i].index + 1] \in Live
             /\ <<e.fields[i].variant, Type(y[e.fields[i].index + 1])>> \in Shape[l][i]
             /\ e.fields[i].variant \in Variants
  <2>1. e.fields[i].index \in Nat /\ IsRef(e.fields[i].index, FieldTypes(e, i), y) /\ Len(y) \in Nat
    BY <1>2 DEF NodeOK
  <2>2. PICK j : j = e.fields[i].index + 1
    OBVIOUS
  <2>3. j \in 1 .. Len(y)
    BY <2>1, <2>2 DEF IsRef
  <2>4. y[j] \in Live
    BY <2>3
  <2>5. PICK a \in Shape[l][i] : a[1] = e.fields[i].variant /\ a[2] = Type(y[j])
    BY <1>1, <2>1, <2>2 DEF IsRef, FieldTypes
  <2>6. a = <<a[1], a[2]>>
    BY <1>2, <2>5, SerializeAssumption
  <2>7. <<e.fields[i].variant, Type(y[j])>> \in Shape[l][i]
    BY <2>5, <2>6
  <2>8. a[1] \in Variants
    BY <1>2, <2>5 DEF Variants
  <2>9. QED
    BY <2>2, <2>3, <2>4, <2>5, <2>7, <2>8
<1>5. \A i \in 1 .. m : d.fields[i] \in [variant : Variants, ref : Nodes]
  <2>1. Live \subseteq Nodes
    BY DEF Live
  <2>2. ASSUME NEW i \in 1 .. m PROVE d.fields[i] \in [variant : Variants, ref : Nodes]
    <3>1. PICK v, n : v = e.fields[i].variant /\ n = y[e.fields[i].index + 1]
      OBVIOUS
    <3>2. v \in Variants /\ n \in Nodes /\ d.fields[i] = [variant |-> v, ref |-> n]
      BY <1>3, <1>4, <2>1, <3>1
    <3>3. QED
      BY <3>2
  <2>3. QED
    BY <2>2
<1>6. PICK R : R = [variant : Variants, ref : Nodes]
  OBVIOUS
<1>7. d.fields \in [DOMAIN Shape[l] -> R]
  BY <1>2, <1>3, <1>5, <1>6
<1>8. d \in [label : {l}, fields : [DOMAIN Shape[l] -> R]]
  BY <1>3, <1>7
<1>9. d \in AllData
  BY <1>2, <1>6, <1>8 DEF AllData, DataOver
<1>10. \A i \in 1 .. m : IsField(d.fields[i], Shape[l][i])
  BY <1>3, <1>4 DEF IsField
<1>11. IsData(d)
  BY <1>2, <1>3, <1>10 DEF IsData
<1>12. QED
  BY <1>1, <1>2, <1>4, <1>9, <1>11

(* What NodeOK checks is what an entry that was decoded satisfies.         *)
LEMMA NewEntry ==
  ASSUME NEW e, NEW y, NEW z, NodeOK(e, y), Len(y) \in Nat, Len(z) = Len(y) + 1,
         \A i \in 1 .. Len(y) : z[i] = y[i] /\ Type(y[i])' = Type(y[i]),
         \A i \in DOMAIN e.fields : e.fields[i].index \in Nat,
         node'[z[Len(z)]] = Decoded(e, y)
  PROVE  EntryOK(e, z, Len(z))'
<1>1. PICK l : l = Len(y)
  OBVIOUS
<1>2. ASSUME NEW i \in DOMAIN e.fields
      PROVE  /\ z[e.fields[i].index + 1] = y[e.fields[i].index + 1]
             /\ e.fields[i].index + 1 < l + 1
             /\ RefOK(e.fields[i].index, FieldTypes(e, i), z)'
  <2>1. PICK j : j = e.fields[i].index
    OBVIOUS
  <2>2. j \in Nat /\ j < l /\ Type(y[j + 1]) \in FieldTypes(e, i)
    BY <1>1, <2>1 DEF NodeOK, IsRef
  <2>3. j + 1 \in 1 .. l /\ j < l + 1 /\ j + 1 < l + 1
    BY <1>1, <2>2
  <2>4. z[j + 1] = y[j + 1] /\ Type(z[j + 1])' = Type(y[j + 1])
    BY <1>1, <2>3 DEF Type
  <2>5. RefOK(j, FieldTypes(e, i), z)'
    BY <1>1, <2>2, <2>3, <2>4 DEF RefOK, IsRef, FieldTypes
  <2>6. QED
    BY <2>1, <2>3, <2>4, <2>5
<1>3. Decoded(e, z) = Decoded(e, y)
  <2>1. [i \in DOMAIN e.fields |-> [variant |-> e.fields[i].variant, ref |-> z[e.fields[i].index + 1]]]
      = [i \in DOMAIN e.fields |-> [variant |-> e.fields[i].variant, ref |-> y[e.fields[i].index + 1]]]
    BY <1>2
  <2>2. QED
    BY <2>1 DEF Decoded
<1>4. QED
  BY <1>1, <1>2, <1>3 DEF EntryOK, NodeOK, FieldTypes

LEMMA DecodeNodeInv ==
  ASSUME IInv, NEW t \in Threads, DecodeNode(t)
  PROVE  IInv'
<1>1. PICK f, y, content, k : f = Top(t) /\ y = de[t] /\ content = f.archive.parts[f.part].content
                              /\ k = Len(y) + 1
  OBVIOUS
<1>2. /\ ReaderOK(f, y) /\ f.part \in 1 .. Len(f.archive.parts) /\ f.kind = "de"
      /\ Named(f.archive, f.part, "nodes") /\ First(f.archive, f.part) /\ IsArchive(f.archive)
      /\ Content(t) = content /\ Len(y) < Len(content) /\ stack[t] # <<>>
  BY <1>1, PartIs DEF DecodeNode, NodeFits, MoreToDecode, ReaderOK
<1>3. PICK e, d, n : e = content[k] /\ d = Decoded(e, y) /\ n = hashcons(d)
  OBVIOUS
<1>4. NextNode(t) = e
  BY <1>1, <1>2, <1>3 DEF NextNode
<1>5. NodeOK(e, y) /\ Store(d) /\ de' = [de EXCEPT ![t] = Append(y, n)]
  BY <1>1, <1>3, <1>4 DEF DecodeNode, NodeFits
<1>6. y \in Seq(Live) /\ Len(y) \in Nat /\ Len(content) \in Nat /\ k \in 1 .. Len(content)
  <2>1. y \in Seq(Live) /\ Len(y) \in Nat
    BY <1>2, ReaderParts
  <2>2. Len(content) \in Nat
    BY <1>1, <1>2, Contents
  <2>3. k = Len(y) + 1 /\ Len(y) < Len(content)
    BY ONLY <1>1, <1>2
  <2>4. QED
    BY ONLY <2>1, <2>2, <2>3
<1>7. \A i \in DOMAIN e.fields : e.fields[i].index \in Nat
  <2>1. PICK a, p : a = f.archive /\ p = f.part
    OBVIOUS
  <2>2. IsArchive(a) /\ Named(a, p, "nodes") /\ content = a.parts[p].content
    BY ONLY <1>1, <1>2, <2>1
  <2>3. \A j \in 1 .. Len(content) : \A i \in DOMAIN content[j].fields : content[j].fields[i].index \in Nat
    BY <2>2, Contents
  <2>4. QED
    BY ONLY <1>3, <1>6, <2>3
<1>8. HeapOK /\ HeapTypeOK
  BY Facts
<1>9. d \in AllData /\ IsData(d)
  BY <1>3, <1>5, <1>6, <1>7, <1>8, DecodedIsData
<1>10. HeapOK' /\ Grows /\ n \in Live' /\ node'[n] = d
  BY <1>3, <1>5, <1>8, <1>9, StoreOK, StoreAnswers
<1>11. Keeps(Live)
  BY <1>8, <1>10, GrowsKeeps
<1>12. PICK z : z = Append(y, n)
  OBVIOUS
<1>13. /\ z \in Seq(Live') /\ Len(z) = k /\ z[k] = n /\ \A i \in 1 .. Len(y) : z[i] = y[i]
  <2>1. Live \subseteq Live'
    BY <1>10 DEF Grows
  <2>2. y \in Seq(Live')
    BY <1>6, <2>1, SeqOver
  <2>3. QED
    BY <1>1, <1>10, <1>12, <2>2, AppendProperties
<1>14. \A i \in 1 .. Len(y) : y[i] \in Live /\ Type(y[i])' = Type(y[i])
  <2>1. \A i \in 1 .. Len(y) : y[i] \in Live
    BY <1>6
  <2>2. QED
    BY <1>8, <1>10, <1>11, <2>1, KeptIs
<1>15. Goes(Live, y, z)
  BY <1>1, <1>6, <1>13, <1>14 DEF Goes
<1>16. EntryOK(e, z, k)'
  <2>1. /\ NodeOK(e, y) /\ Len(y) \in Nat /\ Len(z) = Len(y) + 1 /\ Len(z) = k
        /\ \A i \in 1 .. Len(y) : z[i] = y[i] /\ Type(y[i])' = Type(y[i])
        /\ \A i \in DOMAIN e.fields : e.fields[i].index \in Nat
        /\ node'[z[Len(z)]] = Decoded(e, y)
    BY <1>1, <1>3, <1>5, <1>6, <1>7, <1>10, <1>13, <1>14
  <2>2. EntryOK(e, z, Len(z))'
    BY ONLY <2>1, NewEntry, Zenon
  <2>3. QED
    BY <2>1, <2>2
<1>17. Decodes(content, z)'
  <2>1. \A i \in 1 .. Len(y) : EntryOK(content[i], y, i)
    <3>1. f.part \in 1 .. f.part
      BY <1>2, ReaderParts
    <3>2. QED
      BY <1>1, <1>2, <3>1 DEF ReaderOK, Decodes
  <2>2. \A i \in 1 .. Len(y) : EntryOK(content[i], z, i)'
    BY <1>8, <1>10, <1>11, <1>15, <2>1, EntryKept
  <2>3. \A i \in 1 .. k : i \in 1 .. Len(y) \/ i = k
    BY <1>1, <1>6
  <2>4. \A i \in 1 .. k : EntryOK(content[i], z, i)'
    BY <1>3, <1>16, <2>2, <2>3
  <2>5. QED
    BY <1>6, <1>13, <2>4 DEF Decodes
<1>18. ReaderOK(f, z)'
  <2>1. PICK q, a, m : q = f.part /\ a = f.archive /\ m = Len(a.parts)
    OBVIOUS
  <2>2. q \in 1 .. m /\ q \in Nat /\ m \in Nat
    BY <1>2, <2>1, ReaderParts
  <2>3. \A p \in 1 .. q - 1 : PartOK(f, z, p)'
    <3>1. ASSUME NEW p \in 1 .. q - 1 PROVE PartOK(f, z, p)'
      <4>1. PartOK(f, y, p)
        BY <1>2, <2>1 DEF ReaderOK
      <4>2. a.parts[p].name # "nodes"
        BY <1>2, <2>1 DEF Named, First
      <4>3. QED
        BY <1>8, <1>10, <1>11, <1>15, <2>1, <4>1, <4>2, PartKept
    <3>2. QED
      BY <3>1
  <2>4. ASSUME NEW p \in 1 .. q, Named(a, p, "nodes"), First(a, p)
        PROVE  Decodes(a.parts[p].content, z)'
    <3>1. p = q
      <4>1. p # q => p \in 1 .. q - 1
        BY <2>2
      <4>2. \A i \in 1 .. q - 1 : a.parts[i].name # "nodes"
        BY <1>2, <2>1 DEF Named, First
      <4>3. QED
        BY <2>4, <4>1, <4>2 DEF Named
    <3>2. QED
      BY <1>1, <1>17, <2>1, <3>1
  <2>5. q \in 1 .. q /\ Named(a, q, "nodes")
    BY <1>2, <2>1, <2>2
  <2>6. RootsOf(f.roots) \subseteq Live'
    BY <1>2, <1>10 DEF ReaderOK, Grows
  <2>7. QED
    BY <1>2, <1>13, <2>1, <2>3, <2>4, <2>5, <2>6 DEF ReaderOK, RootsOf, Named, First
<1>19. PICK s, x : s = stack[t] /\ x = ser[t]
  OBVIOUS
<1>20. CallsOK(s, x, y) /\ s # <<>> /\ s[Len(s)] = f
  BY <1>1, <1>2, <1>19, Facts DEF Top, Depth
<1>21. CallsOK(s, x, y)'
  BY <1>8, <1>10, <1>11, <1>20, CallsKept, CallsLive
<1>22. CallsOK(s, x, z)'
  <2>1. /\ Len(s) \in Nat /\ Len(s) \in 1 .. Len(s)
        /\ \A i \in 1 .. Len(s) - 1 : s[i].kind # "de"
    BY <1>2, <1>20, CallsTop
  <2>2. ASSUME NEW i \in 1 .. Len(s) PROVE FrameOK(s[i], x, z)'
    <3>1. CASE i = Len(s)
      BY <1>2, <1>18, <1>20, <3>1 DEF FrameOK
    <3>2. CASE i # Len(s)
      <4>1. i \in 1 .. Len(s) - 1
        BY <2>1, <3>2
      <4>2. FrameOK(s[i], x, y)'
        BY <1>21 DEF CallsOK
      <4>3. QED
        BY <2>1, <4>1, <4>2 DEF FrameOK
    <3>3. QED
      BY <3>1, <3>2
  <2>3. Within(s, "de")
    BY <1>2, <1>20, <2>1 DEF Within
  <2>4. QED
    BY <1>21, <2>2, <2>3 DEF CallsOK, Within
<1>23. Changed(stack, stack', t, s) /\ Changed(ser, ser', t, x) /\ Changed(de, de', t, z)
  <2>1. stack' = stack /\ ser' = ser
    BY DEF DecodeNode
  <2>2. DOMAIN de = Threads
    BY Facts
  <2>3. QED
    BY <1>5, <1>12, <1>19, <2>1, <2>2 DEF Changed
<1>24. Hold(holds)' /\ \A w \in written' : WrittenOK(w)
  BY <1>10, Facts DEF Hold, Grows, DecodeNode
<1>25. QED
  BY <1>10, <1>11, <1>22, <1>23, <1>24, StepInv

-----------------------------------------------------------------------------
(***************************************************************************)
(* What is written.                                                        *)
(***************************************************************************)

(* An entry says of the k-th node what the heap does.                      *)
Mirrors(e, ns, k) ==
  LET data == node[ns[k]]
  IN  /\ e.label = data.label /\ DOMAIN e.fields = DOMAIN data.fields
      /\ \A i \in DOMAIN data.fields :
            /\ e.fields[i].variant = data.fields[i].variant
            /\ e.fields[i].index \in Nat /\ e.fields[i].index + 1 \in 1 .. k - 1
            /\ ns[e.fields[i].index + 1] = data.fields[i].ref

LEMMA DenotesTrees ==
  ASSUME HeapOK, NEW ns \in Seq(Live), NEW es, IsSeq(es), Len(es) = Len(ns),
         \A k \in 1 .. Len(ns) : Mirrors(es[k], ns, k)
  PROVE  Denotes(es) = [k \in 1 .. Len(ns) |-> Tree[ns[k]]]
<1>1. PICK m \in Nat : m = Len(ns) /\ m = Len(es)
  OBVIOUS
<1>2. PICK F : F = [k \in 1 .. m |-> Tree[ns[k]]]
  OBVIOUS
<1>3. ASSUME NEW k \in 1 .. m
      PROVE  /\ Denoted(F, es[k]) = Tree[ns[k]]
             /\ \A i \in DOMAIN es[k].fields : es[k].fields[i].index \in Nat
                                               /\ es[k].fields[i].index + 1 < k
  <2>1. PICK n, d, e : n = ns[k] /\ d = node[n] /\ e = es[k]
    OBVIOUS
  <2>2. n \in Live /\ HeapOK
    BY <1>1, <2>1
  <2>3. Tree[n] = Unfolded(Tree, d)
    BY <2>1, <2>2, TreeIs
  <2>4. /\ e.label = d.label /\ DOMAIN e.fields = DOMAIN d.fields
        /\ \A i \in DOMAIN d.fields :
              /\ e.fields[i].variant = d.fields[i].variant
              /\ e.fields[i].index \in Nat /\ e.fields[i].index + 1 \in 1 .. k - 1
              /\ ns[e.fields[i].index + 1] = d.fields[i].ref
    BY <1>1, <2>1 DEF Mirrors
  <2>5. \A j \in 1 .. k - 1 : j \in 1 .. m /\ j < k
    BY <1>1
  <2>6. \A i \in DOMAIN d.fields :
          /\ F[e.fields[i].index + 1] = Tree[d.fields[i].ref]
          /\ e.fields[i].variant = d.fields[i].variant
    BY <1>2, <2>4, <2>5
  <2>7. [i \in DOMAIN e.fields |-> [variant |-> e.fields[i].variant, ref |-> F[e.fields[i].index + 1]]]
      = [i \in DOMAIN d.fields |-> [variant |-> d.fields[i].variant, ref |-> Tree[d.fields[i].ref]]]
    BY <2>4, <2>6
  <2>8. Denoted(F, e) = Unfolded(Tree, d)
    BY <2>4, <2>7 DEF Denoted, Unfolded
  <2>9. QED
    BY <2>1, <2>3, <2>4, <2>5, <2>8
<1>4. Backwards(es)
  BY <1>1, <1>3 DEF Backwards
<1>5. F = [k \in 1 .. m |-> Denoted(F, es[k])]
  BY <1>2, <1>3
<1>6. QED
  BY <1>1, <1>2, <1>4, <1>5, DenotesIs

LEMMA ArchiveParts ==
  ASSUME NEW format, NEW nodes, NEW roots, NEW a, a = Archive(format, nodes, roots)
  PROVE  /\ PartOf(a, "nodes") = nodes /\ PartOf(a, "roots") = roots
         /\ IsSeq(a.parts) /\ DOMAIN a.parts = 1 .. 3
         /\ a.parts[1].name = "version"
         /\ a.parts[2] = [name |-> "nodes", content |-> nodes]
         /\ a.parts[3] = [name |-> "roots", content |-> roots]
<1>1. PICK ps : ps = <<[name |-> "version", content |-> Version],
                       [name |-> "nodes", content |-> nodes],
                       [name |-> "roots", content |-> roots]>>
  OBVIOUS
<1>2. a.parts = ps
  BY <1>1 DEF Archive
<1>3. /\ DOMAIN ps = 1 .. 3 /\ Len(ps) = 3 /\ ps[1].name = "version"
      /\ ps[2] = [name |-> "nodes", content |-> nodes]
      /\ ps[3] = [name |-> "roots", content |-> roots]
  BY <1>1
<1>4. ps = [i \in 1 .. 3 |-> ps[i]]
  BY <1>1, <1>3
<1>5. IsSeq(ps)
  BY <1>3, <1>4 DEF IsSeq
<1>6. \A i \in 1 .. 3 : i = 1 \/ i = 2 \/ i = 3
  OBVIOUS
<1>7. (CHOOSE i \in DOMAIN ps : ps[i].name = "nodes") = 2
  <2>1. PICK j : j = CHOOSE i \in DOMAIN ps : ps[i].name = "nodes"
    OBVIOUS
  <2>2. 2 \in DOMAIN ps /\ ps[2].name = "nodes"
    BY <1>3
  <2>3. j \in DOMAIN ps /\ ps[j].name = "nodes"
    BY <2>1, <2>2
  <2>4. j = 2
    BY <1>3, <1>6, <2>3
  <2>5. QED
    BY <2>1, <2>4
<1>8. (CHOOSE i \in DOMAIN ps : ps[i].name = "roots") = 3
  <2>1. PICK j : j = CHOOSE i \in DOMAIN ps : ps[i].name = "roots"
    OBVIOUS
  <2>2. 3 \in DOMAIN ps /\ ps[3].name = "roots"
    BY <1>3
  <2>3. j \in DOMAIN ps /\ ps[j].name = "roots"
    BY <2>1, <2>2
  <2>4. j = 3
    BY <1>3, <1>6, <2>3
  <2>5. QED
    BY <2>1, <2>4
<1>9. PartOf(a, "nodes") = nodes /\ PartOf(a, "roots") = roots
  BY <1>2, <1>3, <1>7, <1>8 DEF PartOf, PlaceOf
<1>10. QED
  BY <1>2, <1>3, <1>5, <1>9

(* Every node is encoded.                                                  *)
LEMMA WriterMirrors ==
  ASSUME HeapOK, NEW f, NEW x, WriterOK(f, x), Len(f.out) = Len(f.nodes),
         NEW k \in 1 .. Len(f.nodes)
  PROVE  Mirrors(f.out[k], f.nodes, k)
<1>1. PICK ns, n, d, e : ns = f.nodes /\ n = ns[k] /\ d = node[n] /\ e = f.out[k]
  OBVIOUS
<1>2. Listed(ns) /\ ns \in Seq(Live) /\ Len(ns) \in Nat /\ k \in 1 .. Len(ns) /\ HeapTypeOK /\ n \in Live
  <2>1. Listed(ns) /\ HeapTypeOK /\ k \in 1 .. Len(ns)
    BY <1>1 DEF WriterOK, HeapOK
  <2>2. ns \in Seq(Live)
    BY <2>1 DEF Listed
  <2>3. Len(ns) \in Nat /\ ns[k] \in Live
    BY <2>1, <2>2
  <2>4. QED
    BY <1>1, <2>1, <2>2, <2>3
<1>3. Kids(n) = Refs(d)
  BY <1>1, <1>2, LiveIs
<1>4. e = Encoded(d, x) /\ x = Indices(ns)
  BY <1>1 DEF WriterOK
<1>5. ASSUME NEW i \in DOMAIN d.fields
      PROVE  /\ x[d.fields[i].ref] \in Nat /\ x[d.fields[i].ref] + 1 \in 1 .. k - 1
             /\ ns[x[d.fields[i].ref] + 1] = d.fields[i].ref
  <2>1. d.fields[i].ref \in Kids(n)
    BY <1>3 DEF Refs
  <2>2. PICK j \in 1 .. k - 1 : ns[j] = d.fields[i].ref
    <3>1. \A q \in 1 .. Len(ns) : \A c \in Kids(ns[q]) : \E j \in 1 .. q - 1 : ns[j] = c
      BY ONLY <1>2 DEF Listed
    <3>2. \A c \in Kids(n) : \E j \in 1 .. k - 1 : ns[j] = c
      BY ONLY <1>1, <1>2, <3>1
    <3>3. QED
      BY ONLY <2>1, <3>2
  <2>3. j \in 1 .. Len(ns) /\ j \in Nat /\ j > 0
    BY <1>2, <2>2
  <2>4. x[ns[j]] = j - 1
    BY <1>2, <1>4, <2>3, IndicesIs
  <2>5. j - 1 \in Nat /\ j - 1 + 1 = j
    BY <2>3
  <2>6. QED
    BY <2>2, <2>4, <2>5
<1>6. /\ e.label = d.label /\ DOMAIN e.fields = DOMAIN d.fields
      /\ \A i \in DOMAIN d.fields :
            e.fields[i].variant = d.fields[i].variant /\ e.fields[i].index = x[d.fields[i].ref]
  BY <1>4 DEF Encoded
<1>7. f.out[k] = e /\ f.nodes = ns /\ node[ns[k]] = d
  BY ONLY <1>1
<1>8. \A i \in DOMAIN d.fields :
        /\ e.fields[i].index \in Nat /\ e.fields[i].index + 1 \in 1 .. k - 1
        /\ ns[e.fields[i].index + 1] = d.fields[i].ref
  BY ONLY <1>5, <1>6
<1>9. QED
  BY ONLY <1>6, <1>7, <1>8 DEF Mirrors

(* Indices of roots.                                                       *)
RootIndices(roots, session) ==
  [ty \in RootTypes |-> [i \in DOMAIN roots[ty] |-> session[roots[ty][i]]]]

LEMMA RootIndicesAre ==
  ASSUME NEW f, NEW x, WriterOK(f, x), NEW ty \in RootTypes,
         NEW r, r = RootIndices(f.roots, x)[ty]
  PROVE  /\ IsSeq(r) /\ DOMAIN r = DOMAIN f.roots[ty] /\ Range(r) \subseteq Nat
         /\ \A i \in DOMAIN r : /\ r[i] \in Nat /\ r[i] + 1 \in 1 .. Len(f.nodes)
                                /\ f.nodes[r[i] + 1] = f.roots[ty][i]
                                /\ r[i] = x[f.roots[ty][i]]
<1>1. PICK q, ns : q = f.roots[ty] /\ ns = f.nodes
  OBVIOUS
<1>2. IsSeq(q) /\ Listed(ns) /\ x = Indices(ns) /\ Len(ns) \in Nat
  BY <1>1 DEF WriterOK, Listed
<1>3. PICK S : q \in Seq(S)
  BY ONLY <1>2, SeqIs, Zenon
<1>4. PICK l \in Nat : l = Len(q) /\ DOMAIN q = 1 .. l
  BY <1>3
<1>5. r = [i \in 1 .. l |-> x[q[i]]]
  BY <1>1, <1>4 DEF RootIndices
<1>6. ASSUME NEW i \in 1 .. l
      PROVE  r[i] \in Nat /\ r[i] + 1 \in 1 .. Len(ns) /\ ns[r[i] + 1] = q[i]
  <2>1. q[i] \in RootsOf(f.roots)
    BY <1>1, <1>4 DEF RootsOf, Range
  <2>2. PICK j \in 1 .. Len(ns) : ns[j] = q[i]
    BY <1>1, <2>1 DEF WriterOK, Among
  <2>3. x[ns[j]] = j - 1
    BY <1>2, IndicesIs
  <2>4. j - 1 \in Nat /\ j - 1 + 1 = j
    BY <1>2
  <2>5. QED
    BY <1>5, <2>2, <2>3, <2>4
<1>7. r \in [1 .. l -> Nat]
  BY <1>5, <1>6
<1>8. r \in Seq(Nat)
  BY <1>7, FunctionIsSeq
<1>9. QED
  BY <1>1, <1>4, <1>5, <1>6, <1>8, SeqIsSeq

LEMMA WrittenIs ==
  ASSUME HeapOK, NEW f, NEW x, WriterOK(f, x), Len(f.out) = Len(f.nodes),
         NEW w, w = [archive |-> Archive(f.format, f.out, RootIndices(f.roots, x)),
                     trees |-> RootTrees(f.roots)]
  PROVE  WrittenOK(w)
<1>1. PICK ns, out, R, a, m : ns = f.nodes /\ out = f.out /\ R = RootIndices(f.roots, x)
                              /\ a = w.archive /\ m = Len(ns)
  OBVIOUS
<1>2. /\ Listed(ns) /\ ns \in Seq(Live) /\ m \in Nat /\ IsSeq(out) /\ Len(out) = m
      /\ Needed(ns, RootsOf(f.roots)) /\ HeapTypeOK
  BY <1>1 DEF WriterOK, Listed, HeapOK
<1>3. \A k \in 1 .. m : Mirrors(out[k], ns, k) /\ ns[k] \in Live
  BY <1>1, <1>2, WriterMirrors
<1>4. Denotes(out) = [k \in 1 .. m |-> Tree[ns[k]]]
  BY <1>1, <1>2, <1>3, DenotesTrees
<1>5. DOMAIN out = 1 .. m
  <2>1. PICK S : out \in Seq(S)
    BY ONLY <1>2, SeqIs, Zenon
  <2>2. QED
    BY <1>2, <2>1
<1>6. a = Archive(f.format, out, R) /\ w.trees = RootTrees(f.roots)
  BY <1>1
<1>7. /\ PartOf(a, "nodes") = out /\ PartOf(a, "roots") = R
      /\ IsSeq(a.parts) /\ DOMAIN a.parts = 1 .. 3
      /\ a.parts[1].name = "version"
      /\ a.parts[2] = [name |-> "nodes", content |-> out]
      /\ a.parts[3] = [name |-> "roots", content |-> R]
  BY <1>6, ArchiveParts
<1>8. ASSUME NEW ty \in RootTypes
      PROVE  /\ IsSeq(R[ty]) /\ DOMAIN R[ty] = DOMAIN f.roots[ty] /\ Range(R[ty]) \subseteq Nat
             /\ \A i \in DOMAIN R[ty] : /\ R[ty][i] \in Nat /\ R[ty][i] + 1 \in 1 .. m
                                        /\ ns[R[ty][i] + 1] = f.roots[ty][i]
  BY <1>1, RootIndicesAre
<1>9. IsArchive(a)
  <2>1. ASSUME NEW k \in 1 .. m, NEW i \in DOMAIN out[k].fields PROVE out[k].fields[i].index \in Nat
    BY <1>3 DEF Mirrors
  <2>2. \A p \in 1 .. 3 : p = 1 \/ p = 2 \/ p = 3
    OBVIOUS
  <2>3. ASSUME NEW p \in DOMAIN a.parts, a.parts[p].name = "nodes" PROVE a.parts[p].content = out
    BY <1>7, <2>2, <2>3
  <2>4. ASSUME NEW p \in DOMAIN a.parts, a.parts[p].name = "roots" PROVE a.parts[p].content = R
    BY <1>7, <2>2, <2>4
  <2>5. ASSUME NEW p \in DOMAIN a.parts
        PROVE  a.parts[p].name = IF p <= 3 THEN FieldNames[p] ELSE "rest"
    <3>1. (p = 1 \/ p = 2 \/ p = 3) /\ p <= 3
      BY <1>7, <2>5
    <3>2. QED
      BY <1>7, <3>1, FieldsAre
  <2>6. QED
    BY <1>2, <1>5, <1>7, <1>8, <2>1, <2>3, <2>4, <2>5 DEF IsArchive
<1>10. ASSUME NEW i \in 1 .. m, NEW j \in 1 .. m, Tree[ns[i]] = Tree[ns[j]] PROVE i = j
  <2>1. PICK n, p : n = ns[i] /\ p = ns[j]
    OBVIOUS
  <2>2. n \in Live /\ p \in Live /\ Tree[n] = Tree[p]
    BY <1>3, <1>10, <2>1
  <2>3. n = p
    BY <2>2, TreeInjective
  <2>4. \A u, v \in 1 .. Len(ns) : ns[u] = ns[v] => u = v
    BY <1>2 DEF Listed
  <2>5. QED
    BY <1>1, <2>1, <2>3, <2>4
<1>11. ASSUME NEW k \in 1 .. m
       PROVE  \/ \E ty \in RootTypes : k - 1 \in Range(R[ty])
              \/ \E p \in 1 .. m : \E i \in DOMAIN out[p].fields : out[p].fields[i].index = k - 1
  <2>1. CASE ns[k] \in RootsOf(f.roots)
    <3>1. PICK ty \in RootTypes : \E i \in DOMAIN f.roots[ty] : f.roots[ty][i] = ns[k]
      BY <2>1 DEF RootsOf, Range
    <3>2. PICK i \in DOMAIN f.roots[ty] : f.roots[ty][i] = ns[k]
      BY <3>1
    <3>3. PICK j : j = R[ty][i]
      OBVIOUS
    <3>4. i \in DOMAIN R[ty] /\ j \in Nat /\ j + 1 \in 1 .. m /\ ns[j + 1] = ns[k]
      BY <1>8, <3>2, <3>3
    <3>5. j + 1 = k
      BY <1>1, <1>2, <3>4 DEF Listed
    <3>6. j = k - 1
      BY <1>2, <3>4, <3>5
    <3>7. QED
      BY <3>3, <3>4, <3>6 DEF Range
  <2>2. CASE \E p \in 1 .. m : ns[k] \in Kids(ns[p])
    <3>1. PICK p \in 1 .. m : ns[k] \in Kids(ns[p])
      BY <2>2
    <3>2. PICK d, e : d = node[ns[p]] /\ e = out[p]
      OBVIOUS
    <3>3. ns[k] \in Refs(d)
      BY <1>2, <1>3, <3>1, <3>2, LiveIs
    <3>4. PICK i \in DOMAIN d.fields : d.fields[i].ref = ns[k]
      BY <3>3 DEF Refs
    <3>5. PICK j : j = e.fields[i].index
      OBVIOUS
    <3>6. i \in DOMAIN e.fields /\ j \in Nat /\ j + 1 \in 1 .. p - 1 /\ ns[j + 1] = ns[k]
      BY <1>3, <3>2, <3>4, <3>5 DEF Mirrors
    <3>7. j + 1 \in 1 .. m
      BY <1>2, <3>6
    <3>8. j + 1 = k
      BY <1>1, <1>2, <3>6, <3>7 DEF Listed
    <3>9. j = k - 1
      BY <1>2, <3>6, <3>8
    <3>10. QED
      BY <3>2, <3>5, <3>6, <3>9
  <2>3. QED
    BY <1>1, <1>2, <2>1, <2>2 DEF Needed
<1>12. OnceIn(out, R)
  <2>1. PICK F : F = Denotes(out)
    OBVIOUS
  <2>2. \A i, j \in 1 .. m : F[i] = F[j] => i = j
    BY <1>4, <1>10, <2>1
  <2>3. QED
    BY <1>5, <1>11, <2>1, <2>2 DEF OnceIn
<1>13. w.trees = DenotedRoots(out, R)
  <2>1. PICK F : F = Denotes(out)
    OBVIOUS
  <2>2. ASSUME NEW ty \in RootTypes
        PROVE  [i \in DOMAIN R[ty] |-> F[R[ty][i] + 1]] = [i \in DOMAIN f.roots[ty] |-> Tree[f.roots[ty][i]]]
    BY <1>4, <1>8, <2>1
  <2>3. [ty \in RootTypes |-> [i \in DOMAIN R[ty] |-> F[R[ty][i] + 1]]]
      = [ty \in RootTypes |-> [i \in DOMAIN f.roots[ty] |-> Tree[f.roots[ty][i]]]]
    BY <2>2
  <2>4. QED
    BY <1>6, <2>1, <2>3 DEF DenotedRoots, RootTrees
<1>14. QED
  BY <1>1, <1>7, <1>9, <1>12, <1>13 DEF WrittenOK

LEMMA EncodeRootsInv ==
  ASSUME IInv, NEW t \in Threads, EncodeRoots(t)
  PROVE  IInv'
<1>1. PICK f, x, z : f = Top(t) /\ x = ser[t] /\ z = de[t]
  OBVIOUS
<1>2. WriterOK(f, x) /\ stack[t] # <<>> /\ f.kind = "ser" /\ ~(Len(f.out) < Len(f.nodes)) /\ HeapOK
  BY <1>1, WriterIs, Facts DEF EncodeRoots, MoreToEncode
<1>3. Len(f.out) = Len(f.nodes)
  BY <1>2, WriterParts
<1>4. PICK w : w = [archive |-> Archive(f.format, f.out, RootIndices(f.roots, x)),
                    trees |-> RootTrees(f.roots)]
  OBVIOUS
<1>5. WrittenOK(w)
  BY <1>2, <1>3, <1>4, WrittenIs
<1>6. written' = written \cup {w}
  BY <1>1, <1>4 DEF EncodeRoots, RootIndices
<1>7. \A u \in written' : WrittenOK(u)
  BY <1>5, <1>6, Facts
<1>8. Changed(ser, ser', t, NoSession) /\ Changed(de, de', t, z)
  <2>1. DOMAIN ser = Threads /\ DOMAIN de = Threads
    BY Facts
  <2>2. ser' = [ser EXCEPT ![t] = NoSession] /\ de' = de
    BY DEF EncodeRoots
  <2>3. QED
    BY <1>1, <2>1, <2>2 DEF Changed
<1>9. Opens(Top(t).kind, NoSession, z, ser[t], de[t])
  BY <1>1, <1>2 DEF Opens
<1>10. stack' = [stack EXCEPT ![t] = Front(@)] /\ UNCHANGED <<node, holds>>
  BY DEF EncodeRoots
<1>11. Hold(holds')
  BY <1>10, Facts DEF Hold
<1>12. QED
  BY <1>2, <1>7, <1>8, <1>9, <1>10, <1>11, PopInv

-----------------------------------------------------------------------------
(***************************************************************************)
(* The other steps.                                                        *)
(***************************************************************************)
LEMMA ReturnRootsInv ==
  ASSUME IInv, NEW t \in Threads, ReturnRoots(t)
  PROVE  IInv'
<1>1. PICK f, x : f = Top(t) /\ x = ser[t]
  OBVIOUS
<1>2. ReaderOK(f, de[t]) /\ stack[t] # <<>> /\ f.kind = "de" /\ HeapOK
  BY <1>1, ReaderIs, Facts DEF ReturnRoots, Complete
<1>3. RootsOf(f.roots) \subseteq Live /\ Live \subseteq Nodes
  BY <1>2 DEF ReaderOK, Live
<1>4. Hold(holds')
  <2>1. PICK R : R = RootsOf(f.roots)
    OBVIOUS
  <2>2. holds' = [holds EXCEPT ![t] = @ \cup R] /\ Hold(holds)
    BY <1>1, <2>1, Facts DEF ReturnRoots
  <2>3. R \subseteq Live /\ R \subseteq Nodes
    BY <1>3, <2>1
  <2>4. QED
    BY <2>2, <2>3 DEF Hold
<1>5. Changed(de, de', t, NoSession) /\ Changed(ser, ser', t, x)
  <2>1. DOMAIN ser = Threads /\ DOMAIN de = Threads
    BY Facts
  <2>2. de' = [de EXCEPT ![t] = NoSession] /\ ser' = ser
    BY DEF ReturnRoots
  <2>3. QED
    BY <1>1, <2>1, <2>2 DEF Changed
<1>6. Opens(Top(t).kind, x, NoSession, ser[t], de[t])
  BY <1>1, <1>2 DEF Opens
<1>7. stack' = [stack EXCEPT ![t] = Front(@)] /\ UNCHANGED <<node, written>>
  BY DEF ReturnRoots
<1>8. \A w \in written' : WrittenOK(w)
  BY <1>7, Facts
<1>9. QED
  BY <1>2, <1>4, <1>5, <1>6, <1>7, <1>8, PopInv

LEMMA BuildInv ==
  ASSUME IInv, NEW t \in Threads, NEW data \in DataOver(holds[t]), Build(t, data)
  PROVE  IInv'
<1>1. HeapOK /\ HeapTypeOK /\ Hold(holds) /\ Live \subseteq Nodes
  BY Facts DEF Live
<1>2. data \in AllData
  <2>1. PICK H : H = holds[t]
    OBVIOUS
  <2>2. H \subseteq Nodes
    BY <1>1, <2>1 DEF Hold
  <2>3. PICK l \in Labels : data \in [label : {l}, fields : [DOMAIN Shape[l] -> [variant : Variants, ref : H]]]
    BY <2>1 DEF DataOver
  <2>4. PICK R, S : R = [variant : Variants, ref : H] /\ S = [variant : Variants, ref : Nodes]
    OBVIOUS
  <2>5. R \subseteq S
    BY <2>2, <2>4
  <2>6. data \in [label : {l}, fields : [DOMAIN Shape[l] -> S]]
    BY <2>3, <2>4, <2>5
  <2>7. QED
    BY <2>4, <2>6 DEF AllData, DataOver
<1>3. PICK n : n = hashcons(data)
  OBVIOUS
<1>4. IsData(data) /\ Store(data) /\ holds' = [holds EXCEPT ![t] = @ \cup {n}]
      /\ UNCHANGED <<stack, ser, de, written>>
  BY <1>3 DEF Build
<1>5. HeapOK' /\ Grows /\ n \in Live'
  BY <1>1, <1>2, <1>3, <1>4, StoreOK, StoreAnswers
<1>6. Keeps(Live)
  BY <1>1, <1>5, GrowsKeeps
<1>7. PICK s, x, y : s = stack[t] /\ x = ser[t] /\ y = de[t]
  OBVIOUS
<1>8. CallsOK(s, x, y)
  BY <1>7, Facts
<1>9. CallsOK(s, x, y)'
  BY <1>1, <1>5, <1>6, <1>8, CallsKept, CallsLive
<1>10. Changed(stack, stack', t, s) /\ Changed(ser, ser', t, x) /\ Changed(de, de', t, y)
  BY <1>4, <1>7 DEF Changed
<1>11. Hold(holds)'
  <2>1. Live \subseteq Live' /\ Live' \subseteq Nodes
    BY <1>5 DEF Grows, Live
  <2>2. n \in Nodes
    BY <1>5, <2>1
  <2>3. holds' \in [Threads -> SUBSET Nodes]
    BY <1>1, <1>4, <2>2 DEF Hold
  <2>4. \A u \in Threads : holds'[u] \subseteq Live'
    BY <1>1, <1>4, <1>5, <2>1 DEF Hold
  <2>5. QED
    BY <2>3, <2>4 DEF Hold
<1>12. \A w \in written' : WrittenOK(w)
  BY <1>4, Facts
<1>13. QED
  BY <1>5, <1>6, <1>9, <1>10, <1>11, <1>12, StepInv

LEMMA DropInv ==
  ASSUME IInv, NEW t \in Threads, NEW n \in Nodes, Drop(t, n)
  PROVE  IInv'
<1>1. /\ holds' = [holds EXCEPT ![t] = @ \ {n}]
      /\ UNCHANGED <<node, stack, ser, de, written>>
  BY DEF Drop
<1>2. PICK s, x, y : s = stack[t] /\ x = ser[t] /\ y = de[t]
  OBVIOUS
<1>3. CallsOK(s, x, y) /\ Hold(holds) /\ \A w \in written' : WrittenOK(w)
  BY <1>1, <1>2, Facts
<1>4. Hold(holds')
  BY <1>1, <1>3 DEF Hold
<1>5. Changed(stack, stack', t, s) /\ Changed(ser, ser', t, x) /\ Changed(de, de', t, y)
  BY <1>1, <1>2 DEF Changed
<1>6. QED
  BY <1>1, <1>3, <1>4, <1>5, QuietInv

(* What a call or a node refers to is not reclaimed.                       *)
LEMMA ReclaimedUnused ==
  ASSUME IInv, NEW n \in Nodes, Reclaim(n), NEW t \in Threads
  PROVE  CallsUse(stack[t], de[t], Live \ {n})
<1>1. PICK s, x, y : s = stack[t] /\ x = ser[t] /\ y = de[t]
  OBVIOUS
<1>2. CallsOK(s, x, y) /\ CallsUse(s, y, Live) /\ HeapTypeOK
  BY <1>1, Facts, CallsLive
<1>3. IsSeq(s)
  BY <1>2 DEF CallsOK
<1>4. PICK S : s \in Seq(S)
  BY ONLY <1>3, SeqIs, Zenon
<1>5. DOMAIN s = 1 .. Len(s)
  BY <1>4
<1>6. n \notin InCalls(t) /\ n \notin SessionNodes(t) /\ ~HeldByNode(n)
  BY DEF Reclaim, HeldByThread, Expire
<1>7. ASSUME NEW i \in 1 .. Len(s) PROVE FrameUses(s[i], Live \ {n})
  <2>1. PICK f : f = s[i]
    OBVIOUS
  <2>2. FrameUses(f, Live) /\ FrameOK(f, x, y)
    BY <1>2, <2>1 DEF CallsUse, CallsOK
  <2>3. n \notin RootsOf(f.roots)
    BY <1>1, <1>5, <1>6, <2>1 DEF InCalls
  <2>4. ASSUME f.kind = "ser", NEW k \in 1 .. Len(f.nodes) PROVE f.nodes[k] # n
    <3>1. Needed(f.nodes, RootsOf(f.roots)) /\ \A p \in 1 .. Len(f.nodes) : f.nodes[p] \in Live
      BY <2>2, <2>4 DEF FrameOK, WriterOK, FrameUses
    <3>2. \A p \in 1 .. Len(f.nodes) : n \notin Kids(f.nodes[p])
      BY <1>6, <3>1 DEF HeldByNode
    <3>3. QED
      BY <2>3, <3>1, <3>2 DEF Needed
  <2>5. QED
    BY <2>1, <2>2, <2>3, <2>4 DEF FrameUses
<1>8. y # NoSession => n \notin Range(y)
  BY <1>1, <1>6 DEF SessionNodes
<1>9. QED
  BY <1>1, <1>2, <1>7, <1>8 DEF CallsUse

LEMMA ReclaimInv ==
  ASSUME IInv, NEW n \in Nodes, Reclaim(n)
  PROVE  IInv'
<1>1. HeapOK /\ Typed /\ (\A t \in Threads : ThreadOK(t)) /\ (\A w \in written : WrittenOK(w))
  BY DEF IInv
<1>2. Expire(n) /\ UNCHANGED <<holds, stack, ser, de, written>>
  BY DEF Reclaim
<1>3. PICK C : C = Live \ {n}
  OBVIOUS
<1>4. HeapOK' /\ Keeps(C) /\ Live' = C
  BY <1>1, <1>2, <1>3, ExpireOK, ExpireKeeps DEF Frees
<1>5. ASSUME NEW t \in Threads PROVE ThreadOK(t)'
  <2>1. PICK s, x, y : s = stack[t] /\ x = ser[t] /\ y = de[t]
    OBVIOUS
  <2>2. CallsOK(s, x, y) /\ CallsUse(s, y, C) /\ holds[t] \subseteq Live
    BY <1>1, <1>3, <2>1, ReclaimedUnused DEF ThreadOK
  <2>3. CallsOK(s, x, y)'
    BY <1>1, <1>4, <2>2, CallsKept
  <2>4. n \notin holds[t]
    BY DEF Reclaim, HeldByThread
  <2>5. (holds[t] \subseteq Live)'
    BY <1>2, <1>3, <1>4, <2>2, <2>4
  <2>6. QED
    BY <1>2, <2>1, <2>3, <2>5 DEF ThreadOK
<1>6. Typed'
  BY <1>1, <1>2 DEF Typed
<1>7. \A w \in written' : WrittenOK(w)'
  BY <1>1, <1>2 DEF WrittenOK
<1>8. QED
  BY <1>4, <1>5, <1>6, <1>7 DEF IInv

LEMMA StutterInv == IInv /\ UNCHANGED vars => IInv'
<1> SUFFICES ASSUME IInv, UNCHANGED vars
             PROVE  IInv'
  OBVIOUS
<1>1. HeapOK /\ Typed /\ (\A t \in Threads : ThreadOK(t)) /\ (\A w \in written : WrittenOK(w))
  BY DEF IInv
<1>2. HeapOK' /\ Keeps(Live) /\ Live' = Live /\ UNCHANGED <<holds, stack, ser, de, written>>
  BY <1>1, HeapStays DEF vars
<1>3. ASSUME NEW t \in Threads PROVE ThreadOK(t)'
  <2>1. PICK s, x, y : s = stack[t] /\ x = ser[t] /\ y = de[t]
    OBVIOUS
  <2>2. CallsOK(s, x, y) /\ holds[t] \subseteq Live
    BY <1>1, <2>1 DEF ThreadOK
  <2>3. CallsOK(s, x, y)'
    BY <1>1, <1>2, <2>2, CallsKept, CallsLive
  <2>4. QED
    BY <1>2, <2>1, <2>2, <2>3 DEF ThreadOK
<1>4. Typed'
  BY <1>1, <1>2 DEF Typed
<1>5. \A w \in written' : WrittenOK(w)'
  BY <1>1, <1>2 DEF WrittenOK
<1>6. QED
  BY <1>2, <1>3, <1>4, <1>5 DEF IInv

LEMMA NextInv == IInv /\ [Next]_vars => IInv'
<1> SUFFICES ASSUME IInv, [Next]_vars
             PROVE  IInv'
  OBVIOUS
<1>1. CASE UNCHANGED vars
  BY <1>1, StutterInv
<1>2. ASSUME NEW n \in Nodes, Reclaim(n) PROVE IInv'
  BY <1>2, ReclaimInv
<1>3. ASSUME NEW t \in Threads, NEW data \in DataOver(holds[t]), Build(t, data) PROVE IInv'
  BY <1>3, BuildInv
<1>4. ASSUME NEW t \in Threads, NEW n \in Nodes, Drop(t, n) PROVE IInv'
  BY <1>4, DropInv
<1>5. ASSUME NEW t \in Threads, NEW format \in Formats, NEW roots \in SomeRoots(t),
             Serialize(t, format, roots)
      PROVE  IInv'
  BY <1>5, SerializeInv
<1>6. ASSUME NEW t \in Threads, NEW a \in Readable, Deserialize(t, a) PROVE IInv'
  BY <1>6, DeserializeInv
<1>7. ASSUME NEW t \in Threads, EncodeNode(t) \/ EncodeRoots(t) PROVE IInv'
  BY <1>7, EncodeNodeInv, EncodeRootsInv
<1>8. ASSUME NEW t \in Threads,
             DecodeVersion(t) \/ DecodeNode(t) \/ EndNodes(t) \/ DecodeRoots(t) \/ IgnorePart(t)
      PROVE  IInv'
  BY <1>8, DecodeVersionInv, DecodeNodeInv, EndNodesInv, DecodeRootsInv, IgnorePartInv
<1>9. ASSUME NEW t \in Threads, ReturnRoots(t) PROVE IInv'
  BY <1>9, ReturnRootsInv
<1>10. ASSUME NEW t \in Threads, Reject(t) \/ FieldFails(t) PROVE IInv'
  <2>1. stack[t] # <<>> /\ Abort(t)
    BY <1>10 DEF Reject, FieldFails, Malformed, InField, MoreToEncode, MoreToDecode, AtPart, InCall
  <2>2. QED
    BY <2>1, AbortInv
<1>11. QED
  BY <1>1, <1>2, <1>3, <1>4, <1>5, <1>6, <1>7, <1>8, <1>9, <1>10 DEF Next

(* In every reachable state the heap is a shared, acyclic graph; a thread  *)
(* is in at most one call of a kind, whose session is the prefix of its    *)
(* work done so far; and every archive written denotes what was written.   *)
THEOREM Invariant == Spec => []IInv
BY InitInv, NextInv, PTL DEF Spec

-----------------------------------------------------------------------------
(***************************************************************************)
(* The properties.                                                         *)
(***************************************************************************)
LEMMA CallsAre ==
  ASSUME IInv, NEW t \in Threads
  PROVE  /\ DOMAIN stack[t] = 1 .. Len(stack[t])
         /\ \A i \in DOMAIN stack[t] : FrameOK(stack[t][i], ser[t], de[t])
<1>1. PICK s : s = stack[t]
  OBVIOUS
<1>2. CallsOK(s, ser[t], de[t])
  BY <1>1, Facts
<1>3. IsSeq(s)
  BY <1>2 DEF CallsOK
<1>4. PICK S : s \in Seq(S)
  BY ONLY <1>3, SeqIs, Zenon
<1>5. DOMAIN s = 1 .. Len(s)
  BY <1>4
<1>6. QED
  BY <1>1, <1>2, <1>5 DEF CallsOK

LEMMA InvTypeOK == IInv => TypeOK
<1> SUFFICES ASSUME IInv
             PROVE  TypeOK
  OBVIOUS
<1>1. HeapTypeOK /\ Hold(holds)
  BY DEF IInv, HeapOK, ThreadOK, Typed, Hold
<1>2. holds \in [Threads -> SUBSET Live]
  BY <1>1 DEF Hold
<1>3. ASSUME NEW t \in Threads
      PROVE  /\ \A i \in DOMAIN stack[t] :
                   /\ stack[t][i].kind \in {"ser", "de"}
                   /\ RootsOf(stack[t][i].roots) \subseteq Live
             /\ SessionNodes(t) \subseteq Live
             /\ ser[t] = NoSession \/ DOMAIN ser[t] \subseteq Live
  <2>1. CallsOK(stack[t], ser[t], de[t])
    BY Facts
  <2>2. \A i \in DOMAIN stack[t] : FrameOK(stack[t][i], ser[t], de[t])
    BY CallsAre
  <2>3. \A i \in DOMAIN stack[t] :
           stack[t][i].kind \in {"ser", "de"} /\ RootsOf(stack[t][i].roots) \subseteq Live
    BY <2>2, FrameLive DEF FrameUses
  <2>4. SessionNodes(t) \subseteq Live
    BY <2>1, SessionSeq DEF SessionNodes
  <2>5. ASSUME ser[t] # NoSession PROVE DOMAIN ser[t] \subseteq Live
    <3>1. PICK i \in 1 .. Len(stack[t]) : stack[t][i].kind = "ser"
      BY <2>1, <2>5 DEF CallsOK, Within
    <3>2. WriterOK(stack[t][i], ser[t])
      BY <2>1, <3>1 DEF CallsOK, FrameOK
    <3>3. QED
      BY <3>2, IndicesIs DEF WriterOK
  <2>6. QED
    BY <2>3, <2>4, <2>5
<1>4. QED
  BY <1>1, <1>2, <1>3 DEF TypeOK

(* Handles, sessions and the roots of calls refer to nodes that live.      *)
THEOREM TypeCorrect == Spec => []TypeOK
BY Invariant, InvTypeOK, PTL

LEMMA FramesOne ==
  ASSUME IInv, NEW t \in Threads, NEW kind
  PROVE  Cardinality(Frames(t, kind)) <= 1 /\ (Frames(t, kind) = {} <=> ~Within(stack[t], kind))
<1>1. DOMAIN stack[t] = 1 .. Len(stack[t]) /\ Sole(stack[t])
  BY CallsAre, Facts DEF CallsOK
<1>2. Frames(t, kind) = {} <=> ~Within(stack[t], kind)
  BY <1>1 DEF Frames, Within
<1>3. CASE Frames(t, kind) = {}
  <2>1. Cardinality(Frames(t, kind)) = 0
    BY <1>3, FS_EmptySet
  <2>2. QED
    BY <1>2, <2>1
<1>4. CASE Frames(t, kind) # {}
  <2>1. PICK i : i \in Frames(t, kind)
    BY <1>4
  <2>2. Frames(t, kind) = {i}
    BY <1>1, <2>1 DEF Frames, Sole
  <2>3. Cardinality(Frames(t, kind)) = 1
    BY <2>2, FS_Singleton
  <2>4. QED
    BY <1>2, <2>3
<1>5. QED
  BY <1>3, <1>4

LEMMA InvSessionsMatch == IInv => SessionsMatch
<1> SUFFICES ASSUME IInv, NEW t \in Threads
             PROVE  /\ Cardinality(Frames(t, "ser")) <= 1 /\ Cardinality(Frames(t, "de")) <= 1
                    /\ IF Frames(t, "ser") = {} THEN ser[t] = NoSession
                       ELSE \A i \in Frames(t, "ser") : ser[t] = Indices(stack[t][i].nodes)
                    /\ Frames(t, "de") = {} <=> de[t] = NoSession
  BY DEF SessionsMatch
<1>1. CallsOK(stack[t], ser[t], de[t])
  BY Facts
<1>2. \A i \in Frames(t, "ser") : ser[t] = Indices(stack[t][i].nodes)
  <2>1. ASSUME NEW i \in Frames(t, "ser") PROVE ser[t] = Indices(stack[t][i].nodes)
    <3>1. i \in DOMAIN stack[t] /\ stack[t][i].kind = "ser"
      BY DEF Frames
    <3>2. WriterOK(stack[t][i], ser[t])
      BY <3>1, CallsAre DEF FrameOK
    <3>3. QED
      BY <3>2 DEF WriterOK
  <2>2. QED
    BY <2>1
<1>3. Frames(t, "ser") = {} => ser[t] = NoSession
  BY <1>1, FramesOne DEF CallsOK
<1>4. Frames(t, "de") = {} <=> de[t] = NoSession
  BY <1>1, FramesOne, NoneWithin DEF CallsOK
<1>5. QED
  BY <1>2, <1>3, <1>4, FramesOne

(* A session belongs to the one call of its kind that a thread is in, and  *)
(* ends with it, however it ends: hirpdag_serialize and                    *)
(* hirpdag_deserialize with any calls made from within them.               *)
THEOREM SessionsMatched == Spec => []SessionsMatch
BY Invariant, InvSessionsMatch, PTL

LEMMA InvNodesOnce == IInv => NodesOnce
BY DEF IInv, WrittenOK, OnceIn, NodesOnce

(* Archives that are written share: no structure twice, nothing that the   *)
(* roots do not need.                                                      *)
THEOREM WritesNodesOnce == Spec => []NodesOnce
BY Invariant, InvNodesOnce, PTL

-----------------------------------------------------------------------------
(***************************************************************************)
(* What is accepted.                                                       *)
(***************************************************************************)

(* The fields of an archive, every one once.                               *)
DistinctFields(a) ==
  \A p, q \in DOMAIN a.parts :
    a.parts[p].name \in Fields /\ a.parts[p].name = a.parts[q].name => p = q
HasFields(a) == \A name \in Fields : \E p \in DOMAIN a.parts : a.parts[p].name = name

LEMMA OnceIs ==
  ASSUME NEW a
  PROVE  (\A name \in Fields : ComesOnce(a, name)) <=> DistinctFields(a) /\ HasFields(a)
<1>1. ASSUME \A name \in Fields : ComesOnce(a, name) PROVE DistinctFields(a) /\ HasFields(a)
  <2>1. ASSUME NEW p \in DOMAIN a.parts, NEW q \in DOMAIN a.parts,
               a.parts[p].name \in Fields, a.parts[p].name = a.parts[q].name
        PROVE  p = q
    <3>1. PICK i \in DOMAIN a.parts : \A j \in DOMAIN a.parts : a.parts[j].name = a.parts[p].name <=> j = i
      BY <1>1, <2>1 DEF ComesOnce
    <3>2. QED
      BY <2>1, <3>1
  <2>2. QED
    BY <1>1, <2>1 DEF ComesOnce, DistinctFields, HasFields
<1>2. ASSUME DistinctFields(a), HasFields(a), NEW name \in Fields PROVE ComesOnce(a, name)
  BY <1>2 DEF DistinctFields, HasFields, ComesOnce
<1>3. QED
  BY <1>1, <1>2

LEMMA PartOfIs ==
  ASSUME NEW a, DistinctFields(a), NEW p \in DOMAIN a.parts, NEW name \in Fields, a.parts[p].name = name
  PROVE  PlaceOf(a, name) = p /\ PartOf(a, name) = a.parts[p].content
<1>1. PICK q : q = PlaceOf(a, name)
  OBVIOUS
<1>2. q \in DOMAIN a.parts /\ a.parts[q].name = name
  BY <1>1 DEF PlaceOf
<1>3. q = p
  BY <1>2 DEF DistinctFields
<1>4. QED
  BY <1>1, <1>3 DEF PartOf

LEMMA PartsOf ==
  ASSUME NEW a, IsArchive(a)
  PROVE  /\ Len(a.parts) \in Nat /\ DOMAIN a.parts = 1 .. Len(a.parts)
         /\ Range(PartNames(a)) = {a.parts[p].name : p \in 1 .. Len(a.parts)}
<1>1. PICK ps : ps = a.parts
  OBVIOUS
<1>2. IsSeq(ps)
  BY <1>1 DEF IsArchive
<1>3. PICK S : ps \in Seq(S)
  BY ONLY <1>2, SeqIs, Zenon
<1>4. Len(ps) \in Nat /\ DOMAIN ps = 1 .. Len(ps)
  BY <1>3
<1>5. PartNames(a) = [i \in 1 .. Len(ps) |-> ps[i].name]
  BY <1>1, <1>4 DEF PartNames
<1>6. QED
  BY <1>1, <1>4, <1>5 DEF Range

(* What the entries read are, and what their nodes.                        *)
Checked(e, session) ==
  /\ e.label \in Labels /\ DOMAIN e.fields = DOMAIN Shape[e.label]
  /\ \A i \in DOMAIN e.fields : RefOK(e.fields[i].index, FieldTypes(e, i), session)

LEMMA ReadEntries ==
  ASSUME HeapOK, NEW a, IsArchive(a), NEW q, Named(a, q, "nodes"), NEW y \in Seq(Live),
         NEW es, es = a.parts[q].content, Decodes(es, y), NEW k \in 1 .. Len(y)
  PROVE  /\ k \in DOMAIN es /\ Mirrors(es[k], y, k)
         /\ Type(y[k]) = TypeOf[es[k].label]
         /\ Checked(es[k], y)
<1>1. PICK e, d : e = es[k] /\ d = node[y[k]]
  OBVIOUS
<1>2. EntryOK(e, y, k) /\ Len(y) <= Len(es)
  BY <1>1 DEF Decodes
<1>3. Len(es) \in Nat /\ DOMAIN es = 1 .. Len(es)
  BY Contents
<1>4. k \in DOMAIN es
  BY <1>2, <1>3
<1>5. /\ e.label \in Labels /\ DOMAIN e.fields = DOMAIN Shape[e.label] /\ d = Decoded(e, y)
      /\ \A i \in DOMAIN e.fields : e.fields[i].index + 1 < k /\ RefOK(e.fields[i].index, FieldTypes(e, i), y)
  BY <1>1, <1>2 DEF EntryOK
<1>6. /\ d.label = e.label /\ DOMAIN d.fields = DOMAIN e.fields
      /\ \A i \in DOMAIN e.fields : /\ d.fields[i].variant = e.fields[i].variant
                                    /\ d.fields[i].ref = y[e.fields[i].index + 1]
  BY <1>5 DEF Decoded
<1>7. \A i \in DOMAIN e.fields : e.fields[i].index \in Nat /\ e.fields[i].index + 1 \in 1 .. k - 1
  BY <1>5 DEF RefOK
<1>8. Mirrors(e, y, k)
  BY <1>1, <1>6, <1>7 DEF Mirrors
<1>9. Type(y[k]) = TypeOf[e.label]
  BY <1>1, <1>6 DEF Type
<1>10. Checked(e, y)
  BY <1>5 DEF Checked
<1>11. QED
  BY <1>1, <1>4, <1>8, <1>9, <1>10

(* A complete reading has read everything.                                 *)
LEMMA CompleteIs ==
  ASSUME IInv, NEW t \in Threads, Complete(t), NEW f, f = Top(t), NEW a, a = f.archive
  PROVE  /\ ReaderOK(f, de[t]) /\ IsArchive(a) /\ HasFields(a) /\ DistinctFields(a) /\ HeaderOK(a)
         /\ Junk \notin Range(PartNames(a))
         /\ PartOf(a, "version") = Version
         /\ \E q \in 1 .. Len(a.parts) : \E r \in 1 .. Len(a.parts) :
               /\ Named(a, q, "nodes") /\ Named(a, r, "roots")
               /\ PartOf(a, "nodes") = a.parts[q].content
               /\ PartOf(a, "roots") = a.parts[r].content
               /\ PartOK(f, de[t], q) /\ PartOK(f, de[t], r)
               /\ Decodes(a.parts[q].content, de[t])
<1>1. ReaderOK(f, de[t]) /\ IsArchive(a) /\ HeaderOK(a) /\ f.part > Len(a.parts)
  BY ReaderIs DEF Complete, ReaderOK, Parts
<1>2. PICK m, y, ps : m = Len(a.parts) /\ y = de[t] /\ ps = a.parts
  OBVIOUS
<1>3. m \in Nat /\ f.part = m + 1 /\ DOMAIN ps = 1 .. m
  BY <1>1, <1>2, ReaderParts
<1>4. \A p \in 1 .. m : PartOK(f, y, p) /\ ps[p].name # Junk /\ (ps[p].name \in Fields => First(a, p))
  <2>1. f.part - 1 = m
    BY <1>3
  <2>2. \A p \in 1 .. m : PartOK(f, y, p)
    BY <1>1, <1>2, <2>1 DEF ReaderOK
  <2>3. QED
    BY <1>2, <2>2 DEF PartOK
<1>5. ASSUME NEW p \in 1 .. m, NEW q \in 1 .. m, ps[p].name \in Fields, ps[p].name = ps[q].name
      PROVE  p = q
  <2>1. First(a, p) /\ First(a, q)
    BY <1>4, <1>5
  <2>2. p < q => p \in 1 .. q - 1
    BY <1>3
  <2>3. q < p => q \in 1 .. p - 1
    BY <1>3
  <2>4. ~(p < q) /\ ~(q < p)
    BY <1>2, <1>5, <2>1, <2>2, <2>3 DEF First
  <2>5. QED
    BY <1>3, <2>4
<1>6. DistinctFields(a)
  BY <1>2, <1>3, <1>5 DEF DistinctFields
<1>7. HasFields(a)
  <2>1. Fields \subseteq {ps[p].name : p \in 1 .. m}
    BY <1>2, <1>3 DEF Complete, Parts
  <2>2. QED
    BY <1>2, <1>3, <2>1 DEF HasFields
<1>8. PICK i \in 1 .. m, j \in 1 .. m, k \in 1 .. m :
        ps[i].name = "version" /\ ps[j].name = "nodes" /\ ps[k].name = "roots"
  <2>1. "version" \in Fields /\ "nodes" \in Fields /\ "roots" \in Fields
    BY FieldsAre
  <2>2. \A name \in Fields : \E p \in 1 .. m : ps[p].name = name
    BY <1>2, <1>3, <1>7 DEF HasFields
  <2>3. /\ \E p \in 1 .. m : ps[p].name = "version"
        /\ \E p \in 1 .. m : ps[p].name = "nodes"
        /\ \E p \in 1 .. m : ps[p].name = "roots"
    BY ONLY <2>1, <2>2
  <2>4. QED
    BY ONLY <2>3
<1>9. /\ PartOf(a, "version") = ps[i].content /\ PartOf(a, "nodes") = ps[j].content
      /\ PartOf(a, "roots") = ps[k].content
  BY <1>2, <1>3, <1>6, <1>8, PartOfIs, FieldsAre
<1>10. ps[i].content = Version
  BY <1>2, <1>4, <1>8 DEF PartOK
<1>11. Decodes(ps[j].content, y)
  <2>1. j \in 1 .. f.part
    BY <1>3, <1>8
  <2>2. First(a, j)
    BY <1>4, <1>8, FieldsAre
  <2>3. QED
    BY <1>1, <1>2, <1>8, <2>1, <2>2 DEF ReaderOK, Named
<1>12. Named(a, j, "nodes") /\ Named(a, k, "roots")
  BY <1>2, <1>8 DEF Named
<1>13. Junk \notin Range(PartNames(a))
  BY <1>1, <1>2, <1>4, PartsOf
<1>14. QED
  BY <1>1, <1>2, <1>4, <1>6, <1>7, <1>9, <1>10, <1>11, <1>12, <1>13

LEMMA InvRoundTrip == IInv => RoundTrip
<1> SUFFICES ASSUME IInv, NEW t \in Threads, Complete(t),
                    NEW f, f = Top(t), NEW a, a = f.archive
             PROVE  /\ RootTrees(f.roots) = DenotedRoots(PartOf(a, "nodes"), PartOf(a, "roots"))
                    /\ \A w \in written : w.archive = a => RootTrees(f.roots) = w.trees
  BY DEF RoundTrip, DenotedRoots
<1>1. PICK y, es, R : y = de[t] /\ es = PartOf(a, "nodes") /\ R = PartOf(a, "roots")
  OBVIOUS
<1>2. ReaderOK(f, y) /\ IsArchive(a) /\ HeapOK
  BY <1>1, CompleteIs, Facts
<1>3. PICK q \in 1 .. Len(a.parts), r \in 1 .. Len(a.parts) :
        /\ Named(a, q, "nodes") /\ Named(a, r, "roots")
        /\ es = a.parts[q].content /\ R = a.parts[r].content
        /\ PartOK(f, y, q) /\ PartOK(f, y, r) /\ Decodes(es, y)
  BY <1>1, CompleteIs
<1>4. y \in Seq(Live) /\ Len(y) \in Nat /\ IsSeq(es) /\ Len(es) = Len(y)
  <2>1. y \in Seq(Live) /\ Len(y) \in Nat
    BY <1>2, ReaderParts
  <2>2. IsSeq(es)
    BY <1>2, <1>3, Contents
  <2>3. Len(y) = Len(es)
    BY <1>3 DEF PartOK, Named
  <2>4. QED
    BY <2>1, <2>2, <2>3
<1>5. \A k \in 1 .. Len(y) : Mirrors(es[k], y, k)
  BY <1>2, <1>3, <1>4, ReadEntries
<1>6. PICK F : F = Denotes(es) /\ F = [k \in 1 .. Len(y) |-> Tree[y[k]]]
  BY <1>2, <1>4, <1>5, DenotesTrees
<1>7. RootsRead(f.roots, R, y)
  BY <1>2, <1>3 DEF PartOK, Named
<1>8. ASSUME NEW ty \in RootTypes
      PROVE  [i \in DOMAIN f.roots[ty] |-> Tree[f.roots[ty][i]]] = [i \in DOMAIN R[ty] |-> F[R[ty][i] + 1]]
  <2>1. f.roots[ty] = [i \in DOMAIN R[ty] |-> y[R[ty][i] + 1]]
    BY <1>7 DEF RootsRead
  <2>2. ASSUME NEW i \in DOMAIN R[ty] PROVE F[R[ty][i] + 1] = Tree[f.roots[ty][i]]
    <3>1. PICK j : j = R[ty][i]
      OBVIOUS
    <3>2. j \in Nat /\ j < Len(y)
      BY <1>7, <3>1 DEF RootsRead, RefOK, IsRef
    <3>3. j + 1 \in 1 .. Len(y)
      BY <1>4, <3>2
    <3>4. QED
      BY <1>6, <2>1, <3>1, <3>3
  <2>3. QED
    BY <2>1, <2>2
<1>9. RootTrees(f.roots) = DenotedRoots(es, R)
  <2>1. [ty \in RootTypes |-> [i \in DOMAIN f.roots[ty] |-> Tree[f.roots[ty][i]]]]
      = [ty \in RootTypes |-> [i \in DOMAIN R[ty] |-> F[R[ty][i] + 1]]]
    BY <1>8
  <2>2. QED
    BY <1>6, <2>1 DEF RootTrees, DenotedRoots
<1>10. \A w \in written : w.archive = a => w.trees = DenotedRoots(es, R)
  BY <1>1 DEF IInv, WrittenOK
<1>11. QED
  BY <1>1, <1>9, <1>10

(* Reading gives back the structure that was written, whatever was         *)
(* dropped, reclaimed and interned in between.                             *)
THEOREM ReadsWhatWasWritten == Spec => []RoundTrip
BY Invariant, InvRoundTrip, PTL

LEMMA CompleteWellFormed ==
  ASSUME IInv, NEW t \in Threads, Complete(t), NEW a, a = Top(t).archive
  PROVE  WellFormed(a)
<1>1. PICK f, y, es, R : f = Top(t) /\ y = de[t] /\ es = PartOf(a, "nodes") /\ R = PartOf(a, "roots")
  OBVIOUS
<1>2. /\ ReaderOK(f, y) /\ IsArchive(a) /\ HeapOK /\ HasFields(a) /\ DistinctFields(a) /\ HeaderOK(a)
      /\ PartOf(a, "version") = Version /\ a = f.archive /\ Junk \notin Range(PartNames(a))
  BY <1>1, CompleteIs, Facts
<1>3. PICK q \in 1 .. Len(a.parts), r \in 1 .. Len(a.parts) :
        /\ Named(a, q, "nodes") /\ Named(a, r, "roots")
        /\ es = a.parts[q].content /\ R = a.parts[r].content
        /\ PartOK(f, y, q) /\ PartOK(f, y, r) /\ Decodes(es, y)
  BY <1>1, CompleteIs
<1>4. y \in Seq(Live) /\ Len(y) \in Nat /\ DOMAIN es = 1 .. Len(y) /\ Len(es) = Len(y)
  <2>1. y \in Seq(Live) /\ Len(y) \in Nat
    BY <1>2, ReaderParts
  <2>2. DOMAIN es = 1 .. Len(es)
    BY <1>2, <1>3, Contents
  <2>3. Len(y) = Len(es)
    BY <1>2, <1>3 DEF PartOK, Named
  <2>4. QED
    BY <2>1, <2>2, <2>3
<1>5. ASSUME NEW k \in 1 .. Len(y)
      PROVE  Mirrors(es[k], y, k) /\ Type(y[k]) = TypeOf[es[k].label] /\ Checked(es[k], y)
  BY <1>2, <1>3, <1>4, ReadEntries
<1>6. ASSUME NEW index, NEW ts, RefOK(index, ts, y) PROVE RefersTo(es, index, ts)
  <2>1. PICK j : j = index + 1
    OBVIOUS
  <2>2. j \in 1 .. Len(y) /\ Type(y[j]) \in ts
    BY <1>4, <1>6, <2>1 DEF RefOK, IsRef
  <2>3. QED
    BY <1>4, <1>5, <2>1, <2>2 DEF RefersTo, Checked
<1>7. ASSUME NEW k \in DOMAIN es
      PROVE  /\ es[k].label \in Labels /\ DOMAIN es[k].fields = DOMAIN Shape[es[k].label]
             /\ \A i \in DOMAIN es[k].fields :
                  /\ es[k].fields[i].index + 1 < k
                  /\ RefersTo(es, es[k].fields[i].index, FieldTypes(es[k], i))
  <2>1. PICK e : e = es[k]
    OBVIOUS
  <2>2. k \in 1 .. Len(y) /\ k \in Nat
    BY <1>4
  <2>3. \A i \in DOMAIN e.fields : e.fields[i].index \in Nat /\ e.fields[i].index + 1 \in 1 .. k - 1
    BY <1>5, <2>1, <2>2 DEF Mirrors
  <2>4. \A i \in DOMAIN e.fields : e.fields[i].index + 1 < k
    BY <2>2, <2>3
  <2>5. \A i \in DOMAIN e.fields : RefersTo(es, e.fields[i].index, FieldTypes(e, i))
    BY <1>5, <1>6, <2>1, <2>2 DEF Checked
  <2>6. QED
    BY <1>5, <2>1, <2>2, <2>4, <2>5 DEF Checked
<1>8. ASSUME NEW ty \in RootTypes, NEW i \in DOMAIN R[ty]
      PROVE  PlaceOf(a, "nodes") < PlaceOf(a, "roots") /\ RefersTo(es, R[ty][i], {ty})
  <2>1. /\ RefOK(R[ty][i], {ty}, y)
        /\ \E p \in 1 .. r - 1 : Named(a, p, "nodes")
    BY <1>2, <1>3 DEF PartOK, RootsRead, Named
  <2>2. PICK p \in 1 .. r - 1 : Named(a, p, "nodes")
    BY <2>1
  <2>3. PlaceOf(a, "nodes") = p /\ PlaceOf(a, "roots") = r
    <3>1. p \in DOMAIN a.parts /\ r \in DOMAIN a.parts
      BY <1>2, <1>3, <2>2, PartsOf DEF Named
    <3>2. QED
      BY <1>2, <1>3, <2>2, <3>1, PartOfIs, FieldsAre DEF Named
  <2>4. p < r
    BY <2>2
  <2>5. QED
    BY <1>6, <2>1, <2>3, <2>4
<1>9. \A name \in Fields : ComesOnce(a, name)
  BY <1>2, OnceIs
<1>10. a.format = "binary" => a.magic /\ a.schema = Schema
  BY <1>2 DEF HeaderOK
<1>11. QED
  BY <1>1, <1>2, <1>7, <1>8, <1>9, <1>10 DEF WellFormed

LEMMA MalformedIll ==
  ASSUME IInv, NEW t \in Threads, Malformed(t), NEW a, a = Top(t).archive, WellFormed(a)
  PROVE  FALSE
<1>1. PICK f, y, es, R : f = Top(t) /\ y = de[t] /\ es = PartOf(a, "nodes") /\ R = PartOf(a, "roots")
  OBVIOUS
<1>2. ReaderOK(f, y) /\ IsArchive(a) /\ HeapOK /\ InCall(t, "de") /\ a = f.archive
  BY <1>1, ReaderIs, Facts DEF Malformed, ReaderOK
<1>3. PICK ps, p : ps = a.parts /\ p = f.part
  OBVIOUS
<1>4. /\ HasFields(a) /\ DistinctFields(a) /\ Len(ps) \in Nat /\ DOMAIN ps = 1 .. Len(ps)
      /\ \A i \in 1 .. Len(ps) : ps[i].name # Junk
  <2>1. HasFields(a) /\ DistinctFields(a)
    BY OnceIs DEF WellFormed
  <2>2. Junk \notin Range(PartNames(a))
    BY DEF WellFormed
  <2>3. QED
    BY <1>2, <1>3, <2>1, <2>2, PartsOf
<1>5. PICK m : m = Len(ps)
  OBVIOUS
<1>6. m \in Nat /\ DOMAIN ps = 1 .. m /\ p \in 1 .. m + 1 /\ Parts(t) = ps /\ Top(t).part = p
  <2>1. f.part \in 1 .. Len(f.archive.parts) + 1
    BY <1>2 DEF ReaderOK
  <2>2. QED
    BY <1>1, <1>2, <1>3, <1>4, <1>5, <2>1 DEF Parts
<1>7. CASE p = m + 1
  <2>1. Top(t).part > Len(Parts(t))
    BY <1>5, <1>6, <1>7
  <2>2. Fields \subseteq {ps[i].name : i \in DOMAIN ps}
    BY <1>3, <1>4 DEF HasFields
  <2>3. QED
    BY <1>2, <1>6, <2>1, <2>2 DEF Complete, Malformed
<1>8. CASE p \in 1 .. m
  <2>1. /\ Top(t).part = p /\ p <= Len(Parts(t)) /\ Named(a, p, ps[p].name)
        /\ Content(t) = ps[p].content /\ AtPart(t, ps[p].name)
    BY <1>1, <1>2, <1>3, <1>5, <1>6, <1>8 DEF Named, Content, AtPart
  <2>2. ps[p].name \in Fields
    <3>1. CASE ps[p].name \notin Fields
      <4>1. IsUnknown(t)
        BY <1>2, <1>4, <1>5, <1>6, <1>8, <2>1, <3>1 DEF IsUnknown
      <4>2. QED
        BY <4>1 DEF Malformed
    <3>2. QED
      BY <3>1
  <2>3. FirstOfItsName(t)
    <3>1. \A i \in 1 .. p - 1 : i \in 1 .. m /\ i # p
      BY <1>6, <1>8
    <3>2. \A i \in 1 .. p - 1 : ps[i].name # ps[p].name
      BY <1>3, <1>4, <1>6, <1>8, <2>2, <3>1 DEF DistinctFields
    <3>3. QED
      BY <1>6, <2>1, <3>2 DEF FirstOfItsName
  <2>4. PartOf(a, ps[p].name) = ps[p].content
    BY <1>3, <1>4, <1>6, <1>8, <2>2, PartOfIs
  <2>5. ASSUME NEW q \in 1 .. p, ps[q].name = "nodes"
        PROVE  es = ps[q].content /\ Named(a, q, "nodes") /\ Decodes(es, y)
    <3>1. q \in 1 .. m
      BY <1>6, <1>8
    <3>2. es = ps[q].content
      BY <1>1, <1>3, <1>4, <1>6, <2>5, <3>1, PartOfIs, FieldsAre
    <3>3. First(a, q)
      <4>1. \A i \in 1 .. q - 1 : i \in 1 .. m /\ i # q
        BY <1>6, <3>1
      <4>2. QED
        BY <1>3, <1>4, <1>6, <2>5, <3>1, <4>1, FieldsAre DEF DistinctFields, First
    <3>4. Named(a, q, "nodes")
      BY <1>3, <1>5, <2>5, <3>1 DEF Named
    <3>5. QED
      BY <1>2, <1>3, <3>2, <3>3, <3>4 DEF ReaderOK
  <2>6. y \in Seq(Live) /\ Len(y) \in Nat
    BY <1>2, ReaderParts
  <2>7. ASSUME NEW q \in 1 .. p, ps[q].name = "nodes", NEW index \in Nat, index < Len(y), NEW ts,
               RefersTo(es, index, ts)
        PROVE  IsRef(index, ts, y)
    <3>1. PICK j : j = index + 1
      OBVIOUS
    <3>2. j \in 1 .. Len(y)
      BY <2>6, <2>7, <3>1
    <3>3. es = a.parts[q].content /\ Named(a, q, "nodes") /\ Decodes(es, y)
      BY <1>3, <2>5, <2>7
    <3>4. /\ j \in DOMAIN es /\ Mirrors(es[j], y, j)
          /\ Type(y[j]) = TypeOf[es[j].label]
          /\ Checked(es[j], y)
      <4>1. HeapOK /\ IsArchive(a) /\ y \in Seq(Live)
        BY <1>2, <2>6
      <4>2. QED
        BY ONLY <3>2, <3>3, <4>1, ReadEntries
    <3>5. QED
      BY <2>7, <3>1, <3>4 DEF RefersTo, IsRef
  <2>8. ASSUME MoreToDecode(t) PROVE NodeOK(NextNode(t), y)
    <3>1. AtPart(t, "nodes") /\ Len(y) < Len(Content(t))
      BY <1>1, <2>8 DEF MoreToDecode
    <3>2. ps[p].name = "nodes" /\ Content(t) = es /\ Named(a, p, "nodes") /\ p \in 1 .. p
      <4>1. ps[p].name = "nodes"
        BY <1>6, <3>1 DEF AtPart
      <4>2. QED
        BY <1>1, <1>6, <1>8, <2>1, <2>4, <4>1
    <3>3. PICK k, e : k = Len(y) + 1 /\ e = es[k]
      OBVIOUS
    <3>4. es = a.parts[p].content
      BY <1>3, <2>1, <3>2
    <3>5. /\ DOMAIN es = 1 .. Len(es) /\ Len(es) \in Nat
          /\ \A i \in 1 .. Len(es) : \A j \in DOMAIN es[i].fields : es[i].fields[j].index \in Nat
      BY <1>2, <3>2, <3>4, Contents
    <3>6. k \in DOMAIN es /\ NextNode(t) = e
      BY <1>1, <2>6, <3>1, <3>2, <3>3, <3>5 DEF NextNode
    <3>7. /\ e.label \in Labels /\ DOMAIN e.fields = DOMAIN Shape[e.label]
          /\ \A i \in DOMAIN e.fields :
                e.fields[i].index + 1 < k /\ RefersTo(es, e.fields[i].index, FieldTypes(e, i))
      BY <1>1, <3>3, <3>6 DEF WellFormed
    <3>8. ASSUME NEW i \in DOMAIN e.fields PROVE IsRef(e.fields[i].index, FieldTypes(e, i), y)
      <4>1. PICK j : j = e.fields[i].index
        OBVIOUS
      <4>2. j \in Nat
        BY <3>3, <3>5, <3>6, <4>1
      <4>3. j + 1 < k /\ RefersTo(es, j, FieldTypes(e, i))
        BY <3>7, <4>1
      <4>4. j < Len(y)
        BY <2>6, <3>3, <4>2, <4>3
      <4>5. QED
        BY <2>7, <3>2, <4>1, <4>2, <4>3, <4>4
    <3>9. QED
      BY <3>6, <3>7, <3>8 DEF NodeOK
  <2>9. ASSUME AtPart(t, "roots") PROVE RootsOK(Content(t), y)
    <3>1. ps[p].name = "roots" /\ Content(t) = R /\ Named(a, p, "roots")
      BY <1>1, <1>6, <2>1, <2>4, <2>9 DEF AtPart
    <3>2. R = a.parts[p].content
      BY <1>3, <2>1, <3>1
    <3>3. ASSUME NEW ty \in RootTypes, NEW i \in DOMAIN R[ty] PROVE IsRef(R[ty][i], {ty}, y)
      <4>1. PICK j : j = R[ty][i]
        OBVIOUS
      <4>2. j \in Nat
        BY <1>2, <3>1, <3>2, <4>1, RootContents
      <4>3. PlaceOf(a, "nodes") < PlaceOf(a, "roots") /\ RefersTo(es, j, {ty})
        BY <1>1, <1>3, <4>1 DEF WellFormed
      <4>4. PICK q \in 1 .. m : ps[q].name = "nodes"
        BY <1>3, <1>4, <1>6, FieldsAre DEF HasFields
      <4>5. q \in 1 .. p - 1
        <5>1. PlaceOf(a, "nodes") = q /\ PlaceOf(a, "roots") = p
          BY <1>3, <1>4, <1>6, <1>8, <3>1, <4>4, PartOfIs, FieldsAre
        <5>2. q < p
          BY <4>3, <5>1
        <5>3. QED
          BY <1>6, <5>2
      <4>6. q \in 1 .. p
        BY <1>6, <4>5
      <4>7. es = a.parts[q].content /\ Named(a, q, "nodes")
        BY <1>3, <2>5, <4>4, <4>6
      <4>8. PartOK(f, y, q)
        BY <1>2, <1>3, <4>5 DEF ReaderOK
      <4>9. Len(y) = Len(es)
        BY <1>2, <4>7, <4>8 DEF PartOK, Named
      <4>10. DOMAIN es = 1 .. Len(es)
        BY <1>2, <4>7, Contents
      <4>11. j + 1 \in 1 .. Len(y)
        BY <4>3, <4>9, <4>10 DEF RefersTo
      <4>12. j < Len(y)
        BY <2>6, <4>2, <4>11
      <4>13. QED
        BY <2>7, <4>1, <4>2, <4>3, <4>4, <4>6, <4>12
    <3>4. QED
      BY <3>1, <3>3 DEF RootsOK
  <2>10. CASE ps[p].name = "version"
    <3>1. AtPart(t, "version") /\ Content(t) = Version
      BY <2>1, <2>4, <2>10 DEF WellFormed
    <3>2. QED
      BY <2>3, <3>1 DEF VersionFits, Malformed
  <2>11. CASE ps[p].name = "nodes"
    <3>1. NodeFits(t) \/ NodesEnd(t)
      BY <1>1, <2>1, <2>3, <2>8, <2>11 DEF NodeFits, NodesEnd
    <3>2. QED
      BY <3>1 DEF Malformed
  <2>12. CASE ps[p].name = "roots"
    <3>1. RootsFit(t)
      BY <1>1, <2>1, <2>3, <2>9, <2>12 DEF RootsFit
    <3>2. QED
      BY <3>1 DEF Malformed
  <2>13. QED
    BY <2>2, <2>10, <2>11, <2>12, FieldsAre
<1>9. QED
  BY <1>6, <1>7, <1>8

LEMMA InvAcceptsWellFormed == IInv => AcceptsWellFormed
BY CompleteWellFormed, MalformedIll DEF AcceptsWellFormed

(* The one forward pass of hirpdag_deserialize ends with Ok on well-formed *)
(* archives only, and finds fault with no well-formed one.                 *)
THEOREM AcceptsExactly == Spec => []AcceptsWellFormed
BY Invariant, InvAcceptsWellFormed, PTL
-----------------------------------------------------------------------------
(***************************************************************************)
(* Builds of the program (Expand).  The fingerprint in an archive's header *)
(* stands for the layout of the archives of a build: the types of a module *)
(* determine both, and each type is described completely by its part of    *)
(* the fingerprint.  And what a build is made of is what its arguments     *)
(* say: the configuration is followed through the fold over the arguments, *)
(* after each of which the last types set after the last preset hold.      *)
(***************************************************************************)

(* An entry is what its definition describes.                              *)
EntryOf(definition) ==
  [name |-> definition.name, is_struct |-> definition.kind = "struct", is_root |-> definition.root,
   definition |-> definition, parts |-> definition.parts]
EntriesOK(ts) ==
  ts \in Seq(Range(ts)) /\ \A k \in 1 .. Len(ts) : ts[k] = EntryOf(ts[k].definition)

(* The fingerprint and the layout a module with these types has.           *)
SchemaOf(ts) == [i \in DOMAIN ts |-> ts[i].definition]
StructsOf(ts) == SelectSeq(ts, LAMBDA entry : entry.is_struct)
RootsIn(ts) == SelectSeq(StructsOf(ts), LAMBDA entry : entry.is_root)
WireOf(ts) ==
  [nodes |-> [i \in DOMAIN StructsOf(ts) |-> Layout(StructsOf(ts)[i])],
   roots |-> [i \in DOMAIN RootsIn(ts) |-> RootsIn(ts)[i].name],
   inline |-> {Layout(ts[i]) : i \in {j \in DOMAIN ts : ~ts[j].is_struct}}]

LEMMA WireIs == Wire = WireOf(types) /\ schema_hash = SchemaOf(types)
BY DEF Wire, WireOf, struct_types, root_types, StructsOf, RootsIn,
       schema_hash, SchemaOf

(* Equal fingerprints are of equal types.                                  *)
LEMMA SchemaFixesTypes ==
  ASSUME NEW ts, NEW us, EntriesOK(ts), EntriesOK(us), SchemaOf(ts) = SchemaOf(us)
  PROVE  ts = us
<1>1. /\ DOMAIN ts = 1 .. Len(ts) /\ Len(ts) \in Nat /\ ts = [k \in 1 .. Len(ts) |-> ts[k]]
      /\ DOMAIN us = 1 .. Len(us) /\ Len(us) \in Nat /\ us = [k \in 1 .. Len(us) |-> us[k]]
  BY DEF EntriesOK
<1>2. PICK f, g : f = SchemaOf(ts) /\ g = SchemaOf(us)
  OBVIOUS
<1>3. DOMAIN f = DOMAIN ts /\ DOMAIN g = DOMAIN us
  BY ONLY <1>2 DEF SchemaOf
<1>4. Len(ts) = Len(us)
  <2>1. PICK m, n : m = Len(ts) /\ n = Len(us)
    OBVIOUS
  <2>2. m \in Nat /\ n \in Nat /\ 1 .. m = 1 .. n
    BY ONLY <1>1, <1>2, <1>3, <2>1, SchemaOf(ts) = SchemaOf(us)
  <2>3. (m # 0 => m \in 1 .. n) /\ (n # 0 => n \in 1 .. m)
    BY ONLY <2>2
  <2>4. QED
    BY ONLY <2>1, <2>2, <2>3
<1>5. ASSUME NEW k \in 1 .. Len(ts) PROVE ts[k] = us[k]
  <2>1. k \in DOMAIN ts /\ k \in DOMAIN us /\ k \in 1 .. Len(us)
    BY <1>1, <1>4
  <2>2. f[k] = ts[k].definition /\ g[k] = us[k].definition
    BY ONLY <1>2, <2>1 DEF SchemaOf
  <2>3. ts[k].definition = us[k].definition
    BY ONLY <1>2, <2>2, SchemaOf(ts) = SchemaOf(us)
  <2>4. ts[k] = EntryOf(ts[k].definition) /\ us[k] = EntryOf(us[k].definition)
    BY <2>1 DEF EntriesOK
  <2>5. QED
    BY ONLY <2>3, <2>4
<1>6. QED
  BY ONLY <1>1, <1>4, <1>5

(* The next item's entry, at the end of those before.                      *)
LEMMA EntryAdded ==
  ASSUME NEW ts, EntriesOK(ts), NEW item, NEW root
  PROVE  EntriesOK(Append(ts, Entry(item, root)))
<1>1. PICK e, d : e = Entry(item, root) /\ d = Definition(item, root)
  OBVIOUS
<1>2. e = EntryOf(e.definition)
  <2>1. d = [root |-> root, kind |-> item.kind, name |-> item.name, parts |-> item.parts]
    BY <1>1 DEF Definition
  <2>2. e = [name |-> item.name, is_struct |-> item.kind = "struct", is_root |-> root,
             definition |-> d, parts |-> item.parts]
    BY <1>1 DEF Entry
  <2>3. e.definition = d /\ d.name = item.name /\ d.kind = item.kind /\ d.root = root /\ d.parts = item.parts
    BY ONLY <2>1, <2>2
  <2>4. QED
    BY ONLY <2>2, <2>3 DEF EntryOf
<1>3. PICK S : S = Range(ts) \cup {e}
  OBVIOUS
<1>4. ts \in Seq(S) /\ e \in S
  BY <1>3 DEF EntriesOK
<1>5. PICK us : us = Append(ts, e)
  OBVIOUS
<1>6. /\ us \in Seq(S) /\ Len(ts) \in Nat /\ Len(us) = Len(ts) + 1 /\ us[Len(ts) + 1] = e
      /\ \A k \in 1 .. Len(ts) : us[k] = ts[k]
  BY ONLY <1>4, <1>5
<1>7. ASSUME NEW k \in 1 .. Len(us) PROVE us[k] = EntryOf(us[k].definition)
  <2>1. CASE k \in 1 .. Len(ts)
    <3>1. ts[k] = EntryOf(ts[k].definition) /\ us[k] = ts[k]
      BY <1>6, <2>1 DEF EntriesOK
    <3>2. QED
      BY ONLY <3>1
  <2>2. CASE k \notin 1 .. Len(ts)
    <3>1. us[k] = e
      BY ONLY <1>6, <2>2, k \in 1 .. Len(us)
    <3>2. QED
      BY ONLY <1>2, <3>1
  <2>3. QED
    BY <2>1, <2>2
<1>8. us \in Seq(Range(us))
  <2>1. /\ DOMAIN us = 1 .. Len(us) /\ Len(us) \in Nat /\ us = [k \in 1 .. Len(us) |-> us[k]]
    BY ONLY <1>6
  <2>2. us \in [1 .. Len(us) -> Range(us)]
    BY ONLY <2>1 DEF Range
  <2>3. QED
    BY ONLY <2>1, <2>2, FunctionIsSeq
<1>9. QED
  BY <1>1, <1>5, <1>7, <1>8 DEF EntriesOK

(* A build's fingerprint and layout are those of the same types.           *)
Described(b) == \E ts : EntriesOK(ts) /\ b.schema = SchemaOf(ts) /\ b.wire = WireOf(ts)
Fingerprinted == EntriesOK(types) /\ \A b \in builds : Described(b)

LEMMA FingerprintedInv ==
  ASSUME Fingerprinted, [ExpandNext]_expand_vars
  PROVE  Fingerprinted'
<1>0. EntriesOK(<<>>)
  BY DEF EntriesOK
<1>1. ASSUME NEW input \in Inputs, Begin(input[1], input[2]) PROVE Fingerprinted'
  BY <1>1 DEF Begin, Fingerprinted
<1>2. ASSUME Fails PROVE Fingerprinted'
  BY <1>0, <1>2 DEF Fails, Fingerprinted
<1>3. CASE PassThrough
  BY <1>3 DEF PassThrough, Fingerprinted
<1>4. CASE ExpandItem
  <2>1. types' = Append(types, Entry(Item, TypeConfig.root)) /\ builds' = builds
    BY <1>4 DEF ExpandItem
  <2>2. EntriesOK(types')
    BY <2>1, EntryAdded DEF Fingerprinted
  <2>3. QED
    BY <2>1, <2>2 DEF Fingerprinted
<1>5. CASE ExpandEnd
  <2>1. PICK b : b.wire = Wire /\ b.schema = schema_hash /\ builds' = builds \cup {b}
    BY <1>5 DEF ExpandEnd
  <2>2. Described(b)
    BY <2>1, WireIs DEF Fingerprinted, Described
  <2>3. types' = <<>>
    BY <1>5 DEF ExpandEnd
  <2>4. QED
    BY <1>0, <2>1, <2>2, <2>3 DEF Fingerprinted
<1>6. CASE UNCHANGED expand_vars
  BY <1>6 DEF expand_vars, Fingerprinted
<1>7. QED
  BY <1>1, <1>2, <1>3, <1>4, <1>5, <1>6
     DEF ExpandNext, Rejected, ItemFails, EndFails

(* However the module of a program changes, two of its builds that agree   *)
(* on the fingerprint lay out archives alike.                              *)
THEOREM FingerprintFixesWire == ExpandSpec => []SchemaFixesWire
<1>1. ExpandInit => Fingerprinted
  BY DEF ExpandInit, Fingerprinted, EntriesOK
<1>2. Fingerprinted /\ [ExpandNext]_expand_vars => Fingerprinted'
  BY FingerprintedInv
<1>3. ASSUME Fingerprinted PROVE SchemaFixesWire
  <2> SUFFICES ASSUME NEW v \in builds, NEW w \in builds, v.schema = w.schema
               PROVE  v.wire = w.wire
    BY DEF SchemaFixesWire
  <2>1. PICK ts : EntriesOK(ts) /\ v.schema = SchemaOf(ts) /\ v.wire = WireOf(ts)
    BY <1>3 DEF Fingerprinted, Described
  <2>2. PICK us : EntriesOK(us) /\ w.schema = SchemaOf(us) /\ w.wire = WireOf(us)
    BY <1>3 DEF Fingerprinted, Described
  <2>3. ts = us
    BY <2>1, <2>2, SchemaFixesTypes
  <2>4. QED
    BY <2>1, <2>2, <2>3
<1>4. QED
  BY <1>1, <1>2, <1>3, PTL DEF ExpandSpec
-----------------------------------------------------------------------------
(* Arguments are folded in order.                                          *)
Folding(args, S, iter) ==
  iter = [s \in SUBSET S |->
            IF s = {} THEN default
            ELSE Override(iter[s \ {Max(s)}], args[Max(s)])]

LEMMA FromIs ==
  ASSUME NEW args
  PROVE  From(args) = (CHOOSE iter : Folding(args, DOMAIN args, iter))[DOMAIN args]
BY DEF From, FoldLeft, MapThenFoldSet, Folding

LEMMA MaxIs ==
  ASSUME NEW n \in Nat, NEW s \in SUBSET (0 .. n), s # {}
  PROVE  Max(s) \in s /\ \A y \in s : Max(s) >= y
<1> DEFINE T == {k \in Nat : \A y \in s : y <= k}
<1>1. n \in T
  OBVIOUS
<1>2. PICK m \in T : \A k \in T : m <= k
  <2>1. T \in SUBSET Nat /\ T # {}
    BY <1>1
  <2> HIDE DEF T
  <2>2. QED
    BY <2>1, Least
<1>3. ASSUME m \notin s PROVE FALSE
  <2>0. m \in Nat /\ \A y \in s : y \in Nat /\ y <= m
    OBVIOUS
  <2>1. PICK z \in s : z \in Nat /\ z <= m
    BY <2>0
  <2>2. m - 1 \in Nat
    BY <1>3, <2>1
  <2>3. ASSUME NEW y \in s PROVE y <= m - 1
    <3>1. y \in Nat /\ y <= m /\ y # m
      BY <1>3, <2>0
    <3>2. QED
      BY ONLY <3>1, m \in Nat
  <2>4. m - 1 \in T
    BY <2>2, <2>3
  <2>5. QED
    BY <1>2, <2>4
<1>4. \E x \in s : \A y \in s : x >= y
  BY <1>3
<1>5. QED
  BY <1>4, Zenon DEF Max

LEMMA BelowMax ==
  ASSUME NEW k \in Nat, NEW s \in SUBSET (1 .. k), s # {}
  PROVE  Max(s) \in 1 .. k /\ s \ {Max(s)} \in SUBSET (1 .. k - 1)
<1>1. PICK m : m = Max(s)
  OBVIOUS
<1>2. m \in s /\ \A y \in s : m >= y
  <2>1. s \in SUBSET (0 .. k)
    OBVIOUS
  <2>2. QED
    BY <1>1, <2>1, MaxIs
<1>3. ASSUME NEW y \in s \ {m} PROVE y \in 1 .. k - 1
  <2>1. y \in 1 .. k /\ m \in 1 .. k /\ m >= y /\ y # m
    BY <1>2
  <2>2. QED
    BY ONLY <2>1, k \in Nat
<1>4. QED
  BY <1>1, <1>2, <1>3

LEMMA MaxTo ==
  ASSUME NEW k \in Nat \ {0}
  PROVE  Max(1 .. k) = k /\ (1 .. k) \ {k} = 1 .. k - 1
<1>1. PICK s : s = 1 .. k
  OBVIOUS
<1>2. s \in SUBSET (0 .. k) /\ s # {} /\ k \in s
  BY <1>1
<1>3. Max(s) \in s /\ Max(s) >= k
  BY <1>2, MaxIs
<1>4. Max(s) = k
  BY <1>1, <1>3
<1>5. QED
  BY <1>1, <1>4

LEMMA FoldingExists ==
  ASSUME NEW args, NEW n \in Nat
  PROVE  \E iter : Folding(args, 1 .. n, iter)
<1> DEFINE G(k) == \E iter : Folding(args, 1 .. k, iter)
           T == {k \in Nat : ~G(k)}
<1>1. ASSUME NEW k \in T, \A j \in T : k <= j PROVE FALSE
  <2>0. k \in Nat /\ ~G(k)
    OBVIOUS
  <2>1. CASE k = 0
    <3>1. PICK g : g = [s \in SUBSET (1 .. k) |-> default]
      OBVIOUS
    <3>2. \A s \in SUBSET (1 .. k) : s = {}
      BY <2>1
    <3>3. Folding(args, 1 .. k, g)
      BY ONLY <3>1, <3>2 DEF Folding
    <3>4. QED
      BY <2>0, <3>3
  <2>2. CASE k # 0
    <3>1. k - 1 \in Nat /\ k - 1 < k
      BY <2>0, <2>2
    <3>2. G(k - 1)
      <4> HIDE DEF G
      <4>1. k - 1 \notin T
        BY <1>1, <3>1
      <4>2. QED
        BY <3>1, <4>1
    <3>3. PICK f : Folding(args, 1 .. k - 1, f)
      BY <3>2
    <3>4. PICK g : g = [s \in SUBSET (1 .. k) |->
                          IF s = {} THEN default
                          ELSE Override(f[s \ {Max(s)}], args[Max(s)])]
      OBVIOUS
    <3>5. ASSUME NEW s \in SUBSET (1 .. k - 1) PROVE g[s] = f[s]
      <4>1. s \in SUBSET (1 .. k)
        BY <2>0
      <4>2. f[s] = IF s = {} THEN default
                   ELSE Override(f[s \ {Max(s)}], args[Max(s)])
        BY ONLY <3>3, s \in SUBSET (1 .. k - 1) DEF Folding
      <4>3. QED
        BY ONLY <3>4, <4>1, <4>2
    <3>6. ASSUME NEW s \in SUBSET (1 .. k), s # {}
          PROVE  g[s \ {Max(s)}] = f[s \ {Max(s)}]
      BY <2>0, <3>5, <3>6, BelowMax
    <3>7. Folding(args, 1 .. k, g)
      BY ONLY <3>4, <3>6 DEF Folding
    <3>8. QED
      BY <2>0, <3>7
  <2>3. QED
    BY <2>1, <2>2
<1>2. T = {}
  <2>1. T \in SUBSET Nat
    OBVIOUS
  <2> HIDE DEF T
  <2>2. QED
    BY <1>1, <2>1, Least
<1>3. QED
  BY <1>2

(* The configuration after each argument.                                  *)
Successive(args, n, c) ==
  /\ c[0] = default
  /\ \A k \in 1 .. n : c[k] = Override(c[k - 1], args[k])

LEMMA ConfigSteps ==
  ASSUME NEW n \in Nat, NEW args, DOMAIN args = 1 .. n
  PROVE  \E c : Successive(args, n, c) /\ From(args) = c[n]
<1>1. PICK iter : iter = CHOOSE g : Folding(args, 1 .. n, g)
  OBVIOUS
<1>2. Folding(args, 1 .. n, iter)
  BY <1>1, FoldingExists, Zenon
<1>3. From(args) = iter[1 .. n]
  BY <1>1, FromIs
<1>4. PICK c : c = [k \in 0 .. n |-> iter[1 .. k]]
  OBVIOUS
<1>5. c[0] = default
  <2>1. 1 .. 0 = {} /\ {} \in SUBSET (1 .. n) /\ 0 \in 0 .. n
    OBVIOUS
  <2>2. iter[{}] = default
    BY ONLY <1>2, <2>1 DEF Folding
  <2>3. QED
    BY ONLY <1>4, <2>1, <2>2
<1>6. ASSUME NEW k \in 1 .. n
      PROVE  c[k] = Override(c[k - 1], args[k])
  <2>1. k \in Nat \ {0} /\ k \in 0 .. n /\ k - 1 \in 0 .. n /\ 1 .. k \in SUBSET (1 .. n) /\ 1 .. k # {}
    OBVIOUS
  <2>2. PICK s, r : s = 1 .. k /\ r = 1 .. k - 1
    OBVIOUS
  <2>3. Max(s) = k /\ s \ {k} = r
    BY <2>1, <2>2, MaxTo
  <2>4. iter[s] = Override(iter[r], args[k])
    <3>1. s \in SUBSET (1 .. n) /\ s # {}
      BY ONLY <2>1, <2>2
    <3>2. iter[s] = Override(iter[s \ {Max(s)}], args[Max(s)])
      BY ONLY <1>2, <3>1 DEF Folding
    <3>3. QED
      BY ONLY <2>3, <3>2
  <2>5. c[k] = iter[s] /\ c[k - 1] = iter[r]
    BY ONLY <1>4, <2>1, <2>2
  <2>6. QED
    BY ONLY <2>4, <2>5
<1>7. c[n] = iter[1 .. n]
  BY <1>4
<1>8. QED
  BY <1>3, <1>5, <1>6, <1>7 DEF Successive

(* The type an argument sets, and what it sets it to.                      *)
Setting(types_of, name) == IF name = "table_type" THEN types_of.aliases ELSE types_of[name]
Given(a) == IF a.name = "table_type" THEN <<[name |-> "ImplTable", rhs |-> a.value]>> ELSE a.value

(* A configuration has every type, and at most one alias.                  *)
Plain == TypeArguments \ {"table_type"}
TypesOK(ts) ==
  /\ Plain \cup {"aliases"} \subseteq DOMAIN ts
  /\ ts.aliases = <<>> \/ \E r : ts.aliases = <<[name |-> "ImplTable", rhs |-> r]>>
ConfigOK(c) == {"normalizer", "root", "types"} \subseteq DOMAIN c /\ TypesOK(c.types)

LEMMA PlainIs ==
  Plain = {"reference_type", "reference_weak_type", "tableshared_type", "build_tableshared_type"}
BY DEF Plain, TypeArguments

LEMMA ShardedOK == ASSUME NEW base, NEW inner PROVE TypesOK(sharded(base, inner))
BY PlainIs DEF TypesOK, sharded

LEMMA ConcurrentOK == ASSUME NEW base, NEW shared PROVE TypesOK(concurrent(base, shared))
BY PlainIs DEF TypesOK, concurrent

LEMMA PresetsOK ==
  ASSUME NEW p \in PRESETS
  PROVE  TypesOK(preset_types[p])
<1>1. \/ \E base, inner : preset_types[p] = sharded(base, inner)
      \/ \E base, shared : preset_types[p] = concurrent(base, shared)
  BY DEF PRESETS, preset_types
<1>2. QED
  BY <1>1, ShardedOK, ConcurrentOK

LEMMA DefaultIs ==
  /\ DEFAULT_PRESET \in PRESETS
  /\ ConfigOK(default)
  /\ default.types = preset_types[DEFAULT_PRESET]
<1>1. DEFAULT_PRESET \in PRESETS
  BY DEF DEFAULT_PRESET, PRESETS, preset_types
<1>2. PICK ts : ts = preset_types[DEFAULT_PRESET]
  OBVIOUS
<1>3. default = [normalizer |-> FALSE, root |-> FALSE, types |-> ts]
  BY <1>2 DEF default
<1>4. TypesOK(ts)
  BY <1>1, <1>2, PresetsOK
<1>5. QED
  BY ONLY <1>1, <1>2, <1>3, <1>4 DEF ConfigOK

(* Setting the alias of the inner table.                                   *)
LEMMA AliasIs ==
  ASSUME NEW ts, TypesOK(ts), NEW v, NEW z, z = set_alias(ts, "ImplTable", v)
  PROVE  /\ DOMAIN z = DOMAIN ts
         /\ \A name \in Plain : z[name] = ts[name]
         /\ z.aliases = <<[name |-> "ImplTable", rhs |-> v]>>
<1>1. PICK entry : entry = [name |-> "ImplTable", rhs |-> v]
  OBVIOUS
<1>2. PICK at : at = {i \in DOMAIN ts.aliases : ts.aliases[i].name = "ImplTable"}
  OBVIOUS
<1>3. PICK old : old = ts.aliases
  OBVIOUS
<1>4. PICK new : new = IF at = {} THEN Append(old, entry)
                       ELSE [i \in DOMAIN old |-> IF i \in at THEN entry ELSE old[i]]
  OBVIOUS
<1>5. z = [ts EXCEPT !.aliases = new]
  BY <1>1, <1>2, <1>3, <1>4 DEF set_alias
<1>6. "aliases" \in DOMAIN ts /\ Plain \subseteq DOMAIN ts /\ "aliases" \notin Plain
  BY PlainIs DEF TypesOK
<1>7. new = <<entry>>
  <2>1. CASE old = <<>>
    <3>1. at = {}
      BY <1>2, <1>3, <2>1
    <3>2. QED
      BY ONLY <1>4, <2>1, <3>1
  <2>2. ASSUME NEW r, old = <<[name |-> "ImplTable", rhs |-> r]>> PROVE new = <<entry>>
    <3>1. DOMAIN old = {1} /\ old[1].name = "ImplTable"
      BY ONLY <2>2
    <3>2. at = {1}
      BY ONLY <1>2, <1>3, <3>1
    <3>3. new = [i \in {1} |-> entry]
      BY ONLY <1>4, <3>1, <3>2
    <3>4. QED
      BY ONLY <3>3
  <2>3. QED
    BY <1>3, <2>1, <2>2 DEF TypesOK
<1>8. QED
  BY ONLY <1>1, <1>5, <1>6, <1>7

(* What an argument changes.                                               *)
Overrides(a, ts, z) ==
  \A name \in TypeArguments :
    Setting(z, name) = IF a.name = name THEN Given(a)
                       ELSE IF a.name = "preset" THEN Setting(preset_types[a.value], name)
                       ELSE Setting(ts, name)

LEMMA OverrideIs ==
  ASSUME NEW c, ConfigOK(c), NEW a, Parses(a), NEW d, d = Override(c, a)
  PROVE  ConfigOK(d) /\ Overrides(a, c.types, d.types)
<1>1. PICK ts : ts = c.types
  OBVIOUS
<1>2. "types" \in DOMAIN c /\ TypesOK(ts) /\ {"normalizer", "root", "types"} \subseteq DOMAIN c
  BY <1>1 DEF ConfigOK
<1>3. a.name \in Flags \/ a.name = "table_type" \/ a.name = "preset" \/ a.name \in Plain
  BY DEF Parses, StringArguments, Plain
<1>4. Flags = {"normalizer", "root"}
  BY DEF Flags
<1>5. TypeArguments = Plain \cup {"table_type"} /\ "table_type" \notin Plain
      /\ "preset" \notin TypeArguments /\ Flags \cap TypeArguments = {}
      /\ "aliases" \notin Plain
  BY DEF Plain, TypeArguments, Flags
<1>6. CASE a.name \in Flags
  <2>1. d = [c EXCEPT ![a.name] = TRUE]
    BY <1>4, <1>6 DEF Override
  <2>2. a.name # "types"
    BY <1>4, <1>6
  <2>3. DOMAIN d = DOMAIN c /\ d.types = ts
    BY ONLY <1>1, <1>2, <2>1, <2>2
  <2>4. a.name # "preset" /\ \A name \in TypeArguments : a.name # name
    BY <1>4, <1>5, <1>6
  <2>5. QED
    BY ONLY <1>1, <1>2, <2>3, <2>4 DEF ConfigOK, Overrides
<1>7. CASE a.name = "table_type"
  <2>1. PICK z : z = set_alias(ts, "ImplTable", a.value)
    OBVIOUS
  <2>2. d = [c EXCEPT !.types = z]
    BY <1>1, <1>4, <1>7, <2>1 DEF Override
  <2>3. DOMAIN d = DOMAIN c /\ d.types = z
    BY ONLY <1>2, <2>2
  <2>4. /\ DOMAIN z = DOMAIN ts /\ \A name \in Plain : z[name] = ts[name]
        /\ z.aliases = <<[name |-> "ImplTable", rhs |-> a.value]>>
    BY <1>2, <2>1, AliasIs
  <2>5. TypesOK(z)
    BY ONLY <1>2, <2>4 DEF TypesOK
  <2>6. Overrides(a, ts, z)
    BY ONLY <1>5, <1>7, <2>4 DEF Overrides, Setting, Given
  <2>7. QED
    BY ONLY <1>1, <1>2, <2>3, <2>5, <2>6 DEF ConfigOK
<1>8. CASE a.name = "preset"
  <2>1. PICK z : z = preset_types[a.value]
    OBVIOUS
  <2>2. d = [c EXCEPT !.types = z]
    BY <1>4, <1>8, <2>1 DEF Override, Selected
  <2>3. DOMAIN d = DOMAIN c /\ d.types = z
    BY ONLY <1>2, <2>2
  <2>4. TypesOK(z)
    BY <1>8, <2>1, PresetsOK DEF Parses
  <2>5. Overrides(a, ts, z)
    BY ONLY <1>5, <1>8, <2>1 DEF Overrides
  <2>6. QED
    BY ONLY <1>1, <1>2, <2>3, <2>4, <2>5 DEF ConfigOK
<1>9. CASE a.name \in Plain
  <2>1. a.name # "preset" /\ a.name # "table_type" /\ a.name \notin Flags
    BY <1>5, <1>9
  <2>2. PICK z : z = [ts EXCEPT ![a.name] = a.value]
    OBVIOUS
  <2>3. d = [c EXCEPT !.types = z]
    BY <1>1, <2>1, <2>2 DEF Override
  <2>4. DOMAIN d = DOMAIN c /\ d.types = z
    BY ONLY <1>2, <2>3
  <2>5. Plain \subseteq DOMAIN ts /\ "aliases" \in DOMAIN ts
    BY ONLY <1>2 DEF TypesOK
  <2>6. /\ DOMAIN z = DOMAIN ts /\ z.aliases = ts.aliases
        /\ \A name \in Plain : z[name] = IF name = a.name THEN a.value ELSE ts[name]
    BY ONLY <1>5, <1>9, <2>2, <2>5
  <2>7. TypesOK(z)
    BY ONLY <1>2, <2>6 DEF TypesOK
  <2>8. Overrides(a, ts, z)
    BY ONLY <1>5, <1>9, <2>1, <2>6 DEF Overrides, Setting, Given
  <2>9. QED
    BY ONLY <1>1, <1>2, <2>4, <2>7, <2>8 DEF ConfigOK
<1>10. QED
  BY <1>3, <1>6, <1>7, <1>8, <1>9

(* j is the last of the first k arguments with a name, 0 if none has it.   *)
LastOf(args, k, name, j) ==
  /\ j \in 0 .. k /\ (j = 0 \/ args[j].name = name)
  /\ \A i \in 1 .. k : i > j => args[i].name # name

PresetAt(args, p) ==
  preset_types[IF p = 0 THEN DEFAULT_PRESET ELSE args[p].value]

(* After k arguments each type is the last one set after the last preset.  *)
SetBy(args, k, ts) ==
  \A name \in TypeArguments, p \in 0 .. k, j \in 0 .. k :
    LastOf(args, k, "preset", p) /\ LastOf(args, k, name, j)
      => Setting(ts, name) = IF j > p THEN Given(args[j]) ELSE Setting(PresetAt(args, p), name)

LEMMA LastBefore ==
  ASSUME NEW args, NEW k \in Nat, k # 0, NEW name, NEW j, LastOf(args, k, name, j), args[k].name # name
  PROVE  j \in 0 .. k - 1 /\ LastOf(args, k - 1, name, j)
<1>1. j \in 0 .. k /\ j # k
  BY DEF LastOf
<1>2. j \in 0 .. k - 1
  BY ONLY <1>1, k \in Nat
<1>3. \A i \in 1 .. k - 1 : i \in 1 .. k
  OBVIOUS
<1>4. QED
  BY <1>2, <1>3 DEF LastOf

LEMMA LastIsHere ==
  ASSUME NEW args, NEW k \in Nat, k # 0, NEW name, NEW j, LastOf(args, k, name, j), args[k].name = name
  PROVE  j = k
<1>1. j \in 0 .. k /\ \A i \in 1 .. k : i > j => args[i].name # name
  BY DEF LastOf
<1>2. ~(k > j)
  BY ONLY <1>1, k \in Nat, k # 0, args[k].name = name
<1>3. QED
  BY ONLY <1>1, <1>2, k \in Nat

LEMMA SetByStep ==
  ASSUME NEW args, NEW k \in Nat, k # 0, NEW ts, NEW z,
         SetBy(args, k - 1, ts), Overrides(args[k], ts, z)
  PROVE  SetBy(args, k, z)
<1> SUFFICES ASSUME NEW name \in TypeArguments, NEW p \in 0 .. k, NEW j \in 0 .. k,
                    LastOf(args, k, "preset", p), LastOf(args, k, name, j)
             PROVE  Setting(z, name) = IF j > p THEN Given(args[j]) ELSE Setting(PresetAt(args, p), name)
  BY Zenon DEF SetBy
<1>1. name # "preset"
  BY DEF TypeArguments
<1>2. Setting(z, name) = IF args[k].name = name THEN Given(args[k])
                         ELSE IF args[k].name = "preset" THEN Setting(preset_types[args[k].value], name)
                         ELSE Setting(ts, name)
  BY DEF Overrides
<1>3. CASE args[k].name = name
  <2>1. j = k
    BY <1>3, LastIsHere
  <2>2. p \in 0 .. k - 1
    BY <1>1, <1>3, LastBefore
  <2>3. j > p
    BY ONLY <2>1, <2>2, k \in Nat
  <2>4. QED
    BY ONLY <1>2, <1>3, <2>1, <2>3
<1>4. CASE args[k].name = "preset"
  <2>1. p = k
    BY <1>4, LastIsHere
  <2>2. ~(j > p) /\ p # 0
    BY <2>1
  <2>3. PresetAt(args, p) = preset_types[args[k].value]
    BY ONLY <2>1, <2>2 DEF PresetAt
  <2>4. QED
    BY ONLY <1>1, <1>2, <1>4, <2>2, <2>3
<1>5. CASE args[k].name # name /\ args[k].name # "preset"
  <2>1. /\ p \in 0 .. k - 1 /\ LastOf(args, k - 1, "preset", p)
        /\ j \in 0 .. k - 1 /\ LastOf(args, k - 1, name, j)
    BY <1>5, LastBefore
  <2>2. Setting(ts, name) = IF j > p THEN Given(args[j]) ELSE Setting(PresetAt(args, p), name)
    BY <2>1, Zenon DEF SetBy
  <2>3. QED
    BY ONLY <1>2, <1>5, <2>2
<1>6. QED
  BY <1>3, <1>4, <1>5

LEMMA SelectedTypes ==
  ASSUME NEW n \in Nat, NEW args, DOMAIN args = 1 .. n, ParsesAll(args)
  PROVE  SetBy(args, n, From(args).types)
<1>1. PICK c : Successive(args, n, c) /\ From(args) = c[n]
  BY ConfigSteps
<1> DEFINE P(k) == ConfigOK(c[k]) /\ SetBy(args, k, c[k].types)
           T == {k \in 0 .. n : ~P(k)}
<1>2. ASSUME NEW k \in T, \A j \in T : k <= j PROVE FALSE
  <2>0. k \in 0 .. n /\ ~P(k)
    OBVIOUS
  <2>1. CASE k = 0
    <3>1. c[k] = default
      BY <1>1, <2>1 DEF Successive
    <3>2. ConfigOK(c[k]) /\ c[k].types = PresetAt(args, 0)
      BY <3>1, DefaultIs DEF PresetAt
    <3>3. SetBy(args, k, c[k].types)
      BY ONLY <2>1, <3>2 DEF SetBy
    <3>4. QED
      BY <2>0, <3>2, <3>3
  <2>2. CASE k # 0
    <3>1. k \in Nat /\ k \in 1 .. n /\ k - 1 \in 0 .. n /\ k - 1 < k
      BY <2>0, <2>2
    <3>2. P(k - 1)
      <4> HIDE DEF P
      <4>1. k - 1 \notin T
        BY <1>2, <3>1
      <4>2. QED
        BY <3>1, <4>1
    <3>3. c[k] = Override(c[k - 1], args[k])
      BY <1>1, <3>1 DEF Successive
    <3>4. Parses(args[k])
      BY <3>1 DEF ParsesAll
    <3>5. PICK a, d, e : a = args[k] /\ d = c[k - 1] /\ e = c[k]
      OBVIOUS
    <3>6. ConfigOK(e) /\ Overrides(a, d.types, e.types)
      BY <3>2, <3>3, <3>4, <3>5, OverrideIs
    <3>7. SetBy(args, k, e.types)
      BY <2>2, <3>1, <3>2, <3>5, <3>6, SetByStep
    <3>8. QED
      BY <2>0, <3>5, <3>6, <3>7
  <2>3. QED
    BY <2>1, <2>2
<1>3. T = {}
  <2>1. T \in SUBSET Nat
    OBVIOUS
  <2> HIDE DEF T
  <2>2. QED
    BY <1>2, <2>1, Least
<1>4. P(n)
  <2> HIDE DEF P
  <2>1. n \in 0 .. n
    OBVIOUS
  <2>2. QED
    BY <1>3, <2>1
<1>5. QED
  BY <1>1, <1>4

(* The last argument with a name, as the property finds it.                *)
LEMMA LastIs ==
  ASSUME NEW n \in Nat, NEW args, DOMAIN args = 1 .. n, NEW name, NEW j,
         j = Max({0} \cup {i \in DOMAIN args : args[i].name = name})
  PROVE  LastOf(args, n, name, j)
<1>1. PICK s : s = {0} \cup {i \in DOMAIN args : args[i].name = name}
  OBVIOUS
<1>2. s \in SUBSET (0 .. n) /\ s # {}
  BY <1>1
<1>3. j \in s /\ \A y \in s : j >= y
  BY <1>1, <1>2, MaxIs
<1>4. j \in 0 .. n /\ (j = 0 \/ args[j].name = name)
  BY <1>1, <1>2, <1>3
<1>5. ASSUME NEW i \in 1 .. n, i > j PROVE args[i].name # name
  <2>1. i \notin s
    BY <1>3, <1>4, <1>5
  <2>2. QED
    BY <1>1, <2>1
<1>6. QED
  BY ONLY <1>4, <1>5 DEF LastOf

(* A build selects what its arguments do, and so does an expansion.        *)
InOrder(args) == args \in Seq(Range(args))
BuildConfigured(b) ==
  InOrder(b.args) /\ ParsesAll(b.args) /\ b.selects = From(b.args).types
Configured ==
  /\ pc = "items" => InOrder(attr) /\ ParsesAll(attr) /\ config = From(attr)
  /\ \A b \in builds : BuildConfigured(b)

LEMMA ConfiguredInv ==
  ASSUME Configured, [ExpandNext]_expand_vars
  PROVE  Configured'
<1>1. ASSUME NEW input \in Inputs, Begin(input[1], input[2]) PROVE Configured'
  <2>1. InOrder(input[1])
    BY ExpandAssumption DEF InOrder, Range
  <2>2. QED
    BY <1>1, <2>1 DEF Begin, Configured
<1>2. ASSUME Fails PROVE Configured'
  BY <1>2 DEF Fails, Configured
<1>3. CASE PassThrough
  BY <1>3 DEF PassThrough, Configured
<1>4. CASE ExpandItem
  BY <1>4 DEF ExpandItem, Configured
<1>5. CASE ExpandEnd
  <2>1. PICK b : /\ b.args = attr /\ b.selects = config.types
                 /\ builds' = builds \cup {b}
    BY <1>5 DEF ExpandEnd
  <2>2. BuildConfigured(b)
    BY <1>5, <2>1 DEF ExpandEnd, Configured, BuildConfigured
  <2>3. pc' = "idle"
    BY <1>5 DEF ExpandEnd
  <2>4. QED
    BY <2>1, <2>2, <2>3 DEF Configured, BuildConfigured
<1>6. CASE UNCHANGED expand_vars
  BY <1>6 DEF expand_vars, Configured, BuildConfigured
<1>7. QED
  BY <1>1, <1>2, <1>3, <1>4, <1>5, <1>6
     DEF ExpandNext, Rejected, ItemFails, EndFails

LEMMA BuildExact ==
  ASSUME Configured PROVE ConfigExact
<1> SUFFICES ASSUME NEW b \in builds
             PROVE  LET last(name) == Max({0} \cup {i \in DOMAIN b.args : b.args[i].name = name})
                        preset == IF last("preset") = 0 THEN DEFAULT_PRESET
                                  ELSE b.args[last("preset")].value
                        overridden(name) == last(name) > last("preset")
                    IN  /\ \A name \in TypeArguments \ {"table_type"} :
                              b.selects[name] = IF overridden(name) THEN b.args[last(name)].value
                                                ELSE preset_types[preset][name]
                        /\ b.selects.aliases =
                              IF overridden("table_type")
                              THEN <<[name |-> "ImplTable", rhs |-> b.args[last("table_type")].value]>>
                              ELSE preset_types[preset].aliases
  BY DEF ConfigExact
<1>1. PICK args, ts, n : args = b.args /\ ts = b.selects /\ n = Len(args)
  OBVIOUS
<1>2. InOrder(args) /\ ParsesAll(args) /\ ts = From(args).types
  BY <1>1 DEF Configured, BuildConfigured
<1>3. n \in Nat /\ DOMAIN args = 1 .. n
  BY <1>1, <1>2 DEF InOrder
<1>4. SetBy(args, n, ts)
  BY <1>2, <1>3, SelectedTypes
<1> DEFINE last(name) == Max({0} \cup {i \in DOMAIN args : args[i].name = name})
<1>5. \A name : LastOf(args, n, name, last(name))
  BY <1>3, LastIs
<1> HIDE DEF last
<1>6. PICK p : p = last("preset")
  OBVIOUS
<1>7. LastOf(args, n, "preset", p) /\ p \in 0 .. n
  BY <1>5, <1>6 DEF LastOf
<1>8. ASSUME NEW name \in TypeArguments
      PROVE  Setting(ts, name) = IF last(name) > p THEN Given(args[last(name)])
                                 ELSE Setting(PresetAt(args, p), name)
  <2>1. LastOf(args, n, name, last(name)) /\ last(name) \in 0 .. n
    BY <1>5 DEF LastOf
  <2>2. QED
    BY ONLY <1>4, <1>7, <2>1, name \in TypeArguments DEF SetBy
<1>9. ASSUME NEW name \in TypeArguments, last(name) > p
      PROVE  args[last(name)].name = name
  <2>1. LastOf(args, n, name, last(name)) /\ p >= 0
    BY <1>5, <1>7
  <2>2. last(name) # 0
    BY <1>7, <1>9
  <2>3. QED
    BY ONLY <2>1, <2>2 DEF LastOf
<1>10. ASSUME NEW name \in TypeArguments \ {"table_type"}
       PROVE  ts[name] = IF last(name) > p THEN args[last(name)].value ELSE PresetAt(args, p)[name]
  BY <1>8, <1>9 DEF Setting, Given
<1>11. ts.aliases = IF last("table_type") > p
                    THEN <<[name |-> "ImplTable", rhs |-> args[last("table_type")].value]>>
                    ELSE PresetAt(args, p).aliases
  <2>1. "table_type" \in TypeArguments
    BY DEF TypeArguments
  <2>2. QED
    BY <1>8, <1>9, <2>1 DEF Setting, Given
<1>12. QED
  <2>1. \A name : last(name) = Max({0} \cup {i \in DOMAIN b.args : b.args[i].name = name})
    BY <1>1 DEF last
  <2>2. PresetAt(args, p) = preset_types[IF last("preset") = 0 THEN DEFAULT_PRESET
                                               ELSE b.args[last("preset")].value]
    BY ONLY <1>1, <1>6 DEF PresetAt
  <2>3. \A name \in TypeArguments \ {"table_type"} :
          b.selects[name] = IF last(name) > last("preset") THEN b.args[last(name)].value
                            ELSE PresetAt(args, p)[name]
    BY ONLY <1>1, <1>6, <1>10
  <2>4. b.selects.aliases =
          IF last("table_type") > last("preset")
          THEN <<[name |-> "ImplTable", rhs |-> b.args[last("table_type")].value]>>
          ELSE PresetAt(args, p).aliases
    BY ONLY <1>1, <1>6, <1>11
  <2>5. QED
    BY ONLY <2>1, <2>2, <2>3, <2>4

(* The types a build uses are the last ones set after the last preset, or  *)
(* that preset's, for any list of arguments that parses.                   *)
THEOREM ConfigIsExact == ExpandSpec => []ConfigExact
<1>1. ExpandInit => Configured
  BY DEF ExpandInit, Configured
<1>2. Configured /\ [ExpandNext]_expand_vars => Configured'
  BY ConfiguredInv
<1>3. Configured => ConfigExact
  BY BuildExact
<1>4. QED
  BY <1>1, <1>2, <1>3, PTL DEF ExpandSpec
=============================================================================
