---------------------------- MODULE RefTlcProofs ----------------------------
(***************************************************************************)
(* Proofs about RefTlc for any number of threads, objects and handles and  *)
(* any flush thresholds: its counters are exact, no handle or deferred     *)
(* decrement refers to what is gone, buffers are bounded, and it           *)
(* implements the contract of Reference.                                   *)
(*                                                                         *)
(* None of these is inductive on its own: that the counter is exact after  *)
(* a value was destroyed rests on there being one thread, at one place of  *)
(* its agenda, that will release the weak count (AgendaOnce), which in     *)
(* turn rests on a counter at zero staying there (LifeOK).                 *)
(***************************************************************************)
EXTENDS RefTlc, FiniteSetTheorems, SequenceTheorems, TLAPS

(* The counters and the life of one object.                                *)
Exact(o) ==
  memory[o] \notin {"unborn", "freed"} =>
    /\ strong[o] = Cardinality(strongs[o]) + Deferred(o)
    /\ weak[o] = Cardinality(weaks[o])
                   + (IF strong[o] > 0 \/ Waits("destroy", o) \/ Waits("release", o)
                      THEN 1 ELSE 0)

Valid(o) ==
  /\ strongs[o] # {} \/ Deferred(o) > 0 => memory[o] = "live"
  /\ weaks[o] # {} \/ Waits("release", o) \/ Waits("free", o) => memory[o] \in {"live", "dropped"}
  /\ Waits("destroy", o) => memory[o] = "live"

LifeOK(o) ==
  /\ memory[o] = "live" => strong[o] > 0 \/ Waits("destroy", o)
  /\ memory[o] = "dropped" => strong[o] = 0
  /\ Waits("destroy", o) \/ Waits("release", o) => strong[o] = 0
  /\ memory[o] = "live" /\ Waits("release", o) => Waits("destroy", o)
  /\ Waits("free", o) => weak[o] = 0 /\ memory[o] = "dropped"

ObjectOK(o) == Exact(o) /\ Valid(o) /\ LifeOK(o)

(* What is left of a destruction is in one place.                          *)
Final == {"destroy", "release", "free"}
AgendaOnce ==
  \A t, u \in Threads : \A i \in 1 .. Len(agenda[t]), j \in 1 .. Len(agenda[u]) :
    agenda[t][i][1] \in Final /\ agenda[t][i] = agenda[u][j] => t = u /\ i = j

(* Only the first task of a thread may be other than to apply or release,  *)
(* and the weak count is released right after the data was destroyed.      *)
AgendaOK ==
  \A t \in Threads :
    /\ \A i \in 2 .. Len(agenda[t]) : agenda[t][i][1] \in {"apply", "release"}
    /\ \A o \in Objects :
         Len(agenda[t]) > 0 /\ agenda[t][1] = <<"destroy", o>> =>
           Len(agenda[t]) > 1 /\ agenda[t][2] = <<"release", o>>

BufferOK ==
  \A t \in Threads :
    /\ Sum(map[t]) <= ops_since_flush[t]
    /\ Cardinality(Entries(map[t])) < FLUSH_ENTRIES

UpgradeOK ==
  \A t \in Threads :
    upgrade[t] # NoUpgrade => upgrade[t][2] \in weaks[upgrade[t][1]] /\ upgrade[t][3] > 0

IInv ==
  /\ TypeOK
  /\ \A o \in Objects : ObjectOK(o)
  /\ AgendaOnce
  /\ AgendaOK
  /\ BufferOK
  /\ UpgradeOK
-----------------------------------------------------------------------------
(***************************************************************************)
(* Sums.                                                                   *)
(***************************************************************************)
LEMMA SumNat ==
  ASSUME NEW S, IsFiniteSet(S), NEW f \in [S -> Nat]
  PROVE  IsFiniteSet(Units(f)) /\ Sum(f) \in Nat
<1> DEFINE Rows == {{x} \X (1 .. f[x]) : x \in DOMAIN f}
           row == [x \in S |-> {x} \X (1 .. f[x])]
<1>1. IsFiniteSet(Rows)
  <2>1. row \in Surjection(S, Rows)
    BY DEF Surjection
  <2>2. QED
    BY <2>1, FS_Surjection
<1>2. ASSUME NEW R \in Rows PROVE IsFiniteSet(R)
  <2>1. PICK x \in S : R = {x} \X (1 .. f[x])
    OBVIOUS
  <2>2. IsFiniteSet({x})
    BY FS_Singleton
  <2>4. IsFiniteSet(1 .. f[x])
    <3>1. f[x] \in Int
      BY <2>1
    <3>2. QED
      BY <3>1, FS_Interval
  <2>3. QED
    BY <2>1, <2>2, <2>4, FS_Product
<1>3. IsFiniteSet(Units(f))
  BY <1>1, <1>2, FS_UNION DEF Units
<1>4. QED
  BY <1>3, FS_CardinalityType DEF Sum

LEMMA RowSize ==
  ASSUME NEW x, NEW n \in Nat
  PROVE  IsFiniteSet({x} \X (1 .. n)) /\ Cardinality({x} \X (1 .. n)) = n
<1>1. IsFiniteSet({x}) /\ Cardinality({x}) = 1
  BY FS_Singleton
<1>2. IsFiniteSet(1 .. n) /\ Cardinality(1 .. n) = n
  BY FS_Interval
<1>3. /\ IsFiniteSet({x} \X (1 .. n))
      /\ Cardinality({x} \X (1 .. n)) = Cardinality({x}) * Cardinality(1 .. n)
  <2>1. PICK A, B : A = {x} /\ B = 1 .. n
    OBVIOUS
  <2>2. IsFiniteSet(A) /\ IsFiniteSet(B)
    BY ONLY <1>1, <1>2, <2>1
  <2>3. IsFiniteSet(A \X B) /\ Cardinality(A \X B) = Cardinality(A) * Cardinality(B)
    BY ONLY <2>2, FS_Product, Zenon
  <2>4. QED
    BY ONLY <2>1, <2>3, Zenon
<1>4. Cardinality({x} \X (1 .. n)) = 1 * n
  BY ONLY <1>1, <1>2, <1>3, Zenon
<1>5. QED
  BY ONLY n \in Nat, <1>3, <1>4

LEMMA DisjointSize ==
  ASSUME NEW A, NEW B, IsFiniteSet(A), IsFiniteSet(B), A \cap B = {}
  PROVE  Cardinality(A \cup B) = Cardinality(A) + Cardinality(B)
<1>1. /\ Cardinality(A \cup B) = Cardinality(A) + Cardinality(B) - Cardinality(A \cap B)
      /\ Cardinality(A \cap B) = 0
      /\ Cardinality(A) \in Nat /\ Cardinality(B) \in Nat
  BY FS_Union, FS_EmptySet, FS_CardinalityType
<1>2. QED
  BY <1>1

LEMMA SumSplit ==
  ASSUME NEW S, IsFiniteSet(S), NEW f \in [S -> Nat], NEW x \in S
  PROVE  Sum(f) = f[x] + Sum([f EXCEPT ![x] = 0])
<1> DEFINE g == [f EXCEPT ![x] = 0]
           Row == {x} \X (1 .. f[x])
<1>1. g \in [S -> Nat]
  OBVIOUS
<1>2. Units(f) = Row \cup Units(g)
  <2>1. ASSUME NEW p \in Units(f) PROVE p \in Row \cup Units(g)
    <3>1. PICK y \in S : p \in {y} \X (1 .. f[y])
      BY DEF Units
    <3>2. CASE y = x
      BY <3>1, <3>2
    <3>3. CASE y # x
      BY <3>1, <3>3 DEF Units
    <3>4. QED
      BY <3>2, <3>3
  <2>2. ASSUME NEW p \in Row PROVE p \in Units(f)
    BY DEF Units
  <2>3. ASSUME NEW p \in Units(g) PROVE p \in Units(f)
    <3>1. PICK y \in S : p \in {y} \X (1 .. g[y])
      BY DEF Units
    <3>2. y # x /\ g[y] = f[y]
      BY <3>1
    <3>3. QED
      BY <3>1, <3>2 DEF Units
  <2>4. QED
    BY <2>1, <2>2, <2>3
<1>3. Row \cap Units(g) = {}
  <2> SUFFICES ASSUME NEW p \in Row, p \in Units(g) PROVE FALSE
    OBVIOUS
  <2>1. PICK y \in S : p \in {y} \X (1 .. g[y])
    BY DEF Units
  <2>2. QED
    BY <2>1
<1>4. IsFiniteSet(Row) /\ Cardinality(Row) = f[x]
  BY RowSize
<1>5. IsFiniteSet(Units(g))
  BY <1>1, SumNat
<1>6. QED
  BY <1>2, <1>3, <1>4, <1>5, DisjointSize DEF Sum

(* Two summands that differ at x only.                                     *)
LEMMA SumUpdate ==
  ASSUME NEW S, IsFiniteSet(S), NEW f \in [S -> Nat], NEW g \in [S -> Nat], NEW x \in S,
         \A y \in S : y # x => g[y] = f[y]
  PROVE  /\ Sum(f) \in Nat /\ Sum(g) \in Nat
         /\ Sum(g) + f[x] = Sum(f) + g[x]
         /\ f[x] <= Sum(f)
<1>1. [f EXCEPT ![x] = 0] = [g EXCEPT ![x] = 0] /\ [f EXCEPT ![x] = 0] \in [S -> Nat]
  OBVIOUS
<1>2. Sum(f) = f[x] + Sum([f EXCEPT ![x] = 0]) /\ Sum(g) = g[x] + Sum([g EXCEPT ![x] = 0])
  BY SumSplit
<1>3. Sum([f EXCEPT ![x] = 0]) \in Nat
  BY <1>1, SumNat
<1>4. QED
  BY <1>1, <1>2, <1>3, SumNat

LEMMA SumZero ==
  ASSUME NEW S, NEW f \in [S -> Nat], \A x \in S : f[x] = 0
  PROVE  Sum(f) = 0
<1>1. Units(f) = {}
  BY DEF Units
<1>2. QED
  BY <1>1, FS_EmptySet DEF Sum

(* The sum over two functions on intervals that are put end to end.        *)
LEMMA SumConcat ==
  ASSUME NEW m \in Nat, NEW n \in Nat,
         NEW f \in [1 .. m -> Nat], NEW g \in [1 .. n -> Nat], NEW e \in [1 .. m + n -> Nat],
         \A i \in 1 .. m + n : e[i] = IF i <= m THEN f[i] ELSE g[i - m]
  PROVE  Sum(e) = Sum(f) + Sum(g)
<1> DEFINE Shifted == {<<p[1] + m, p[2]>> : p \in Units(g)}
           shift == [p \in Units(g) |-> <<p[1] + m, p[2]>>]
<1>1. /\ IsFiniteSet(1 .. m) /\ IsFiniteSet(1 .. n)
  BY FS_Interval
<1>2. IsFiniteSet(Units(f)) /\ IsFiniteSet(Units(g))
  BY <1>1, SumNat
<1>3. ASSUME NEW p \in Units(g)
      PROVE  /\ p = <<p[1], p[2]>> /\ p[1] \in 1 .. n /\ p[2] \in 1 .. g[p[1]]
  <2>1. PICK i \in 1 .. n : p \in {i} \X (1 .. g[i])
    BY DEF Units
  <2>2. QED
    BY <2>1
<1>4. shift \in Bijection(Units(g), Shifted)
  <2>1. \A p \in Units(g) : shift[p] \in Shifted
    BY <1>3
  <2>2. \A q \in Shifted : \E p \in Units(g) : shift[p] = q
    BY <1>3
  <2>3. ASSUME NEW p \in Units(g), NEW q \in Units(g), shift[p] = shift[q]
        PROVE  p = q
    <3>1. p[1] + m = q[1] + m /\ p[2] = q[2]
      BY <2>3
    <3>2. p[1] = q[1]
      BY <3>1, <1>3
    <3>3. QED
      BY <3>1, <3>2, <1>3
  <2>4. shift \in [Units(g) -> Shifted]
    BY <2>1
  <2>5. shift \in Injection(Units(g), Shifted)
    BY <2>3, <2>4 DEF Injection, IsInjective
  <2>6. shift \in Surjection(Units(g), Shifted)
    BY <2>2, <2>4 DEF Surjection
  <2>7. QED
    BY <2>5, <2>6 DEF Bijection
<1>5. IsFiniteSet(Shifted) /\ Cardinality(Shifted) = Cardinality(Units(g))
  BY <1>2, <1>4, FS_Bijection DEF ExistsBijection
<1>6. Units(e) = Units(f) \cup Shifted
  <2>1. ASSUME NEW p \in Units(e) PROVE p \in Units(f) \cup Shifted
    <3>1. PICK i \in 1 .. m + n : p \in {i} \X (1 .. e[i])
      BY DEF Units
    <3>2. CASE i <= m
      BY <3>1, <3>2 DEF Units
    <3>3. CASE i > m
      <4>1. i - m \in 1 .. n /\ (i - m) + m = i /\ e[i] = g[i - m]
        BY <3>3
      <4>2. p = <<i, p[2]>> /\ p[2] \in 1 .. g[i - m]
        BY <3>1, <4>1
      <4>3. <<i - m, p[2]>> \in Units(g)
        BY <4>1, <4>2 DEF Units
      <4>4. <<(i - m) + m, p[2]>> \in Shifted
        BY <4>3
      <4>5. QED
        BY <4>1, <4>2, <4>4
    <3>4. QED
      BY <3>2, <3>3
  <2>2. ASSUME NEW p \in Units(f) PROVE p \in Units(e)
    <3>1. PICK i \in 1 .. m : p \in {i} \X (1 .. f[i])
      BY DEF Units
    <3>2. i \in 1 .. m + n /\ e[i] = f[i]
      OBVIOUS
    <3>3. QED
      BY <3>1, <3>2 DEF Units
  <2>3. ASSUME NEW p \in Shifted PROVE p \in Units(e)
    <3>1. PICK q \in Units(g) : p = <<q[1] + m, q[2]>>
      OBVIOUS
    <3>2. q[1] \in 1 .. n /\ q[2] \in 1 .. g[q[1]]
      BY <1>3
    <3>3. q[1] + m \in 1 .. m + n /\ ~(q[1] + m <= m) /\ (q[1] + m) - m = q[1]
      BY <3>2
    <3>4. e[q[1] + m] = g[q[1]]
      BY <3>3
    <3>5. QED
      BY <3>1, <3>2, <3>3, <3>4 DEF Units
  <2>4. QED
    BY <2>1, <2>2, <2>3
<1>7. Units(f) \cap Shifted = {}
  <2> SUFFICES ASSUME NEW p \in Units(f), p \in Shifted PROVE FALSE
    OBVIOUS
  <2>1. PICK i \in 1 .. m : p \in {i} \X (1 .. f[i])
    BY DEF Units
  <2>2. PICK q \in Units(g) : p = <<q[1] + m, q[2]>>
    OBVIOUS
  <2>3. QED
    BY <2>1, <2>2, <1>3
<1>8. QED
  BY <1>2, <1>5, <1>6, <1>7, DisjointSize DEF Sum
-----------------------------------------------------------------------------
(***************************************************************************)
(* What the tasks of a thread have still to apply.                         *)
(***************************************************************************)
LEMMA AppliesNat ==
  ASSUME NEW a \in Tasks, NEW o \in Objects
  PROVE  Applies(a, o) \in Nat
BY DEF Tasks, Applies

LEMMA AppliedNat ==
  ASSUME NEW s \in Seq(Tasks), NEW o \in Objects
  PROVE  Applied(s, o) \in Nat
<1> DEFINE f == [i \in DOMAIN s |-> Applies(s[i], o)]
<1>1. DOMAIN s = 1 .. Len(s) /\ Len(s) \in Nat /\ \A i \in DOMAIN s : s[i] \in Tasks
  OBVIOUS
<1>2. f \in [DOMAIN s -> Nat]
  BY <1>1, AppliesNat
<1>3. IsFiniteSet(DOMAIN s)
  BY <1>1, FS_Interval
<1>4. QED
  BY <1>2, <1>3, SumNat DEF Applied

LEMMA AppliedConcat ==
  ASSUME NEW r \in Seq(Tasks), NEW s \in Seq(Tasks), NEW o \in Objects
  PROVE  Applied(r \o s, o) = Applied(r, o) + Applied(s, o)
<1> DEFINE f == [i \in DOMAIN r |-> Applies(r[i], o)]
           g == [i \in DOMAIN s |-> Applies(s[i], o)]
           e == [i \in DOMAIN (r \o s) |-> Applies((r \o s)[i], o)]
<1>1. /\ Len(r) \in Nat /\ DOMAIN r = 1 .. Len(r)
      /\ Len(s) \in Nat /\ DOMAIN s = 1 .. Len(s)
      /\ r \o s \in Seq(Tasks)
      /\ DOMAIN (r \o s) = 1 .. Len(r) + Len(s)
      /\ \A i \in 1 .. Len(r) + Len(s) :
            (r \o s)[i] = IF i <= Len(r) THEN r[i] ELSE s[i - Len(r)]
  BY ConcatProperties, LenProperties
<1>2. /\ f \in [1 .. Len(r) -> Nat] /\ g \in [1 .. Len(s) -> Nat]
      /\ e \in [1 .. Len(r) + Len(s) -> Nat]
  <2>1. /\ \A i \in 1 .. Len(r) : r[i] \in Tasks
        /\ \A i \in 1 .. Len(s) : s[i] \in Tasks
        /\ \A i \in 1 .. Len(r) + Len(s) : (r \o s)[i] \in Tasks
    BY <1>1
  <2>2. QED
    BY <1>1, <2>1, AppliesNat
<1>3. \A i \in 1 .. Len(r) + Len(s) : e[i] = IF i <= Len(r) THEN f[i] ELSE g[i - Len(r)]
  BY <1>1
<1>4. Sum(e) = Sum(f) + Sum(g)
  <2> HIDE DEF e, f, g
  <2>1. QED
    BY <1>1, <1>2, <1>3, SumConcat
<1>5. QED
  BY <1>4 DEF Applied

LEMMA AppliedFew ==
  ASSUME NEW o \in Objects
  PROVE  /\ Applied(<<>>, o) = 0
         /\ \A a \in Tasks : Applied(<<a>>, o) = Applies(a, o)
<1>1. Applied(<<>>, o) = 0
  <2> DEFINE f == [i \in DOMAIN <<>> |-> Applies(<<>>[i], o)]
  <2>1. f \in [{} -> Nat] /\ \A x \in {} : f[x] = 0
    OBVIOUS
  <2>2. Sum(f) = 0
    BY <2>1, SumZero
  <2>3. QED
    BY <2>2 DEF Applied
<1>2. ASSUME NEW a \in Tasks
      PROVE  Applied(<<a>>, o) = Applies(a, o)
  <2> DEFINE f == [i \in DOMAIN <<a>> |-> Applies(<<a>>[i], o)]
             z == [f EXCEPT ![1] = 0]
  <2>1. DOMAIN <<a>> = {1} /\ f \in [{1} -> Nat] /\ f[1] = Applies(a, o)
    BY AppliesNat
  <2>2. Sum(f) = f[1] + Sum(z)
    <3> HIDE DEF f
    <3>1. IsFiniteSet({1})
      BY FS_Singleton
    <3>2. QED
      BY <2>1, <3>1, SumSplit
  <2>3. Sum(z) = 0
    <3>1. z \in [{1} -> Nat] /\ \A x \in {1} : z[x] = 0
      BY <2>1
    <3>2. QED
      BY <3>1, SumZero
  <2>4. QED
    BY <2>1, <2>2, <2>3, AppliesNat DEF Applied
<1>3. QED
  BY <1>1, <1>2

LEMMA ApplyTask ==
  ASSUME NEW f \in [Objects -> Nat]
  PROVE  /\ Apply(f) \in Seq(Tasks)
         /\ \A i \in 1 .. Len(Apply(f)) : i = 1 /\ Apply(f)[i] = <<"apply", f>>
         /\ \A o \in Objects : Applied(Apply(f), o) = f[o]
<1>1. <<"apply", f>> \in Tasks /\ \A o \in Objects : Applies(<<"apply", f>>, o) = f[o]
  BY DEF Tasks, Applies
<1>2. CASE Entries(f) = {}
  <2>1. Apply(f) = <<>> /\ \A o \in Objects : f[o] = 0
    BY <1>2 DEF Apply, Entries
  <2>2. QED
    BY <2>1, AppliedFew
<1>3. CASE Entries(f) # {}
  <2>1. Apply(f) = << <<"apply", f>> >>
    BY <1>3 DEF Apply
  <2>2. QED
    BY <1>1, <2>1, AppliedFew
<1>4. QED
  BY <1>2, <1>3

LEMMA DeferredNat ==
  ASSUME TypeOK, NEW o \in Objects
  PROVE  /\ Deferred(o) \in Nat
         /\ \A t \in Threads : ToApply(t, o) \in Nat /\ ToApply(t, o) <= Deferred(o)
         /\ \A t \in Threads : map[t][o] \in Nat /\ map[t][o] <= ToApply(t, o)
<1> DEFINE f == [t \in Threads |-> ToApply(t, o)]
<1>1. ASSUME NEW t \in Threads
      PROVE  ToApply(t, o) \in Nat /\ map[t][o] \in Nat /\ map[t][o] <= ToApply(t, o)
  <2>1. agenda[t] \in Seq(Tasks) /\ map[t][o] \in Nat
    BY DEF TypeOK
  <2>2. Applied(agenda[t], o) \in Nat
    BY <2>1, AppliedNat
  <2>3. QED
    BY <2>1, <2>2 DEF ToApply
<1>2. f \in [Threads -> Nat] /\ \A t \in Threads : f[t] = ToApply(t, o)
  BY <1>1
<1>3. Sum(f) \in Nat /\ \A t \in Threads : f[t] <= Sum(f)
  <2> HIDE DEF f
  <2>1. Sum(f) \in Nat
    BY <1>2, SumNat, TlcAssumption
  <2>2. ASSUME NEW t \in Threads PROVE f[t] <= Sum(f)
    BY <1>2, SumUpdate, TlcAssumption
  <2>3. QED
    BY <2>1, <2>2
<1>4. Deferred(o) = Sum(f)
  BY DEF Deferred
<1>5. QED
  BY <1>1, <1>2, <1>3, <1>4

(* A step of t that changes what t alone has deferred.                     *)
LEMMA DeferredStep ==
  ASSUME TypeOK, TypeOK', NEW t \in Threads, NEW o \in Objects,
         \A u \in Threads : u # t => map'[u] = map[u] /\ agenda'[u] = agenda[u]
  PROVE  /\ Deferred(o) \in Nat /\ Deferred(o)' \in Nat
         /\ ToApply(t, o) \in Nat /\ ToApply(t, o)' \in Nat
         /\ ToApply(t, o) <= Deferred(o)
         /\ Deferred(o)' + ToApply(t, o) = Deferred(o) + ToApply(t, o)'
<1> DEFINE f == [u \in Threads |-> ToApply(u, o)]
           g == [u \in Threads |-> ToApply(u, o)']
<1>1. ASSUME NEW u \in Threads
      PROVE  ToApply(u, o) \in Nat /\ ToApply(u, o)' \in Nat
  <2>1. /\ agenda[u] \in Seq(Tasks) /\ agenda'[u] \in Seq(Tasks)
        /\ map[u][o] \in Nat /\ map'[u][o] \in Nat
    BY DEF TypeOK
  <2>2. QED
    BY <2>1, AppliedNat DEF ToApply
<1>2. \A u \in Threads : u # t => ToApply(u, o)' = ToApply(u, o)
  BY DEF ToApply
<1>3. /\ f \in [Threads -> Nat] /\ g \in [Threads -> Nat]
      /\ f[t] = ToApply(t, o) /\ g[t] = ToApply(t, o)'
      /\ \A u \in Threads : u # t => g[u] = f[u]
  BY <1>1, <1>2
<1>4. Deferred(o) = Sum(f) /\ Deferred(o)' = Sum(g)
  BY DEF Deferred
<1>5. /\ Sum(f) \in Nat /\ Sum(g) \in Nat
      /\ Sum(g) + f[t] = Sum(f) + g[t]
      /\ f[t] <= Sum(f)
  <2> HIDE DEF f, g
  <2>1. QED
    BY <1>3, SumUpdate, TlcAssumption
<1>6. QED
  BY <1>1, <1>3, <1>4, <1>5
-----------------------------------------------------------------------------
(***************************************************************************)
(* Agendas.  A step of t puts the tasks r in the place of the tasks p at   *)
(* the head of its agenda.                                                 *)
(***************************************************************************)
Begins(t, p, q) ==
  /\ p \in Seq(Tasks) /\ q \in Seq(Tasks)
  /\ agenda[t] = p \o q
  /\ p # <<>> \/ q = <<>>

Turns(t, p, r, q) ==
  /\ Begins(t, p, q)
  /\ r \in Seq(Tasks)
  /\ agenda' = [agenda EXCEPT ![t] = r \o q]

In(a, s) == \E i \in 1 .. Len(s) : s[i] = a

LEMMA InConcat ==
  ASSUME NEW r \in Seq(Tasks), NEW s \in Seq(Tasks), NEW a
  PROVE  In(a, r \o s) <=> In(a, r) \/ In(a, s)
<1>1. /\ Len(r) \in Nat /\ Len(s) \in Nat /\ Len(r \o s) = Len(r) + Len(s)
      /\ \A i \in 1 .. Len(r) + Len(s) :
            (r \o s)[i] = IF i <= Len(r) THEN r[i] ELSE s[i - Len(r)]
  BY ConcatProperties, LenProperties
<1>2. ASSUME In(a, r \o s) PROVE In(a, r) \/ In(a, s)
  <2>1. PICK i \in 1 .. Len(r) + Len(s) : (r \o s)[i] = a
    BY <1>1, <1>2 DEF In
  <2>2. CASE i <= Len(r)
    BY <1>1, <2>1, <2>2 DEF In
  <2>3. CASE i > Len(r)
    <3>1. i - Len(r) \in 1 .. Len(s) /\ s[i - Len(r)] = a
      BY <1>1, <2>1, <2>3
    <3>2. QED
      BY <3>1 DEF In
  <2>4. QED
    BY <1>1, <2>2, <2>3
<1>3. ASSUME In(a, r) PROVE In(a, r \o s)
  BY <1>1, <1>3 DEF In
<1>4. ASSUME In(a, s) PROVE In(a, r \o s)
  <2>1. PICK i \in 1 .. Len(s) : s[i] = a
    BY <1>4 DEF In
  <2>2. /\ i + Len(r) \in 1 .. Len(r) + Len(s)
        /\ ~(i + Len(r) <= Len(r)) /\ (i + Len(r)) - Len(r) = i
    BY <1>1
  <2>3. (r \o s)[i + Len(r)] = a
    BY <1>1, <2>1, <2>2
  <2>4. QED
    BY <1>1, <2>2, <2>3 DEF In
<1>5. QED
  BY <1>2, <1>3, <1>4

LEMMA InSet ==
  ASSUME NEW s \in Seq(Tasks), NEW a
  PROVE  a \in ToSet(s) <=> In(a, s)
BY DEF In, ToSet

LEMMA WaitsIn ==
  ASSUME agenda \in [Threads -> Seq(Tasks)], NEW kind, NEW o
  PROVE  Waits(kind, o) <=> \E t \in Threads : In(<<kind, o>>, agenda[t])
BY InSet DEF Waits

(* The agendas as sequences.                                               *)
LEMMA TurnFacts ==
  ASSUME TypeOK, NEW t \in Threads, NEW p, NEW r, NEW q, Turns(t, p, r, q)
  PROVE  /\ agenda \in [Threads -> Seq(Tasks)] /\ agenda' \in [Threads -> Seq(Tasks)]
         /\ Len(p) \in Nat /\ Len(r) \in Nat /\ Len(q) \in Nat
         /\ Len(agenda[t]) = Len(p) + Len(q) /\ Len(agenda'[t]) = Len(r) + Len(q)
         /\ \A u \in Threads : u # t => agenda'[u] = agenda[u]
         /\ \A i \in 1 .. Len(r) : agenda'[t][i] = r[i]
         /\ \A i \in 1 .. Len(agenda'[t]) : i > Len(r) =>
              /\ i - Len(r) + Len(p) \in 1 .. Len(agenda[t])
              /\ agenda'[t][i] = agenda[t][i - Len(r) + Len(p)]
              /\ p # <<>> => i - Len(r) + Len(p) > 1
         /\ Len(p) = 0 => Len(q) = 0
         /\ \A o \in Objects :
              /\ Applied(agenda[t], o) = Applied(p, o) + Applied(q, o)
              /\ Applied(agenda'[t], o) = Applied(r, o) + Applied(q, o)
              /\ Applied(p, o) \in Nat /\ Applied(r, o) \in Nat /\ Applied(q, o) \in Nat
<1>1. /\ p \in Seq(Tasks) /\ r \in Seq(Tasks) /\ q \in Seq(Tasks)
      /\ agenda[t] = p \o q
      /\ agenda' = [agenda EXCEPT ![t] = r \o q]
      /\ p # <<>> \/ q = <<>>
      /\ agenda \in [Threads -> Seq(Tasks)]
  BY DEF Turns, Begins, TypeOK
<1>2. /\ Len(p) \in Nat /\ Len(r) \in Nat /\ Len(q) \in Nat
      /\ p \o q \in Seq(Tasks) /\ r \o q \in Seq(Tasks)
      /\ Len(p \o q) = Len(p) + Len(q) /\ Len(r \o q) = Len(r) + Len(q)
      /\ \A i \in 1 .. Len(p) + Len(q) :
            (p \o q)[i] = IF i <= Len(p) THEN p[i] ELSE q[i - Len(p)]
      /\ \A i \in 1 .. Len(r) + Len(q) :
            (r \o q)[i] = IF i <= Len(r) THEN r[i] ELSE q[i - Len(r)]
  BY <1>1, ConcatProperties, LenProperties
<1>3. /\ agenda' \in [Threads -> Seq(Tasks)]
      /\ agenda'[t] = r \o q
      /\ \A u \in Threads : u # t => agenda'[u] = agenda[u]
  BY <1>1, <1>2
<1>4. /\ p # <<>> => Len(p) > 0
      /\ Len(p) = 0 => Len(q) = 0
  BY <1>1, EmptySeq
<1>5. ASSUME NEW i \in 1 .. Len(r) + Len(q), i > Len(r)
      PROVE  /\ i - Len(r) + Len(p) \in 1 .. Len(p) + Len(q)
             /\ (r \o q)[i] = (p \o q)[i - Len(r) + Len(p)]
             /\ p # <<>> => i - Len(r) + Len(p) > 1
  <2>1. /\ i - Len(r) + Len(p) \in 1 .. Len(p) + Len(q)
        /\ ~(i - Len(r) + Len(p) <= Len(p))
        /\ (i - Len(r) + Len(p)) - Len(p) = i - Len(r)
        /\ p # <<>> => i - Len(r) + Len(p) > 1
    BY <1>2, <1>4, <1>5
  <2>2. (p \o q)[i - Len(r) + Len(p)] = q[i - Len(r)]
    BY <1>2, <2>1
  <2>3. (r \o q)[i] = q[i - Len(r)]
    BY <1>2, <1>5
  <2>4. QED
    BY <2>1, <2>2, <2>3
<1>6. \A o \in Objects :
        /\ Applied(p \o q, o) = Applied(p, o) + Applied(q, o)
        /\ Applied(r \o q, o) = Applied(r, o) + Applied(q, o)
        /\ Applied(p, o) \in Nat /\ Applied(r, o) \in Nat /\ Applied(q, o) \in Nat
  BY <1>1, AppliedConcat, AppliedNat
<1>7. \A i \in 1 .. Len(r) : (r \o q)[i] = r[i]
  BY <1>2
<1>8. QED
  BY <1>1, <1>2, <1>3, <1>4, <1>5, <1>6, <1>7

(* Which tasks wait.                                                       *)
LEMMA TurnWaits ==
  ASSUME TypeOK, NEW t \in Threads, NEW p, NEW r, NEW q, Turns(t, p, r, q),
         NEW kind, NEW o
  PROVE  /\ In(<<kind, o>>, p) => Waits(kind, o)
         /\ In(<<kind, o>>, r) => Waits(kind, o)'
         /\ ~In(<<kind, o>>, p) /\ ~In(<<kind, o>>, r) => (Waits(kind, o)' <=> Waits(kind, o))
<1> DEFINE a == <<kind, o>>
<1>1. /\ p \in Seq(Tasks) /\ r \in Seq(Tasks) /\ q \in Seq(Tasks)
      /\ agenda[t] = p \o q /\ agenda'[t] = r \o q
      /\ \A u \in Threads : u # t => agenda'[u] = agenda[u]
      /\ agenda \in [Threads -> Seq(Tasks)] /\ agenda' \in [Threads -> Seq(Tasks)]
  BY TurnFacts DEF Turns, Begins, TypeOK
<1>2. /\ In(a, agenda[t]) <=> In(a, p) \/ In(a, q)
      /\ In(a, agenda'[t]) <=> In(a, r) \/ In(a, q)
  BY <1>1, InConcat
<1>3. Waits(kind, o) <=> \E u \in Threads : In(a, agenda[u])
  BY <1>1, WaitsIn
<1>4. Waits(kind, o)' <=> \E u \in Threads : In(a, agenda'[u])
  BY <1>1, InSet DEF Waits
<1>5. \A u \in Threads : u # t => (In(a, agenda'[u]) <=> In(a, agenda[u]))
  BY <1>1
<1>6. QED
  BY <1>2, <1>3, <1>4, <1>5

(* Tasks that must not wait twice.                                         *)
LEMMA TurnOnce ==
  ASSUME TypeOK, AgendaOnce, NEW t \in Threads, NEW p, NEW r, NEW q, Turns(t, p, r, q),
         \A kind \in Final, o \in Objects : In(<<kind, o>>, r) => ~Waits(kind, o),
         \A i, j \in 1 .. Len(r) : r[i] = r[j] => i = j
  PROVE  /\ AgendaOnce'
         /\ \A kind \in Final, o \in Objects :
              In(<<kind, o>>, p) /\ ~In(<<kind, o>>, r) => ~Waits(kind, o)'
<1>1. /\ agenda \in [Threads -> Seq(Tasks)] /\ agenda' \in [Threads -> Seq(Tasks)]
      /\ p \in Seq(Tasks) /\ r \in Seq(Tasks) /\ q \in Seq(Tasks)
  BY TurnFacts DEF Turns, Begins
<1>2. /\ Len(p) \in Nat /\ Len(r) \in Nat /\ Len(q) \in Nat
      /\ Len(agenda[t]) = Len(p) + Len(q) /\ Len(agenda'[t]) = Len(r) + Len(q)
      /\ \A u \in Threads : u # t => agenda'[u] = agenda[u]
      /\ \A i \in 1 .. Len(r) : agenda'[t][i] = r[i]
      /\ \A i \in 1 .. Len(agenda'[t]) : i > Len(r) =>
           /\ i - Len(r) + Len(p) \in 1 .. Len(agenda[t])
           /\ agenda'[t][i] = agenda[t][i - Len(r) + Len(p)]
  BY TurnFacts
<1>3. \A i \in 1 .. Len(p) : i \in 1 .. Len(agenda[t]) /\ agenda[t][i] = p[i]
  <2>1. Len(p) \in Nat /\ Len(q) \in Nat /\ \A i \in 1 .. Len(p) + Len(q) : i <= Len(p) => (p \o q)[i] = p[i]
    BY <1>1, <1>2, ConcatProperties
  <2>2. QED
    BY <1>2, <2>1 DEF Turns, Begins
<1>4. ASSUME NEW kind \in Final, NEW o \in Objects, NEW u \in Threads, NEW i \in 1 .. Len(agenda'[u]),
             agenda'[u][i] = <<kind, o>>
      PROVE  \/ u = t /\ i <= Len(r) /\ i \in 1 .. Len(r) /\ r[i] = <<kind, o>>
             \/ u = t /\ i > Len(r) /\ ~In(<<kind, o>>, r)
             \/ u # t /\ i \in 1 .. Len(agenda[u]) /\ agenda[u][i] = <<kind, o>> /\ ~In(<<kind, o>>, r)
  <2>1. CASE u = t /\ i <= Len(r)
    BY <1>2, <1>4, <2>1
  <2>2. CASE u = t /\ i > Len(r)
    <3>1. In(<<kind, o>>, agenda[t])
      BY <1>2, <1>4, <2>2 DEF In
    <3>2. Waits(kind, o)
      BY <1>1, <3>1, WaitsIn
    <3>3. QED
      BY <2>2, <3>2
  <2>3. CASE u # t
    <3>1. i \in 1 .. Len(agenda[u]) /\ agenda[u][i] = <<kind, o>>
      BY <1>2, <1>4, <2>3
    <3>2. Waits(kind, o)
      BY <1>1, <3>1, WaitsIn DEF In
    <3>3. QED
      BY <2>3, <3>1, <3>2
  <2>4. QED
    BY <1>2, <2>1, <2>2, <2>3
<1>5. AgendaOnce'
  <2> SUFFICES ASSUME NEW u \in Threads, NEW v \in Threads,
                      NEW i \in 1 .. Len(agenda'[u]), NEW j \in 1 .. Len(agenda'[v]),
                      agenda'[u][i][1] \in Final, agenda'[u][i] = agenda'[v][j]
               PROVE  u = v /\ i = j
    BY DEF AgendaOnce
  <2>0. PICK kind \in Final, o \in Objects : agenda'[u][i] = <<kind, o>>
    <3>1. agenda'[u][i] \in Tasks
      BY <1>1
    <3>2. QED
      BY <3>1 DEF Tasks, Final
  <2>1. CASE In(<<kind, o>>, r)
    <3>1. u = t /\ i \in 1 .. Len(r) /\ r[i] = <<kind, o>>
      BY <1>4, <2>0, <2>1
    <3>2. v = t /\ j \in 1 .. Len(r) /\ r[j] = <<kind, o>>
      BY <1>4, <2>0, <2>1
    <3>3. QED
      BY <3>1, <3>2
  <2>2. CASE ~In(<<kind, o>>, r)
    <3>1. (u = t => i > Len(r)) /\ (v = t => j > Len(r))
      <4>1. \A k \in 1 .. Len(r) : r[k] # <<kind, o>>
        BY <2>2 DEF In
      <4>2. agenda'[v][j] = <<kind, o>>
        BY <2>0
      <4>3. ASSUME u = t, ~(i > Len(r)) PROVE FALSE
        <5>1. i \in 1 .. Len(r)
          BY ONLY <1>2, <4>3, i \in 1 .. Len(agenda'[u])
        <5>2. r[i] = <<kind, o>>
          BY ONLY <1>2, <2>0, <4>3, <5>1
        <5>3. QED
          BY ONLY <4>1, <5>1, <5>2
      <4>4. ASSUME v = t, ~(j > Len(r)) PROVE FALSE
        <5>1. j \in 1 .. Len(r)
          BY ONLY <1>2, <4>4, j \in 1 .. Len(agenda'[v])
        <5>2. r[j] = <<kind, o>>
          BY ONLY <1>2, <4>2, <4>4, <5>1
        <5>3. QED
          BY ONLY <4>1, <5>1, <5>2
      <4>5. QED
        BY <4>3, <4>4
    <3>2. PICK k \in 1 .. Len(agenda[u]) :
            agenda[u][k] = <<kind, o>> /\ k = IF u = t THEN i - Len(r) + Len(p) ELSE i
      BY <1>2, <2>0, <3>1
    <3>3. PICK l \in 1 .. Len(agenda[v]) :
            agenda[v][l] = <<kind, o>> /\ l = IF v = t THEN j - Len(r) + Len(p) ELSE j
      BY <1>2, <2>0, <3>1
    <3>4. u = v /\ k = l
      <4>1. agenda[u][k][1] \in Final /\ agenda[u][k] = agenda[v][l]
        BY <3>2, <3>3
      <4>2. QED
        BY <4>1 DEF AgendaOnce
    <3>5. i \in Nat /\ j \in Nat
      BY <1>2
    <3>6. QED
      BY <1>2, <3>2, <3>3, <3>4, <3>5
  <2>3. QED
    BY <2>1, <2>2
<1>6. ASSUME NEW kind \in Final, NEW o \in Objects, In(<<kind, o>>, p), ~In(<<kind, o>>, r), Waits(kind, o)'
      PROVE  FALSE
  <2>1. PICK k \in 1 .. Len(p) : p[k] = <<kind, o>>
    BY <1>6 DEF In
  <2>2. k \in 1 .. Len(agenda[t]) /\ agenda[t][k] = <<kind, o>> /\ k <= Len(p)
    BY <1>3, <2>1
  <2>3. PICK u \in Threads : In(<<kind, o>>, agenda'[u])
    BY <1>1, <1>6, InSet DEF Waits
  <2>4. PICK i \in 1 .. Len(agenda'[u]) : agenda'[u][i] = <<kind, o>>
    BY <2>3 DEF In
  <2>5. CASE u = t
    <3>1. i > Len(r)
      BY <1>2, <1>4, <1>6, <2>4, <2>5 DEF In
    <3>2. i \in 1 .. Len(agenda'[t]) /\ agenda'[t][i] = <<kind, o>> /\ i \in Nat
      BY <1>2, <2>4, <2>5
    <3>3. /\ i - Len(r) + Len(p) \in 1 .. Len(agenda[t])
          /\ agenda[t][i - Len(r) + Len(p)] = <<kind, o>>
      BY <1>2, <3>1, <3>2
    <3>4. i - Len(r) + Len(p) = k
      <4>1. agenda[t][k][1] \in Final /\ agenda[t][k] = agenda[t][i - Len(r) + Len(p)]
        BY <2>2, <3>3
      <4>2. QED
        BY <2>2, <3>3, <4>1 DEF AgendaOnce
    <3>5. QED
      BY <1>2, <2>2, <3>1, <3>2, <3>4
  <2>6. CASE u # t
    <3>1. i \in 1 .. Len(agenda[u]) /\ agenda[u][i] = <<kind, o>>
      BY <1>2, <2>4, <2>6
    <3>2. QED
      BY <2>2, <2>6, <3>1 DEF AgendaOnce
  <2>7. QED
    BY <2>5, <2>6
<1>7. QED
  BY <1>5, <1>6

(* Destructions at the head only.                                          *)
LEMMA TurnOrder ==
  ASSUME TypeOK, AgendaOK, NEW t \in Threads, NEW p, NEW r, NEW q, Turns(t, p, r, q),
         \A i \in 2 .. Len(r) : r[i][1] \in {"apply", "release"},
         \A o \in Objects : Len(r) > 0 /\ r[1] = <<"destroy", o>> => Len(r) > 1 /\ r[2] = <<"release", o>>
  PROVE  AgendaOK'
<1>1. /\ Len(p) \in Nat /\ Len(r) \in Nat /\ Len(q) \in Nat
      /\ Len(agenda[t]) = Len(p) + Len(q) /\ Len(agenda'[t]) = Len(r) + Len(q)
      /\ \A u \in Threads : u # t => agenda'[u] = agenda[u]
      /\ \A i \in 1 .. Len(r) : agenda'[t][i] = r[i]
      /\ \A i \in 1 .. Len(agenda'[t]) : i > Len(r) =>
           /\ i - Len(r) + Len(p) \in 1 .. Len(agenda[t])
           /\ agenda'[t][i] = agenda[t][i - Len(r) + Len(p)]
           /\ p # <<>> => i - Len(r) + Len(p) > 1
      /\ Len(p) = 0 => Len(q) = 0
  BY TurnFacts
<1>0. p = <<>> => q = <<>>
  BY DEF Turns, Begins
<1>2. ASSUME NEW i \in 1 .. Len(agenda'[t]), i > Len(r)
      PROVE  agenda'[t][i][1] \in {"apply", "release"}
  <2>1. p # <<>>
    BY <1>0, <1>1, <1>2, EmptySeq
  <2>2. i - Len(r) + Len(p) \in 2 .. Len(agenda[t])
    BY <1>1, <1>2, <2>1
  <2>3. QED
    BY <1>1, <1>2, <2>2 DEF AgendaOK
<1>3. \A i \in 2 .. Len(agenda'[t]) : agenda'[t][i][1] \in {"apply", "release"}
  BY <1>1, <1>2
<1>4. ASSUME NEW o \in Objects, Len(agenda'[t]) > 0, agenda'[t][1] = <<"destroy", o>>
      PROVE  Len(agenda'[t]) > 1 /\ agenda'[t][2] = <<"release", o>>
  <2>1. /\ Len(r) \in Nat /\ Len(q) \in Nat /\ Len(agenda'[t]) = Len(r) + Len(q)
        /\ \A i \in 1 .. Len(r) : agenda'[t][i] = r[i]
    BY <1>1
  <2>2. ASSUME ~(1 <= Len(r)) PROVE FALSE
    <3>1. 1 \in 1 .. Len(agenda'[t]) /\ 1 > Len(r)
      BY ONLY <1>4, <2>1, <2>2
    <3>2. agenda'[t][1][1] \in {"apply", "release"}
      BY ONLY <1>2, <3>1
    <3>3. agenda'[t][1][1] = "destroy"
      BY ONLY <1>4
    <3>4. QED
      BY ONLY <3>2, <3>3
  <2>3. r[1] = <<"destroy", o>>
    BY ONLY <1>4, <2>1, <2>2
  <2>4. Len(r) > 1 /\ r[2] = <<"release", o>>
    BY <2>1, <2>2, <2>3
  <2>5. QED
    BY ONLY <2>1, <2>4
<1>5. ASSUME NEW u \in Threads, u # t
      PROVE  /\ \A i \in 2 .. Len(agenda'[u]) : agenda'[u][i][1] \in {"apply", "release"}
             /\ \A o \in Objects :
                  Len(agenda'[u]) > 0 /\ agenda'[u][1] = <<"destroy", o>> =>
                    Len(agenda'[u]) > 1 /\ agenda'[u][2] = <<"release", o>>
  <2>1. agenda'[u] = agenda[u]
    BY <1>1, <1>5
  <2>2. /\ \A i \in 2 .. Len(agenda[u]) : agenda[u][i][1] \in {"apply", "release"}
        /\ \A o \in Objects :
             Len(agenda[u]) > 0 /\ agenda[u][1] = <<"destroy", o>> =>
               Len(agenda[u]) > 1 /\ agenda[u][2] = <<"release", o>>
    BY DEF AgendaOK
  <2>3. QED
    BY ONLY <2>1, <2>2
<1>6. QED
  BY <1>3, <1>4, <1>5 DEF AgendaOK
-----------------------------------------------------------------------------
(***************************************************************************)
(* Objects.                                                                *)
(***************************************************************************)
LEMMA HandleCount ==
  ASSUME NEW S \in SUBSET Handles
  PROVE  /\ Cardinality(S) \in Nat
         /\ Cardinality(S) = 0 <=> S = {}
         /\ \A h \in S : Cardinality(S \ {h}) = Cardinality(S) - 1
         /\ \A h \in Handles \ S : Cardinality(S \cup {h}) = Cardinality(S) + 1
<1>1. IsFiniteSet(S)
  BY TlcAssumption, FS_Subset
<1>2. QED
  BY <1>1, FS_CardinalityType, FS_EmptySet, FS_RemoveElement, FS_AddElement

LEMMA Counts ==
  ASSUME IInv, NEW o \in Objects
  PROVE  /\ strong[o] \in Nat /\ weak[o] \in Nat
         /\ strongs[o] \in SUBSET Handles /\ weaks[o] \in SUBSET Handles
         /\ Cardinality(strongs[o]) \in Nat /\ (Cardinality(strongs[o]) = 0 <=> strongs[o] = {})
         /\ Cardinality(weaks[o]) \in Nat /\ (Cardinality(weaks[o]) = 0 <=> weaks[o] = {})
         /\ Deferred(o) \in Nat
         /\ memory[o] \in {"unborn", "live", "dropped", "freed"}
         /\ Exact(o) /\ Valid(o) /\ LifeOK(o)
<1>1. TypeOK /\ ObjectOK(o)
  BY DEF IInv
<1>2. /\ strong[o] \in Nat /\ weak[o] \in Nat
      /\ strongs[o] \in SUBSET Handles /\ weaks[o] \in SUBSET Handles
      /\ memory[o] \in {"unborn", "live", "dropped", "freed"}
  BY <1>1 DEF TypeOK
<1>3. Deferred(o) \in Nat
  BY <1>1, DeferredNat
<1>4. /\ Cardinality(strongs[o]) \in Nat /\ (Cardinality(strongs[o]) = 0 <=> strongs[o] = {})
      /\ Cardinality(weaks[o]) \in Nat /\ (Cardinality(weaks[o]) = 0 <=> weaks[o] = {})
  BY <1>2, HandleCount
<1>5. QED
  BY <1>1, <1>2, <1>3, <1>4 DEF ObjectOK

(* An object that a step does not touch.                                   *)
LEMMA Untouched ==
  ASSUME NEW o \in Objects, ObjectOK(o),
         strong'[o] = strong[o], weak'[o] = weak[o], memory'[o] = memory[o],
         strongs'[o] = strongs[o], weaks'[o] = weaks[o], Deferred(o)' = Deferred(o),
         \A kind \in Final : Waits(kind, o)' <=> Waits(kind, o)
  PROVE  ObjectOK(o)'
<1>1. /\ Waits("destroy", o)' <=> Waits("destroy", o)
      /\ Waits("release", o)' <=> Waits("release", o)
      /\ Waits("free", o)' <=> Waits("free", o)
  BY DEF Final
<1>2. Exact(o)'
  BY <1>1 DEF ObjectOK, Exact
<1>3. Valid(o)'
  BY <1>1 DEF ObjectOK, Valid
<1>4. LifeOK(o)'
  BY <1>1 DEF ObjectOK, LifeOK
<1>5. QED
  BY <1>2, <1>3, <1>4 DEF ObjectOK

(* A step that no task begins, ends or causes.                             *)
LEMMA SameAgenda ==
  ASSUME AgendaOnce, AgendaOK, agenda' = agenda
  PROVE  /\ AgendaOnce' /\ AgendaOK'
         /\ \A kind, o : Waits(kind, o)' <=> Waits(kind, o)
         /\ \A o \in Objects : map' = map => Deferred(o)' = Deferred(o)
BY DEF AgendaOnce, AgendaOK, Waits, Deferred, ToApply

(* A handle that is counted when it is made.                               *)
LEMMA CountedInv ==
  ASSUME IInv, TypeOK', UNCHANGED <<weak, memory, weaks, buffer, agenda>>,
         NEW o \in Objects, NEW h \in Handles, Fresh(h), memory[o] = "live", strong[o] > 0,
         strong' = [strong EXCEPT ![o] = @ + 1],
         strongs' = [strongs EXCEPT ![o] = @ \cup {h}]
  PROVE  \A p \in Objects : ObjectOK(p)'
<1>1. /\ UNCHANGED <<weak, memory, weaks, map, agenda>>
      /\ TypeOK
  BY DEF buffer, IInv
<1>2. /\ \A kind, p : Waits(kind, p)' <=> Waits(kind, p)
      /\ \A p \in Objects : Deferred(p)' = Deferred(p)
  BY <1>1, SameAgenda DEF IInv
<1>3. ObjectOK(o)'
  <2>1. /\ strong'[o] = strong[o] + 1 /\ strongs'[o] = strongs[o] \cup {h}
        /\ weak'[o] = weak[o] /\ memory'[o] = memory[o] /\ weaks'[o] = weaks[o]
    BY <1>1 DEF TypeOK
  <2>2. Cardinality(strongs'[o]) = Cardinality(strongs[o]) + 1 /\ strongs'[o] # {}
    <3>1. strongs[o] \in SUBSET Handles /\ h \in Handles \ strongs[o]
      BY Counts DEF Fresh
    <3>2. QED
      BY <2>1, <3>1, HandleCount
  <2>3. Exact(o)' /\ Valid(o)' /\ LifeOK(o)'
    BY <1>2, <2>1, <2>2, Counts DEF Exact, Valid, LifeOK
  <2>4. QED
    BY <2>3 DEF ObjectOK
<1>4. ASSUME NEW p \in Objects, p # o PROVE ObjectOK(p)'
  <2>1. /\ strong'[p] = strong[p] /\ strongs'[p] = strongs[p]
        /\ weak'[p] = weak[p] /\ memory'[p] = memory[p] /\ weaks'[p] = weaks[p]
    BY <1>1, <1>4 DEF TypeOK
  <2>2. QED
    BY <1>2, <2>1, Untouched DEF IInv
<1>5. QED
  BY <1>3, <1>4

(* A handle that takes a deferred decrement back.                          *)
LEMMA ConsumedInv ==
  ASSUME IInv, TypeOK', UNCHANGED <<strong, weak, memory, weaks, ops_since_flush, agenda>>,
         NEW t \in Threads, NEW o \in Objects, NEW h \in Handles, Fresh(h), Consumable(t, o),
         map' = Consume(t, o),
         strongs' = [strongs EXCEPT ![o] = @ \cup {h}]
  PROVE  /\ \A p \in Objects : ObjectOK(p)'
         /\ memory[o] = "live" /\ strong[o] > 0
         /\ BufferOK'
<1>1. /\ TypeOK
      /\ map[t] \in [Objects -> Nat] /\ map'[t] = [map[t] EXCEPT ![o] = @ - 1] /\ map[t][o] > 0
      /\ \A u \in Threads : u # t => map'[u] = map[u]
      /\ map'[t] \in [Objects -> Nat]
  BY DEF IInv, TypeOK, Consume, Consumable
<1>2. /\ \A kind, p : Waits(kind, p)' <=> Waits(kind, p)
  BY SameAgenda DEF IInv
<1>3. /\ Deferred(o)' = Deferred(o) - 1 /\ Deferred(o) > 0
      /\ \A p \in Objects : p # o => Deferred(p)' = Deferred(p)
  <2>1. \A u \in Threads : u # t => map'[u] = map[u] /\ agenda'[u] = agenda[u]
    BY <1>1
  <2>2. ASSUME NEW p \in Objects
        PROVE  /\ Deferred(p) \in Nat /\ Deferred(p)' \in Nat
               /\ ToApply(t, p) \in Nat /\ ToApply(t, p)' \in Nat
               /\ ToApply(t, p) <= Deferred(p)
               /\ Deferred(p)' + ToApply(t, p) = Deferred(p) + ToApply(t, p)'
    BY <1>1, <2>1, DeferredStep
  <2>3. ASSUME NEW p \in Objects
        PROVE  /\ p # o => ToApply(t, p)' = ToApply(t, p)
               /\ p = o => ToApply(t, p)' = ToApply(t, p) - 1 /\ ToApply(t, p) > 0
    <3>1. Applied(agenda[t], p) \in Nat
      BY AppliedNat DEF IInv, TypeOK
    <3>2. QED
      BY <1>1, <3>1 DEF ToApply
  <2>4. QED
    BY <2>2, <2>3
<1>4. memory[o] = "live" /\ strong[o] > 0
  BY <1>3, Counts DEF Valid, Exact
<1>5. ObjectOK(o)'
  <2>1. /\ strong'[o] = strong[o] /\ strongs'[o] = strongs[o] \cup {h}
        /\ weak'[o] = weak[o] /\ memory'[o] = memory[o] /\ weaks'[o] = weaks[o]
    BY <1>1 DEF TypeOK
  <2>2. Cardinality(strongs'[o]) = Cardinality(strongs[o]) + 1 /\ strongs'[o] # {}
    <3>1. strongs[o] \in SUBSET Handles /\ h \in Handles \ strongs[o]
      BY Counts DEF Fresh
    <3>2. QED
      BY <2>1, <3>1, HandleCount
  <2>3. Exact(o)' /\ Valid(o)' /\ LifeOK(o)'
    BY <1>2, <1>3, <1>4, <2>1, <2>2, Counts DEF Exact, Valid, LifeOK
  <2>4. QED
    BY <2>3 DEF ObjectOK
<1>6. ASSUME NEW p \in Objects, p # o PROVE ObjectOK(p)'
  <2>1. /\ strong'[p] = strong[p] /\ strongs'[p] = strongs[p]
        /\ weak'[p] = weak[p] /\ memory'[p] = memory[p] /\ weaks'[p] = weaks[p]
    BY <1>1, <1>6 DEF TypeOK
  <2>2. QED
    BY <1>2, <1>3, <1>6, <2>1, Untouched DEF IInv
<1>7. BufferOK'
  <2>1. /\ Sum(map[t]) \in Nat /\ Sum(map'[t]) \in Nat
        /\ Sum(map'[t]) + map[t][o] = Sum(map[t]) + map'[t][o]
    BY <1>1, SumUpdate, TlcAssumption
  <2>2. Sum(map'[t]) <= Sum(map[t])
    BY <1>1, <2>1
  <2>3. Cardinality(Entries(map'[t])) <= Cardinality(Entries(map[t]))
    <3>1. Entries(map'[t]) \subseteq Entries(map[t])
      BY <1>1 DEF Entries
    <3>2. IsFiniteSet(Entries(map[t]))
      BY TlcAssumption, FS_Subset DEF Entries
    <3>3. QED
      BY <3>1, <3>2, FS_Subset
  <2>4. /\ Cardinality(Entries(map[t])) \in Nat /\ Cardinality(Entries(map'[t])) \in Nat
    <3>1. IsFiniteSet(Entries(map[t])) /\ IsFiniteSet(Entries(map'[t]))
      BY TlcAssumption, FS_Subset DEF Entries
    <3>2. QED
      BY <3>1, FS_CardinalityType
  <2>5. ops_since_flush'[t] = ops_since_flush[t] /\ ops_since_flush[t] \in Nat
    BY <1>1 DEF TypeOK
  <2>6. Sum(map'[t]) <= ops_since_flush'[t] /\ Cardinality(Entries(map'[t])) < FLUSH_ENTRIES
    BY <2>1, <2>2, <2>3, <2>4, <2>5, TlcAssumption DEF IInv, BufferOK
  <2>7. QED
    BY <1>1, <2>6 DEF IInv, BufferOK
<1>8. QED
  BY <1>4, <1>5, <1>6, <1>7
-----------------------------------------------------------------------------
(***************************************************************************)
(* The steps of the program that leave every agenda as it is.              *)
(***************************************************************************)
LEMMA ReachedLive ==
  ASSUME IInv, NEW o \in Objects, Reached(o)
  PROVE  strongs[o] # {} /\ memory[o] = "live" /\ strong[o] > 0
<1> DEFINE S == {p \in Objects : strongs[p] # {}}
<1>1. Closed(S) /\ \A p \in Objects : OwnedOf(p) # {} => p \in S
  BY DEF Closed, OwnedOf
<1>2. S \in SUBSET Objects
  OBVIOUS
<1>3. strongs[o] # {}
  BY <1>1, <1>2 DEF Reached
<1>4. QED
  BY <1>3, Counts DEF Valid, Exact

LEMMA NewInv ==
  ASSUME IInv, NEW t \in Threads, NEW o \in Objects, NEW h \in Handles,
         NEW c \in Handles \cup {NoHandle}, New(t, o, h, c)
  PROVE  IInv'
<1> USE DEF New, buffer
<1>1. TypeOK'
  BY DEF IInv, TypeOK
<1>2. /\ AgendaOnce' /\ AgendaOK'
      /\ \A kind, p : Waits(kind, p)' <=> Waits(kind, p)
      /\ \A p \in Objects : Deferred(p)' = Deferred(p)
  BY SameAgenda DEF IInv
<1>3. ObjectOK(o)'
  <2>1. /\ strong'[o] = 1 /\ weak'[o] = 1 /\ memory'[o] = "live"
        /\ strongs'[o] = {h} /\ weaks'[o] = weaks[o] /\ memory[o] = "unborn"
    BY DEF IInv, TypeOK
  <2>2. Cardinality({h}) = 1
    BY FS_Singleton
  <2>3. Exact(o)' /\ Valid(o)' /\ LifeOK(o)'
    BY <1>2, <2>1, <2>2, Counts DEF Exact, Valid, LifeOK
  <2>4. QED
    BY <2>3 DEF ObjectOK
<1>4. ASSUME NEW p \in Objects, p # o PROVE ObjectOK(p)'
  <2>1. /\ strong'[p] = strong[p] /\ strongs'[p] = strongs[p]
        /\ weak'[p] = weak[p] /\ memory'[p] = memory[p] /\ weaks'[p] = weaks[p]
    BY <1>4 DEF IInv, TypeOK
  <2>2. QED
    BY <1>2, <2>1, Untouched DEF IInv
<1>5. BufferOK' /\ UpgradeOK'
  BY DEF IInv, BufferOK, UpgradeOK
<1>6. QED
  BY <1>1, <1>2, <1>3, <1>4, <1>5 DEF IInv

LEMMA StrongCloneInv ==
  ASSUME IInv, NEW t \in Threads, NEW o \in Objects, NEW h \in Handles, StrongClone(t, o, h)
  PROVE  IInv'
<1> USE DEF StrongClone
<1>1. memory[o] = "live" /\ strong[o] > 0
  BY ReachedLive
<1>2. TypeOK'
  <2>1. strongs' \in [Objects -> SUBSET Handles]
    BY DEF IInv, TypeOK
  <2>2. CASE Consumable(t, o)
    <3>0. map' = Consume(t, o) /\ strong' = strong
      BY <2>2
    <3>1. map' \in [Threads -> [Objects -> Nat]]
      <4> HIDE DEF StrongClone
      <4>1. QED
        BY <2>2, <3>0 DEF IInv, TypeOK, Consumable, Consume
    <3>2. QED
      BY <2>1, <3>0, <3>1 DEF IInv, TypeOK
  <2>3. CASE ~Consumable(t, o)
    <3>0. map' = map /\ strong' = [strong EXCEPT ![o] = @ + 1]
      BY <2>3
    <3>1. strong' \in [Objects -> Nat]
      <4> HIDE DEF StrongClone
      <4>1. QED
        BY <3>0 DEF IInv, TypeOK
    <3>2. QED
      BY <2>1, <3>0, <3>1 DEF IInv, TypeOK
  <2>4. QED
    BY <2>2, <2>3
<1>3. AgendaOnce' /\ AgendaOK'
  BY SameAgenda DEF IInv
<1>4. UpgradeOK'
  BY DEF IInv, UpgradeOK
<1>5. CASE Consumable(t, o)
  BY <1>2, <1>3, <1>4, <1>5, ConsumedInv DEF IInv
<1>6. CASE ~Consumable(t, o)
  <2>1. \A p \in Objects : ObjectOK(p)'
    BY <1>1, <1>2, <1>6, CountedInv DEF buffer
  <2>2. BufferOK'
    BY <1>6 DEF IInv, BufferOK
  <2>3. QED
    BY <1>2, <1>3, <1>4, <2>1, <2>2 DEF IInv
<1>7. QED
  BY <1>5, <1>6

LEMMA WeakDowngradeInv ==
  ASSUME IInv, NEW t \in Threads, NEW o \in Objects, NEW h \in Handles, WeakDowngrade(t, o, h)
  PROVE  IInv'
<1> USE DEF WeakDowngrade, buffer
<1>0. strongs[o] # {} /\ memory[o] = "live" /\ strong[o] > 0
  BY ReachedLive
<1>1. TypeOK'
  BY DEF IInv, TypeOK
<1>2. /\ AgendaOnce' /\ AgendaOK'
      /\ \A kind, p : Waits(kind, p)' <=> Waits(kind, p)
      /\ \A p \in Objects : Deferred(p)' = Deferred(p)
  BY SameAgenda DEF IInv
<1>3. ObjectOK(o)'
  <2>1. /\ strong'[o] = strong[o] /\ weak'[o] = weak[o] + 1 /\ memory'[o] = memory[o]
        /\ strongs'[o] = strongs[o] /\ weaks'[o] = weaks[o] \cup {h}
    BY DEF IInv, TypeOK
  <2>2. Cardinality(weaks'[o]) = Cardinality(weaks[o]) + 1
    <3>1. weaks[o] \in SUBSET Handles /\ h \in Handles \ weaks[o]
      BY Counts DEF Fresh
    <3>2. QED
      BY <2>1, <3>1, HandleCount
  <2>3. Exact(o)' /\ Valid(o)' /\ LifeOK(o)'
    BY <1>0, <1>2, <2>1, <2>2, Counts DEF Exact, Valid, LifeOK
  <2>4. QED
    BY <2>3 DEF ObjectOK
<1>4. ASSUME NEW p \in Objects, p # o PROVE ObjectOK(p)'
  <2>1. /\ strong'[p] = strong[p] /\ strongs'[p] = strongs[p]
        /\ weak'[p] = weak[p] /\ memory'[p] = memory[p] /\ weaks'[p] = weaks[p]
    BY <1>4 DEF IInv, TypeOK
  <2>2. QED
    BY <1>2, <2>1, Untouched DEF IInv
<1>5. BufferOK'
  BY DEF IInv, BufferOK
<1>6. UpgradeOK'
  BY DEF IInv, TypeOK, UpgradeOK, NoUpgrade
<1>7. QED
  BY <1>1, <1>2, <1>3, <1>4, <1>5, <1>6 DEF IInv

LEMMA UpgradeConsumeInv ==
  ASSUME IInv, NEW t \in Threads, NEW o \in Objects, NEW g \in Handles, NEW h \in Handles,
         UpgradeConsume(t, o, g, h)
  PROVE  IInv'
<1> USE DEF UpgradeConsume
<1>1. TypeOK'
  <2>1. map' \in [Threads -> [Objects -> Nat]]
    BY DEF IInv, TypeOK, Consumable, Consume
  <2>2. strongs' \in [Objects -> SUBSET Handles]
    BY DEF IInv, TypeOK
  <2>3. QED
    BY <2>1, <2>2 DEF IInv, TypeOK
<1>2. AgendaOnce' /\ AgendaOK'
  BY SameAgenda DEF IInv
<1>3. UpgradeOK'
  BY DEF IInv, UpgradeOK
<1>4. QED
  BY <1>1, <1>2, <1>3, ConsumedInv DEF IInv

(* A load of the counter, at the start of an upgrade or again.             *)
LEMMA LoadInv ==
  ASSUME IInv, UNCHANGED <<strong, weak, memory, field, handles, buffer, agenda>>,
         NEW t \in Threads, NEW o \in Objects, NEW g \in Handles, g \in weaks[o],
         upgrade' = [upgrade EXCEPT ![t] = Tries(o, g, strong[o])]
  PROVE  IInv'
<1> USE DEF handles, buffer
<1>1. TypeOK'
  BY DEF IInv, TypeOK, Tries
<1>2. /\ AgendaOnce' /\ AgendaOK'
      /\ \A kind, p : Waits(kind, p)' <=> Waits(kind, p)
      /\ \A p \in Objects : Deferred(p)' = Deferred(p)
  BY SameAgenda DEF IInv
<1>3. ASSUME NEW p \in Objects PROVE ObjectOK(p)'
  BY <1>2, Untouched DEF IInv
<1>4. BufferOK'
  BY DEF IInv, BufferOK
<1>5. UpgradeOK'
  BY DEF IInv, TypeOK, UpgradeOK, Tries, NoUpgrade
<1>6. QED
  BY <1>1, <1>2, <1>3, <1>4, <1>5 DEF IInv

LEMMA UpgradeOf ==
  ASSUME IInv, NEW t \in Threads, upgrade[t] # NoUpgrade
  PROVE  /\ upgrade[t][1] \in Objects /\ upgrade[t][2] \in Handles
         /\ upgrade[t][2] \in weaks[upgrade[t][1]]
         /\ upgrade[t][3] \in Nat /\ upgrade[t][3] > 0
<1>1. upgrade[t] \in Objects \X Handles \X Nat
  BY DEF IInv, TypeOK
<1>2. QED
  BY <1>1 DEF IInv, UpgradeOK

LEMMA UpgradeExchangeInv ==
  ASSUME IInv, NEW t \in Threads, NEW h \in Handles, UpgradeExchange(t, h)
  PROVE  IInv' /\ memory[upgrade[t][1]] = "live"
<1> USE DEF UpgradeExchange
<1> DEFINE o == upgrade[t][1]
<1>1. o \in Objects /\ weaks[o] # {} /\ strong[o] > 0
  BY UpgradeOf
<1>2. memory[o] = "live"
  BY <1>1, Counts DEF Valid, LifeOK
<1>3. strong' = [strong EXCEPT ![o] = @ + 1] /\ strongs' = [strongs EXCEPT ![o] = @ \cup {h}]
  BY DEF IInv, TypeOK
<1>4. TypeOK'
  <2>1. /\ strong' \in [Objects -> Nat] /\ strongs' \in [Objects -> SUBSET Handles]
    BY <1>1, <1>3 DEF IInv, TypeOK
  <2>2. upgrade' \in [Threads -> (Objects \X Handles \X Nat) \cup {NoUpgrade}]
    BY DEF IInv, TypeOK
  <2>3. QED
    BY <2>1, <2>2 DEF IInv, TypeOK, buffer
<1>5. AgendaOnce' /\ AgendaOK'
  BY SameAgenda DEF IInv
<1>6. \A p \in Objects : ObjectOK(p)'
  <2> HIDE DEF o
  <2>1. QED
    BY <1>1, <1>2, <1>3, <1>4, CountedInv
<1>7. BufferOK'
  BY DEF IInv, BufferOK, buffer
<1>8. UpgradeOK'
  BY DEF IInv, TypeOK, UpgradeOK
<1>9. QED
  BY <1>2, <1>4, <1>5, <1>6, <1>7, <1>8 DEF IInv

LEMMA UpgradeRetryInv ==
  ASSUME IInv, NEW t \in Threads, UpgradeRetry(t)
  PROVE  IInv'
<1>1. upgrade' = [upgrade EXCEPT ![t] = Tries(upgrade[t][1], upgrade[t][2], strong[upgrade[t][1]])]
  BY DEF UpgradeRetry
<1>2. UNCHANGED <<strong, weak, memory, field, handles, buffer, agenda>>
  BY DEF UpgradeRetry
<1>3. /\ upgrade[t][1] \in Objects /\ upgrade[t][2] \in Handles
      /\ upgrade[t][2] \in weaks[upgrade[t][1]]
  BY UpgradeOf DEF UpgradeRetry
<1>4. QED
  BY <1>1, <1>2, <1>3, LoadInv
-----------------------------------------------------------------------------
(***************************************************************************)
(* The steps that begin or continue what a thread has to do.               *)
(***************************************************************************)
LEMMA HeadTask ==
  ASSUME TypeOK, NEW t \in Threads, NEW kind, Doing(t, kind)
  PROVE  /\ << <<kind, Subject(t)>> >> \in Seq(Tasks) /\ Tail(agenda[t]) \in Seq(Tasks)
         /\ agenda[t] = << <<kind, Subject(t)>> >> \o Tail(agenda[t])
         /\ agenda[t][1] = <<kind, Subject(t)>> /\ Len(agenda[t]) > 0
         /\ kind = "apply" => Subject(t) \in [Objects -> Nat]
         /\ kind \in Final => Subject(t) \in Objects
         /\ kind = "drop" => Subject(t) \in Handles
<1> DEFINE s == agenda[t]
           a == agenda[t][1]
<1>1. s \in Seq(Tasks) /\ s # <<>> /\ a[1] = kind
  BY DEF TypeOK, Doing
<1>2. Len(s) > 0 /\ a \in Tasks /\ Tail(s) \in Seq(Tasks)
  BY <1>1, EmptySeq, HeadTailProperties
<1>3. a = <<kind, Subject(t)>>
  BY <1>1, <1>2 DEF Tasks, Subject
<1>4. s = <<a>> \o Tail(s)
  BY <1>1, <1>2
<1>5. /\ kind = "apply" => Subject(t) \in [Objects -> Nat]
      /\ kind \in Final => Subject(t) \in Objects
      /\ kind = "drop" => Subject(t) \in Handles
  BY <1>1, <1>2, <1>3 DEF Tasks, Final
<1>6. QED
  BY <1>2, <1>3, <1>4, <1>5

LEMMA InFew ==
  ASSUME NEW a, NEW b, NEW c
  PROVE  /\ ~In(a, <<>>)
         /\ In(a, <<b>>) <=> a = b
         /\ In(a, <<b, c>>) <=> a = b \/ a = c
BY DEF In

(* A step that no task of a destruction is part of.                        *)
LEMMA QuietTurn ==
  ASSUME IInv, NEW t \in Threads, NEW p, NEW r, NEW q, Turns(t, p, r, q),
         \A kind \in Final, o \in Objects : ~In(<<kind, o>>, p),
         \A i \in 1 .. Len(r) : i = 1 /\ r[i][1] = "apply"
  PROVE  /\ AgendaOnce' /\ AgendaOK'
         /\ \A kind \in Final, o \in Objects : Waits(kind, o)' <=> Waits(kind, o)
<1>1. TypeOK /\ AgendaOnce /\ AgendaOK
  BY DEF IInv
<1>2. \A kind \in Final, o \in Objects : ~In(<<kind, o>>, r)
  BY DEF In, Final
<1>3. AgendaOnce'
  BY <1>1, <1>2, TurnOnce
<1>4. AgendaOK'
  <2>1. Len(r) \in Nat
    BY <1>1, TurnFacts
  <2>2. /\ \A i \in 2 .. Len(r) : r[i][1] \in {"apply", "release"}
        /\ \A o \in Objects : Len(r) > 0 => r[1] # <<"destroy", o>>
    BY <2>1
  <2>3. QED
    BY <1>1, <2>2, TurnOrder
<1>5. \A kind \in Final, o \in Objects : Waits(kind, o)' <=> Waits(kind, o)
  BY <1>1, <1>2, TurnWaits
<1>6. QED
  BY <1>3, <1>4, <1>5

(* What t has to apply for each object, before and after.                  *)
LEMMA TurnDeferred ==
  ASSUME TypeOK, TypeOK', NEW t \in Threads, NEW p, NEW r, NEW q, Turns(t, p, r, q),
         \A u \in Threads : u # t => map'[u] = map[u],
         NEW o \in Objects
  PROVE  /\ Deferred(o) \in Nat /\ Deferred(o)' \in Nat
         /\ map[t][o] \in Nat /\ map'[t][o] \in Nat
         /\ Applied(p, o) \in Nat /\ Applied(r, o) \in Nat
         /\ map[t][o] + Applied(p, o) <= Deferred(o)
         /\ Deferred(o)' + map[t][o] + Applied(p, o) = Deferred(o) + map'[t][o] + Applied(r, o)
<1>1. /\ \A u \in Threads : u # t => agenda'[u] = agenda[u]
      /\ Applied(agenda[t], o) = Applied(p, o) + Applied(q, o)
      /\ Applied(agenda'[t], o) = Applied(r, o) + Applied(q, o)
      /\ Applied(p, o) \in Nat /\ Applied(r, o) \in Nat /\ Applied(q, o) \in Nat
  BY TurnFacts
<1>2. /\ Deferred(o) \in Nat /\ Deferred(o)' \in Nat
      /\ ToApply(t, o) <= Deferred(o)
      /\ Deferred(o)' + ToApply(t, o) = Deferred(o) + ToApply(t, o)'
  BY <1>1, DeferredStep
<1>3. map[t][o] \in Nat /\ map'[t][o] \in Nat
  BY DEF TypeOK
<1>4. /\ ToApply(t, o) = map[t][o] + Applied(p, o) + Applied(q, o)
      /\ ToApply(t, o)' = map'[t][o] + Applied(r, o) + Applied(q, o)
  BY <1>1, <1>3 DEF ToApply
<1>5. QED
  BY <1>1, <1>2, <1>3, <1>4

LEMMA NothingFacts ==
  /\ Nothing \in [Objects -> Nat] /\ \A o \in Objects : Nothing[o] = 0
  /\ Sum(Nothing) = 0
  /\ Cardinality(Entries(Nothing)) = 0
<1>1. Nothing \in [Objects -> Nat] /\ \A o \in Objects : Nothing[o] = 0
  BY DEF Nothing
<1>2. Sum(Nothing) = 0
  BY <1>1, SumZero
<1>3. Entries(Nothing) = {}
  BY <1>1 DEF Entries
<1>4. QED
  BY <1>1, <1>2, <1>3, FS_EmptySet

LEMMA DeferOne ==
  ASSUME NEW f \in [Objects -> Nat], NEW o \in Objects
  PROVE  /\ [f EXCEPT ![o] = @ + 1] \in [Objects -> Nat] /\ One(o) \in [Objects -> Nat]
         /\ \A x \in Objects : [f EXCEPT ![o] = @ + 1][x] = f[x] + One(o)[x]
         /\ One(o)[o] = 1 /\ \A x \in Objects : x # o => One(o)[x] = 0
         /\ Sum(f) \in Nat /\ Sum([f EXCEPT ![o] = @ + 1]) = Sum(f) + 1
<1> DEFINE g == [f EXCEPT ![o] = @ + 1]
<1>1. /\ g \in [Objects -> Nat] /\ g[o] = f[o] + 1
      /\ \A x \in Objects : x # o => g[x] = f[x]
  OBVIOUS
<1>2. /\ One(o) \in [Objects -> Nat]
      /\ One(o)[o] = 1 /\ \A x \in Objects : x # o => One(o)[x] = 0
  BY DEF One, Nothing
<1>3. Sum(f) \in Nat /\ Sum(g) = Sum(f) + 1
  <2> HIDE DEF g
  <2>1. /\ Sum(f) \in Nat /\ Sum(g) \in Nat
        /\ Sum(g) + f[o] = Sum(f) + g[o]
    BY <1>1, SumUpdate, TlcAssumption
  <2>2. QED
    BY <1>1, <2>1
<1>4. QED
  BY <1>1, <1>2, <1>3

(* The drop of a strong handle, by the program or by a destructor.         *)
LEMMA DropStrongInv ==
  ASSUME IInv, NEW t \in Threads, NEW o \in Objects, NEW h \in strongs[o],
         NEW p, NEW q, Begins(t, p, q),
         \A x \in Objects : Applied(p, x) = 0,
         \A kind \in Final, x \in Objects : ~In(<<kind, x>>, p),
         DropStrong(t, o, h, q)
  PROVE  IInv'
<1> DEFINE deferred == [map[t] EXCEPT ![o] = @ + 1]
           due == FlushDue(ops_since_flush[t] + 1, Cardinality(Entries(deferred)))
           r == IF local[t] THEN IF due THEN Apply(deferred) ELSE <<>> ELSE Apply(One(o))
<1>1. /\ strongs' = [strongs EXCEPT ![o] = @ \ {h}]
      /\ map' = [map EXCEPT ![t] = IF local[t] THEN IF due THEN Nothing ELSE deferred ELSE map[t]]
      /\ ops_since_flush' = [ops_since_flush EXCEPT ![t] =
                               IF local[t] THEN IF due THEN 0 ELSE ops_since_flush[t] + 1
                               ELSE ops_since_flush[t]]
      /\ agenda' = [agenda EXCEPT ![t] = r \o q]
      /\ UNCHANGED <<strong, weak, memory, field, weaks, local, upgrade>>
  <2>1. TypeOK
    BY DEF IInv
  <2>2. CASE local[t]
    BY <2>1, <2>2 DEF DropStrong, TypeOK
  <2>3. CASE ~local[t]
    BY <2>1, <2>3 DEF DropStrong, TypeOK
  <2>4. QED
    BY <2>2, <2>3
<1>2. /\ TypeOK
      /\ map[t] \in [Objects -> Nat] /\ deferred \in [Objects -> Nat] /\ One(o) \in [Objects -> Nat]
      /\ \A x \in Objects : deferred[x] = map[t][x] + One(o)[x]
      /\ One(o)[o] = 1 /\ \A x \in Objects : x # o => One(o)[x] = 0
      /\ ops_since_flush[t] \in 0 .. FLUSH_OPS - 1
  <2>1. TypeOK /\ map[t] \in [Objects -> Nat] /\ ops_since_flush[t] \in 0 .. FLUSH_OPS - 1
    BY DEF IInv, TypeOK
  <2>2. QED
    BY <2>1, DeferOne
<1>3. /\ r \in Seq(Tasks)
      /\ \A i \in 1 .. Len(r) : i = 1 /\ r[i][1] = "apply"
      /\ \A x \in Objects :
            map'[t][x] \in Nat /\ map'[t][x] + Applied(r, x) = map[t][x] + One(o)[x]
  <2>1. map'[t] = IF local[t] THEN IF due THEN Nothing ELSE deferred ELSE map[t]
    BY <1>1, <1>2 DEF TypeOK
  <2> HIDE DEF deferred, due
  <2>2. CASE local[t] /\ due
    BY <1>2, <2>1, <2>2, ApplyTask, NothingFacts
  <2>3. CASE local[t] /\ ~due
    <3>1. r = <<>> /\ map'[t] = deferred
      BY <2>1, <2>3
    <3>2. Len(<<>>) = 0 /\ <<>> \in Seq(Tasks)
      OBVIOUS
    <3>3. ASSUME NEW x \in Objects
          PROVE  map'[t][x] \in Nat /\ map'[t][x] + Applied(r, x) = map[t][x] + One(o)[x]
      <4>1. deferred[x] \in Nat /\ deferred[x] = map[t][x] + One(o)[x]
        BY <1>2
      <4>2. Applied(<<>>, x) = 0
        BY AppliedFew
      <4>3. map'[t][x] = deferred[x]
        BY <3>1
      <4>4. Applied(r, x) = 0
        BY <3>1, <4>2
      <4> HIDE DEF r
      <4>5. QED
        BY <4>1, <4>3, <4>4
    <3>4. \A i \in 1 .. Len(<<>>) : FALSE
      BY <3>2
    <3>5. r \in Seq(Tasks) /\ \A i \in 1 .. Len(r) : FALSE
      BY <3>1, <3>2, <3>4
    <3> HIDE DEF r
    <3>6. QED
      BY <3>3, <3>5
  <2>4. CASE ~local[t]
    <3>1. r = Apply(One(o)) /\ map'[t] = map[t]
      BY <2>1, <2>4
    <3>2. QED
      BY <1>2, <3>1, ApplyTask
  <2>5. QED
    BY <2>2, <2>3, <2>4
<1>4. PICK z : /\ Turns(t, p, z, q)
               /\ \A i \in 1 .. Len(z) : i = 1 /\ z[i][1] = "apply"
               /\ \A x \in Objects :
                     map'[t][x] \in Nat /\ map'[t][x] + Applied(z, x) = map[t][x] + One(o)[x]
  <2>1. agenda' = [agenda EXCEPT ![t] = r \o q]
    BY <1>1
  <2> HIDE DEF r
  <2>3. Turns(t, p, r, q)
    BY <1>3, <2>1 DEF Turns
  <2>4. QED
    BY <1>3, <2>3
<1>5. \A u \in Threads : u # t => map'[u] = map[u] /\ ops_since_flush'[u] = ops_since_flush[u]
  BY <1>1, <1>2 DEF TypeOK
<1>6. TypeOK'
  <2>1. map'[t] \in [Objects -> Nat] /\ map' \in [Threads -> [Objects -> Nat]]
    <3>1. (IF local[t] THEN IF due THEN Nothing ELSE deferred ELSE map[t]) \in [Objects -> Nat]
      BY <1>2, NothingFacts
    <3> HIDE DEF deferred, due
    <3>2. QED
      BY <1>1, <1>2, <3>1 DEF TypeOK
  <2>2. ops_since_flush' \in [Threads -> 0 .. FLUSH_OPS - 1]
    <3>1. (IF local[t] THEN IF due THEN 0 ELSE ops_since_flush[t] + 1 ELSE ops_since_flush[t])
             \in 0 .. FLUSH_OPS - 1
      BY <1>2, TlcAssumption DEF FlushDue
    <3> HIDE DEF deferred, due
    <3>2. QED
      BY <1>1, <1>2, <3>1 DEF TypeOK
  <2>3. agenda' \in [Threads -> Seq(Tasks)]
    BY <1>2, <1>4, TurnFacts
  <2>4. strongs' \in [Objects -> SUBSET Handles]
    BY <1>1, <1>2 DEF TypeOK
  <2> HIDE DEF r
  <2>5. QED
    BY <1>1, <1>2, <2>1, <2>2, <2>3, <2>4 DEF TypeOK
<1>8. /\ AgendaOnce' /\ AgendaOK'
      /\ \A kind \in Final, x \in Objects : Waits(kind, x)' <=> Waits(kind, x)
  BY <1>4, QuietTurn
<1>9. ASSUME NEW x \in Objects
      PROVE  Deferred(x)' = Deferred(x) + One(o)[x] /\ Deferred(x) \in Nat
  <2>1. Applied(p, x) = 0
    OBVIOUS
  <2>2. TypeOK /\ Turns(t, p, z, q) /\ \A u \in Threads : u # t => map'[u] = map[u]
    BY <1>2, <1>4, <1>5
  <2>3. /\ Deferred(x) \in Nat /\ Deferred(x)' \in Nat
        /\ map[t][x] \in Nat /\ map'[t][x] \in Nat
        /\ Applied(p, x) \in Nat /\ Applied(z, x) \in Nat
        /\ Deferred(x)' + map[t][x] + Applied(p, x) = Deferred(x) + map'[t][x] + Applied(z, x)
    BY <1>6, <2>2, TurnDeferred
  <2>4. map'[t][x] + Applied(z, x) = map[t][x] + One(o)[x] /\ One(o)[x] \in Nat
    BY <1>2, <1>4
  <2>5. QED
    BY <2>1, <2>3, <2>4
<1>10. ObjectOK(o)'
  <2>1. /\ strong'[o] = strong[o] /\ strongs'[o] = strongs[o] \ {h}
        /\ weak'[o] = weak[o] /\ memory'[o] = memory[o] /\ weaks'[o] = weaks[o]
    BY <1>1, <1>2 DEF TypeOK
  <2>2. Cardinality(strongs'[o]) = Cardinality(strongs[o]) - 1 /\ strongs[o] # {}
    <3>1. strongs[o] \in SUBSET Handles
      BY <1>2 DEF TypeOK
    <3>2. QED
      BY <2>1, <3>1, HandleCount
  <2>3. /\ Waits("destroy", o)' <=> Waits("destroy", o)
        /\ Waits("release", o)' <=> Waits("release", o)
        /\ Waits("free", o)' <=> Waits("free", o)
    BY <1>8 DEF Final
  <2>4. Deferred(o)' = Deferred(o) + 1
    BY <1>2, <1>9
  <2>5. Exact(o)' /\ Valid(o)' /\ LifeOK(o)'
    BY <2>1, <2>2, <2>3, <2>4, Counts DEF Exact, Valid, LifeOK
  <2>6. QED
    BY <2>5 DEF ObjectOK
<1>11. ASSUME NEW x \in Objects, x # o PROVE ObjectOK(x)'
  <2>1. /\ strong'[x] = strong[x] /\ strongs'[x] = strongs[x]
        /\ weak'[x] = weak[x] /\ memory'[x] = memory[x] /\ weaks'[x] = weaks[x]
    BY <1>1, <1>2, <1>11 DEF TypeOK
  <2>2. Deferred(x)' = Deferred(x)
    BY <1>2, <1>9, <1>11
  <2>3. QED
    BY <1>8, <2>1, <2>2, Untouched DEF IInv
<1>12. BufferOK'
  <2>1. Sum(map'[t]) <= ops_since_flush'[t] /\ Cardinality(Entries(map'[t])) < FLUSH_ENTRIES
    <3>1. /\ Sum(map[t]) <= ops_since_flush[t] /\ Cardinality(Entries(map[t])) < FLUSH_ENTRIES
      BY DEF IInv, BufferOK
    <3>2. CASE local[t] /\ due
      <4>1. map'[t] = Nothing /\ ops_since_flush'[t] = 0
        BY <1>1, <1>2, <3>2 DEF TypeOK
      <4>2. QED
        BY <4>1, NothingFacts, TlcAssumption
    <3>3. CASE local[t] /\ ~due
      <4>1. map'[t] = deferred /\ ops_since_flush'[t] = ops_since_flush[t] + 1
        BY <1>1, <1>2, <3>3 DEF TypeOK
      <4>2. Sum(map[t]) \in Nat /\ Sum(deferred) = Sum(map[t]) + 1
        BY <1>2, DeferOne
      <4>4. Cardinality(Entries(deferred)) < FLUSH_ENTRIES
        <5>1. Cardinality(Entries(deferred)) \in Nat
          <6>1. IsFiniteSet(Entries(deferred))
            BY TlcAssumption, FS_Subset DEF Entries
          <6>2. QED
            BY <6>1, FS_CardinalityType
        <5>2. QED
          BY <3>3, <5>1, TlcAssumption DEF FlushDue
      <4> HIDE DEF deferred
      <4>5. QED
        BY <1>2, <3>1, <4>1, <4>2, <4>4
    <3>4. CASE ~local[t]
      <4>1. map'[t] = map[t] /\ ops_since_flush'[t] = ops_since_flush[t]
        BY <1>1, <1>2, <3>4 DEF TypeOK
      <4>2. QED
        BY <3>1, <4>1
    <3>5. QED
      BY <3>2, <3>3, <3>4
  <2>2. QED
    BY <1>5, <2>1 DEF IInv, BufferOK
<1>13. UpgradeOK'
  BY <1>1 DEF IInv, UpgradeOK
<1>14. QED
  BY <1>6, <1>8, <1>10, <1>11, <1>12, <1>13 DEF IInv
LEMMA StrongDropInv ==
  ASSUME IInv, NEW t \in Threads, NEW o \in Objects, NEW h \in Handles, StrongDrop(t, o, h)
  PROVE  IInv'
<1>1. h \in strongs[o] /\ DropStrong(t, o, h, <<>>)
  BY DEF StrongDrop, OwnedOf
<1>2. Begins(t, <<>>, <<>>)
  <2>1. agenda[t] = <<>>
    BY DEF StrongDrop, Idle
  <2>2. <<>> \in Seq(Tasks) /\ <<>> \o <<>> = <<>>
    OBVIOUS
  <2>3. QED
    BY <2>1, <2>2 DEF Begins
<1>3. /\ \A x \in Objects : Applied(<<>>, x) = 0
      /\ \A kind \in Final, x \in Objects : ~In(<<kind, x>>, <<>>)
  BY AppliedFew, InFew
<1>4. QED
  BY <1>1, <1>2, <1>3, DropStrongInv

(* The task at the head of t's agenda.                                     *)
LEMMA HeadBegins ==
  ASSUME TypeOK, NEW t \in Threads, NEW kind, Doing(t, kind)
  PROVE  /\ Begins(t, << <<kind, Subject(t)>> >>, Tail(agenda[t]))
         /\ \A x \in Objects : Applied(<< <<kind, Subject(t)>> >>, x) =
                                 IF kind = "apply" THEN Subject(t)[x] ELSE 0
<1>1. /\ << <<kind, Subject(t)>> >> \in Seq(Tasks) /\ Tail(agenda[t]) \in Seq(Tasks)
      /\ agenda[t] = << <<kind, Subject(t)>> >> \o Tail(agenda[t])
  BY HeadTask
<1>2. << <<kind, Subject(t)>> >> # <<>>
  <2>1. Len(<< <<kind, Subject(t)>> >>) = 1 /\ Len(<<>>) = 0
    OBVIOUS
  <2>2. QED
    BY <2>1
<1>3. <<kind, Subject(t)>> \in Tasks
  <2>1. << <<kind, Subject(t)>> >>[1] \in Tasks
    BY <1>1
  <2>2. QED
    BY <2>1
<1>4. \A x \in Objects : Applied(<< <<kind, Subject(t)>> >>, x) = Applies(<<kind, Subject(t)>>, x)
  BY <1>3, AppliedFew
<1>5. \A x \in Objects : Applies(<<kind, Subject(t)>>, x) = IF kind = "apply" THEN Subject(t)[x] ELSE 0
  BY DEF Applies
<1>6. QED
  BY <1>1, <1>2, <1>4, <1>5 DEF Begins

LEMMA DropFieldInv ==
  ASSUME IInv, NEW t \in Threads, NEW o \in Objects, DropField(t, o)
  PROVE  IInv'
<1> SUFFICES ASSUME NEW h, h = Subject(t), NEW q, q = Tail(agenda[t])
             PROVE  IInv'
  OBVIOUS
<1>1. TypeOK /\ Doing(t, "drop") /\ h \in strongs[o] /\ DropStrong(t, o, h, q)
  BY DEF DropField, IInv
<1>2. /\ Begins(t, << <<"drop", h>> >>, q)
      /\ \A x \in Objects : Applied(<< <<"drop", h>> >>, x) = 0
  BY <1>1, HeadBegins
<1>3. \A kind \in Final, x \in Objects : ~In(<<kind, x>>, << <<"drop", h>> >>)
  <2>1. \A kind \in Final, x \in Objects : <<kind, x>> # <<"drop", h>>
    BY DEF Final
  <2>2. \A a : In(a, << <<"drop", h>> >>) <=> a = <<"drop", h>>
    BY InFew
  <2>3. QED
    BY <2>1, <2>2
<1>4. QED
  BY <1>1, <1>2, <1>3, DropStrongInv

(* The deferred decrements of an object when p, which applies none, gives  *)
(* way to r, which applies none either.                                    *)
LEMMA SameDeferred ==
  ASSUME TypeOK, TypeOK', NEW t \in Threads, NEW p, NEW r, NEW q, Turns(t, p, r, q),
         map' = map, NEW o \in Objects, Applied(r, o) = Applied(p, o)
  PROVE  Deferred(o)' = Deferred(o) /\ Deferred(o) \in Nat
<1>1. /\ Deferred(o) \in Nat /\ Deferred(o)' \in Nat
      /\ map[t][o] \in Nat
      /\ Applied(p, o) \in Nat
      /\ Deferred(o)' + map[t][o] + Applied(p, o) = Deferred(o) + map[t][o] + Applied(r, o)
  BY TurnDeferred
<1>2. Deferred(o)' + map[t][o] + Applied(p, o) = Deferred(o) + map[t][o] + Applied(p, o)
  BY <1>1
<1>3. QED
  BY <1>1, <1>2

(* A task of a destruction gives way to others: what changes for the       *)
(* other objects.                                                          *)
LEMMA OtherObjects ==
  ASSUME TypeOK, TypeOK', NEW t \in Threads, NEW p, NEW r, NEW q, Turns(t, p, r, q),
         map' = map, NEW o \in Objects, ObjectOK(o),
         strong'[o] = strong[o], weak'[o] = weak[o], memory'[o] = memory[o],
         strongs'[o] = strongs[o], weaks'[o] = weaks[o],
         Applied(r, o) = Applied(p, o),
         \A kind \in Final : ~In(<<kind, o>>, p) /\ ~In(<<kind, o>>, r)
  PROVE  ObjectOK(o)'
<1>2. Deferred(o)' = Deferred(o)
  BY SameDeferred
<1>3. \A kind \in Final : Waits(kind, o)' <=> Waits(kind, o)
  BY TurnWaits
<1>4. QED
  BY <1>2, <1>3, Untouched

(* A step of a destruction changes no buffer and no upgrade.               *)
LEMMA SameBuffers ==
  ASSUME IInv, UNCHANGED <<map, ops_since_flush, weaks, upgrade>>
  PROVE  BufferOK' /\ UpgradeOK'
BY DEF IInv, BufferOK, UpgradeOK

(* The lists of tasks that a step begins with.                             *)
LEMMA FewTasks ==
  ASSUME NEW a
  PROVE  /\ Len(<<>>) = 0 /\ Len(<<a>>) = 1 /\ <<a>>[1] = a
         /\ \A i \in 1 .. Len(<<>>) : FALSE
         /\ \A i \in 1 .. Len(<<a>>) : i = 1
         /\ \A i \in 2 .. Len(<<>>) : FALSE
         /\ \A i \in 2 .. Len(<<a>>) : FALSE
<1>1. Len(<<>>) = 0 /\ Len(<<a>>) = 1 /\ <<a>>[1] = a
  OBVIOUS
<1>2. QED
  BY <1>1

LEMMA DestroyInv ==
  ASSUME IInv, NEW t \in Threads, Destroy(t)
  PROVE  /\ IInv'
         /\ memory[Subject(t)] = "live" /\ strong[Subject(t)] = 0
<1> SUFFICES ASSUME NEW o, o = Subject(t), NEW q, q = Tail(agenda[t])
             PROVE  IInv' /\ memory[o] = "live" /\ strong[o] = 0
  OBVIOUS
<1> DEFINE p == << <<"destroy", o>> >>
           r == IF field[o] = NoHandle THEN <<>> ELSE << <<"drop", field[o]>> >>
<1>1. /\ TypeOK /\ AgendaOnce /\ AgendaOK /\ Doing(t, "destroy")
      /\ memory' = [memory EXCEPT ![o] = "dropped"]
      /\ field' = [field EXCEPT ![o] = NoHandle]
      /\ agenda' = [agenda EXCEPT ![t] = r \o q]
      /\ UNCHANGED <<strong, weak, strongs, weaks, map, ops_since_flush, local, upgrade>>
  BY DEF Destroy, IInv, handles, buffer
<1>2. /\ Begins(t, p, q) /\ \A x \in Objects : Applied(p, x) = 0
      /\ o \in Objects
  BY <1>1, HeadBegins, HeadTask DEF Final
<1>3. PICK z : /\ Turns(t, p, z, q)
               /\ z = <<>> \/ \E h \in Handles : z = << <<"drop", h>> >>
  <2>1. CASE field[o] = NoHandle
    <3>1. <<>> \in Seq(Tasks)
      OBVIOUS
    <3>2. Turns(t, p, <<>>, q)
      BY <1>1, <1>2, <2>1, <3>1 DEF Turns
    <3>3. QED
      BY <3>2
  <2>2. CASE field[o] # NoHandle
    <3>1. field[o] \in Handles
      BY <1>1, <1>2, <2>2 DEF TypeOK
    <3>2. << <<"drop", field[o]>> >> \in Seq(Tasks)
      BY <3>1 DEF Tasks
    <3>3. Turns(t, p, << <<"drop", field[o]>> >>, q)
      BY <1>1, <1>2, <2>2, <3>2 DEF Turns
    <3>4. QED
      BY <3>1, <3>3
  <2>3. QED
    BY <2>1, <2>2
<1>4. /\ \A x \in Objects : Applied(z, x) = 0
      /\ \A kind \in Final, x \in Objects : ~In(<<kind, x>>, z)
      /\ \A i, j \in 1 .. Len(z) : z[i] = z[j] => i = j
      /\ \A i \in 2 .. Len(z) : FALSE
      /\ \A x \in Objects : Len(z) > 0 => z[1] # <<"destroy", x>>
  <2>1. CASE z = <<>>
    <3>1. \A x : ~In(x, z)
      BY <2>1, InFew
    <3>2. \A x \in Objects : Applied(z, x) = 0
      BY <2>1, AppliedFew
    <3>3. QED
      BY <2>1, <3>1, <3>2, FewTasks
  <2>2. CASE \E h \in Handles : z = << <<"drop", h>> >>
    <3>0. PICK h \in Handles : z = << <<"drop", h>> >>
      BY <2>2
    <3>1. /\ <<"drop", h>> \in Tasks
          /\ \A x \in Objects : Applies(<<"drop", h>>, x) = 0
          /\ \A kind \in Final : \A x : <<kind, x>> # <<"drop", h>>
          /\ \A x : <<"drop", h>> # <<"destroy", x>>
      BY DEF Tasks, Applies, Final
    <3>2. \A x \in Objects : Applied(z, x) = 0
      BY <3>0, <3>1, AppliedFew
    <3>3. \A x : In(x, z) <=> x = <<"drop", h>>
      BY <3>0, InFew
    <3>4. /\ Len(z) = 1 /\ z[1] = <<"drop", h>>
          /\ \A i \in 1 .. Len(z) : i = 1
          /\ \A i \in 2 .. Len(z) : FALSE
      BY <3>0, FewTasks
    <3>5. QED
      BY <3>1, <3>2, <3>3, <3>4
  <2>3. QED
    BY <1>3, <2>1, <2>2
<1>5. In(<<"destroy", o>>, p) /\ \A kind, x : In(<<kind, x>>, p) => kind = "destroy" /\ x = o
  <2>1. \A x : In(x, p) <=> x = <<"destroy", o>>
    BY InFew
  <2> HIDE DEF p
  <2>2. QED
    BY <2>1
<1> HIDE DEF p, r
<1>6. Waits("destroy", o) /\ ~Waits("destroy", o)' /\ Waits("release", o)
  <2>1. Waits("destroy", o)
    BY <1>1, <1>3, <1>5, TurnWaits
  <2>2. ~Waits("destroy", o)'
    <3>1. "destroy" \in Final
      BY DEF Final
    <3>2. \A kind \in Final, x \in Objects :
            In(<<kind, x>>, p) /\ ~In(<<kind, x>>, z) => ~Waits(kind, x)'
      BY <1>1, <1>3, <1>4, TurnOnce
    <3>3. In(<<"destroy", o>>, p) /\ ~In(<<"destroy", o>>, z) /\ o \in Objects
      BY <1>2, <1>4, <1>5, <3>1
    <3>4. QED
      BY <3>1, <3>2, <3>3
  <2>3. Waits("release", o)
    <3>1. Len(agenda[t]) > 0 /\ agenda[t][1] = <<"destroy", o>>
      BY <1>1, HeadTask
    <3>2. Len(agenda[t]) > 1 /\ agenda[t][2] = <<"release", o>>
      BY <1>1, <1>2, <3>1 DEF AgendaOK
    <3>3. agenda[t] \in Seq(Tasks) /\ 2 \in 1 .. Len(agenda[t])
      BY <1>1, <3>2 DEF TypeOK
    <3>4. QED
      BY <1>1, <3>2, <3>3, WaitsIn DEF In, TypeOK
  <2>4. QED
    BY <2>1, <2>2, <2>3
<1>7. memory[o] = "live" /\ strong[o] = 0
  BY <1>2, <1>6, Counts DEF Valid, LifeOK
<1>8. TypeOK'
  <2>1. agenda' \in [Threads -> Seq(Tasks)]
    BY <1>1, <1>3, TurnFacts
  <2>2. /\ memory' \in [Objects -> {"unborn", "live", "dropped", "freed"}]
        /\ field' \in [Objects -> Handles \cup {NoHandle}]
    BY <1>1, <1>2 DEF TypeOK
  <2>3. QED
    BY <1>1, <2>1, <2>2 DEF TypeOK
<1>9. AgendaOnce' /\ AgendaOK'
  BY <1>1, <1>3, <1>4, TurnOnce, TurnOrder
<1>10. ObjectOK(o)'
  <2>1. /\ Waits("release", o)' <=> Waits("release", o)
        /\ Waits("free", o)' <=> Waits("free", o)
    <3>1. ~In(<<"release", o>>, p) /\ ~In(<<"free", o>>, p)
      BY <1>5
    <3>2. ~In(<<"release", o>>, z) /\ ~In(<<"free", o>>, z)
      BY <1>2, <1>4 DEF Final
    <3>3. QED
      BY <1>1, <1>3, <3>1, <3>2, TurnWaits
  <2>2. Deferred(o)' = Deferred(o)
    <3>1. Applied(z, o) = Applied(p, o) /\ map' = map /\ o \in Objects
      BY <1>1, <1>2, <1>4
    <3>2. QED
      BY <1>1, <1>3, <1>8, <3>1, SameDeferred
  <2>3. /\ memory'[o] = "dropped" /\ strong'[o] = strong[o] /\ weak'[o] = weak[o]
        /\ strongs'[o] = strongs[o] /\ weaks'[o] = weaks[o]
    BY <1>1, <1>2 DEF TypeOK
  <2>4. /\ strong[o] = 0 /\ memory[o] = "live" /\ strongs[o] = {} /\ Deferred(o) = 0
    BY <1>2, <1>7, Counts DEF Exact
  <2>5. Exact(o) /\ Valid(o) /\ LifeOK(o) /\ strong[o] \in Nat
    BY <1>2, Counts
  <2>6. Exact(o)'
    BY <1>6, <2>1, <2>2, <2>3, <2>4, <2>5 DEF Exact
  <2>7. Valid(o)'
    BY <1>6, <2>1, <2>2, <2>3, <2>4, <2>5 DEF Valid
  <2>8. LifeOK(o)'
    BY <1>6, <2>1, <2>2, <2>3, <2>4, <2>5 DEF LifeOK
  <2>9. QED
    BY <2>6, <2>7, <2>8 DEF ObjectOK
<1>11. ASSUME NEW x \in Objects, x # o PROVE ObjectOK(x)'
  <2>1. /\ memory'[x] = memory[x] /\ strong'[x] = strong[x] /\ weak'[x] = weak[x]
        /\ strongs'[x] = strongs[x] /\ weaks'[x] = weaks[x]
    BY <1>1, <1>2, <1>11 DEF TypeOK
  <2>2. \A kind \in Final : ~In(<<kind, x>>, p) /\ ~In(<<kind, x>>, z)
    BY <1>4, <1>5, <1>11
  <2>3. Applied(z, x) = Applied(p, x) /\ ObjectOK(x)
    BY <1>2, <1>4 DEF IInv
  <2>4. QED
    BY <1>1, <1>3, <1>8, <2>1, <2>2, <2>3, OtherObjects
<1>12. BufferOK' /\ UpgradeOK'
  BY <1>1, SameBuffers
<1>13. QED
  BY <1>7, <1>8, <1>9, <1>10, <1>11, <1>12 DEF IInv

LEMMA ReleaseWeakInv ==
  ASSUME IInv, NEW t \in Threads, ReleaseWeak(t)
  PROVE  IInv'
<1> SUFFICES ASSUME NEW o, o = Subject(t), NEW q, q = Tail(agenda[t])
             PROVE  IInv'
  OBVIOUS
<1> DEFINE p == << <<"release", o>> >>
           r == IF weak[o] = 1 THEN << <<"free", o>> >> ELSE <<>>
<1>1. /\ TypeOK /\ AgendaOnce /\ AgendaOK /\ Doing(t, "release")
      /\ weak' = [weak EXCEPT ![o] = @ - 1]
      /\ agenda' = [agenda EXCEPT ![t] = r \o q]
      /\ UNCHANGED <<strong, memory, field, strongs, weaks, map, ops_since_flush, local, upgrade>>
  BY DEF ReleaseWeak, IInv, handles, buffer
<1>2. /\ Begins(t, p, q) /\ \A x \in Objects : Applied(p, x) = 0
      /\ o \in Objects
  BY <1>1, HeadBegins, HeadTask DEF Final
<1>3. In(<<"release", o>>, p) /\ \A kind, x : In(<<kind, x>>, p) => kind = "release" /\ x = o
  <2>1. \A x : In(x, p) <=> x = <<"release", o>>
    BY InFew
  <2> HIDE DEF p
  <2>2. QED
    BY <2>1
<1>4. /\ r \in Seq(Tasks) /\ \A x \in Objects : Applied(r, x) = 0
      /\ \A x : In(x, r) <=> weak[o] = 1 /\ x = <<"free", o>>
      /\ \A i, j \in 1 .. Len(r) : r[i] = r[j] => i = j
      /\ \A i \in 2 .. Len(r) : FALSE
      /\ \A x \in Objects : Len(r) > 0 => r[1] # <<"destroy", x>>
  <2>1. CASE weak[o] = 1
    <3>1. r = << <<"free", o>> >> /\ <<"free", o>> \in Tasks
      BY <1>2, <2>1 DEF Tasks
    <3>2. \A x \in Objects : Applies(<<"free", o>>, x) = 0 /\ <<"free", o>> # <<"destroy", x>>
      BY DEF Applies
    <3> HIDE DEF r
    <3>3. \A x \in Objects : Applied(r, x) = 0
      BY <3>1, <3>2, AppliedFew
    <3>4. \A x : In(x, r) <=> x = <<"free", o>>
      BY <3>1, InFew
    <3>5. r \in Seq(Tasks)
      BY <3>1
    <3>6. /\ Len(r) = 1 /\ r[1] = <<"free", o>>
          /\ \A i \in 1 .. Len(r) : i = 1
          /\ \A i \in 2 .. Len(r) : FALSE
      BY <3>1, FewTasks
    <3>7. QED
      BY <2>1, <3>2, <3>3, <3>4, <3>5, <3>6
  <2>2. CASE weak[o] # 1
    <3>1. r = <<>>
      BY <2>2
    <3> HIDE DEF r
    <3>2. \A x \in Objects : Applied(r, x) = 0
      BY <3>1, AppliedFew
    <3>3. \A x : ~In(x, r)
      BY <3>1, InFew
    <3>4. r \in Seq(Tasks)
      BY <3>1
    <3>5. QED
      BY <2>2, <3>1, <3>2, <3>3, <3>4, FewTasks
  <2>3. QED
    BY <2>1, <2>2
<1>5. PICK z : z = r
  OBVIOUS
<1> HIDE DEF p, r
<1>6. Turns(t, p, z, q)
  BY <1>1, <1>2, <1>4, <1>5 DEF Turns
<1>7. Waits("release", o) /\ strong[o] = 0 /\ memory[o] = "dropped" /\ ~Waits("destroy", o)
  <2>1. Waits("release", o)
    BY <1>1, <1>3, <1>6, TurnWaits
  <2>2. ~Waits("destroy", o)
    <3> SUFFICES ASSUME Waits("destroy", o) PROVE FALSE
      OBVIOUS
    <3>1. agenda \in [Threads -> Seq(Tasks)]
      BY <1>1 DEF TypeOK
    <3>2. PICK u \in Threads : In(<<"destroy", o>>, agenda[u])
      BY <3>1, WaitsIn
    <3>3. PICK i \in 1 .. Len(agenda[u]) : agenda[u][i] = <<"destroy", o>>
      BY <3>2 DEF In
    <3>4. agenda[u] \in Seq(Tasks) /\ Len(agenda[u]) \in Nat
      BY <3>1
    <3>5. i = 1
      <4>1. \A j \in 2 .. Len(agenda[u]) : agenda[u][j][1] \in {"apply", "release"}
        BY <1>1 DEF AgendaOK
      <4>2. agenda[u][i][1] = "destroy"
        BY <3>3
      <4>3. QED
        BY <3>4, <4>1, <4>2
    <3>6. Len(agenda[u]) > 1 /\ agenda[u][2] = <<"release", o>>
      BY <1>1, <1>2, <3>3, <3>4, <3>5 DEF AgendaOK
    <3>7. agenda[t][1] = <<"release", o>> /\ Len(agenda[t]) > 0 /\ Len(agenda[t]) \in Nat
      <4>1. agenda[t][1] = <<"release", Subject(t)>> /\ Len(agenda[t]) > 0
        BY <1>1, HeadTask
      <4>2. Len(agenda[t]) \in Nat
        BY <3>1
      <4>3. QED
        BY <4>1, <4>2
    <3>8. 1 \in 1 .. Len(agenda[t]) /\ 2 \in 1 .. Len(agenda[u])
      BY <3>4, <3>6, <3>7
    <3>9. agenda[t][1][1] \in Final /\ agenda[t][1] = agenda[u][2]
      BY <3>6, <3>7 DEF Final
    <3>10. 1 = 2
      BY <1>1, <3>8, <3>9 DEF AgendaOnce
    <3>11. QED
      BY <3>10
  <2>3. QED
    BY <1>2, <2>1, <2>2, Counts DEF Valid, LifeOK
<1>8. /\ weak[o] = Cardinality(weaks[o]) + 1
      /\ Cardinality(weaks[o]) \in Nat /\ (Cardinality(weaks[o]) = 0 <=> weaks[o] = {})
      /\ ~Waits("free", o)
  BY <1>2, <1>7, Counts DEF Exact, LifeOK
<1>9. TypeOK'
  <2>1. agenda' \in [Threads -> Seq(Tasks)]
    BY <1>1, <1>6, TurnFacts
  <2>2. weak' \in [Objects -> Nat]
    BY <1>1, <1>2, <1>8 DEF TypeOK
  <2>3. QED
    BY <1>1, <2>1, <2>2 DEF TypeOK
<1>10. AgendaOnce' /\ ~Waits("release", o)'
  <2>1. \A kind \in Final, x \in Objects : In(<<kind, x>>, z) => ~Waits(kind, x)
    <3>1. \A kind, x : In(<<kind, x>>, z) => kind = "free" /\ x = o
      BY <1>4, <1>5
    <3>2. QED
      BY <1>8, <3>1
  <2>2. "release" \in Final /\ ~In(<<"release", o>>, z)
    BY <1>4, <1>5 DEF Final
  <2>3. /\ AgendaOnce'
        /\ \A kind \in Final, x \in Objects :
             In(<<kind, x>>, p) /\ ~In(<<kind, x>>, z) => ~Waits(kind, x)'
    BY <1>1, <1>4, <1>5, <1>6, <2>1, TurnOnce
  <2>4. QED
    BY <1>2, <1>3, <2>2, <2>3
<1>11. AgendaOK'
  BY <1>1, <1>4, <1>5, <1>6, TurnOrder
<1>12. ObjectOK(o)'
  <2>1. /\ Waits("destroy", o)' <=> Waits("destroy", o)
        /\ Waits("free", o)' <=> weak[o] = 1
    <3>1. ~In(<<"destroy", o>>, p) /\ ~In(<<"free", o>>, p)
      BY <1>3
    <3>2. ~In(<<"destroy", o>>, z) /\ (In(<<"free", o>>, z) <=> weak[o] = 1)
      BY <1>4, <1>5
    <3>3. QED
      BY <1>1, <1>6, <1>8, <3>1, <3>2, TurnWaits
  <2>2. Deferred(o)' = Deferred(o)
    <3>1. Applied(z, o) = Applied(p, o) /\ map' = map
      BY <1>1, <1>2, <1>4, <1>5
    <3>2. QED
      BY <1>1, <1>2, <1>6, <1>9, <3>1, SameDeferred
  <2>3. /\ memory'[o] = memory[o] /\ strong'[o] = strong[o] /\ weak'[o] = weak[o] - 1
        /\ strongs'[o] = strongs[o] /\ weaks'[o] = weaks[o]
    BY <1>1, <1>2 DEF TypeOK
  <2>4. Exact(o) /\ Valid(o) /\ LifeOK(o) /\ strong[o] \in Nat
    BY <1>2, Counts
  <2>5. Exact(o)'
    BY <1>7, <1>8, <1>10, <2>1, <2>2, <2>3, <2>4 DEF Exact
  <2>6. Valid(o)'
    BY <1>7, <1>8, <1>10, <2>1, <2>2, <2>3, <2>4 DEF Valid
  <2>7. LifeOK(o)'
    BY <1>7, <1>8, <1>10, <2>1, <2>2, <2>3, <2>4 DEF LifeOK
  <2>8. QED
    BY <2>5, <2>6, <2>7 DEF ObjectOK
<1>13. ASSUME NEW x \in Objects, x # o PROVE ObjectOK(x)'
  <2>1. /\ memory'[x] = memory[x] /\ strong'[x] = strong[x] /\ weak'[x] = weak[x]
        /\ strongs'[x] = strongs[x] /\ weaks'[x] = weaks[x]
    BY <1>1, <1>2, <1>13 DEF TypeOK
  <2>2. \A kind \in Final : ~In(<<kind, x>>, p) /\ ~In(<<kind, x>>, z)
    BY <1>3, <1>4, <1>5, <1>13
  <2>3. Applied(z, x) = Applied(p, x) /\ ObjectOK(x)
    BY <1>2, <1>4, <1>5 DEF IInv
  <2>4. QED
    BY <1>1, <1>6, <1>9, <2>1, <2>2, <2>3, OtherObjects
<1>14. BufferOK' /\ UpgradeOK'
  BY <1>1, SameBuffers
<1>15. QED
  BY <1>9, <1>10, <1>11, <1>12, <1>13, <1>14 DEF IInv

LEMMA FreeInv ==
  ASSUME IInv, NEW t \in Threads, Free(t)
  PROVE  /\ IInv'
         /\ memory[Subject(t)] = "dropped" /\ weaks[Subject(t)] = {}
<1> SUFFICES ASSUME NEW o, o = Subject(t), NEW q, q = Tail(agenda[t])
             PROVE  IInv' /\ memory[o] = "dropped" /\ weaks[o] = {}
  OBVIOUS
<1> DEFINE p == << <<"free", o>> >>
<1>1. /\ TypeOK /\ AgendaOnce /\ AgendaOK /\ Doing(t, "free")
      /\ memory' = [memory EXCEPT ![o] = "freed"]
      /\ agenda' = [agenda EXCEPT ![t] = q]
      /\ UNCHANGED <<strong, weak, field, strongs, weaks, map, ops_since_flush, local, upgrade>>
  BY DEF Free, IInv, handles, buffer
<1>2. /\ Begins(t, p, q) /\ \A x \in Objects : Applied(p, x) = 0
      /\ o \in Objects
  BY <1>1, HeadBegins, HeadTask DEF Final
<1>3. In(<<"free", o>>, p) /\ \A kind, x : In(<<kind, x>>, p) => kind = "free" /\ x = o
  <2>1. \A x : In(x, p) <=> x = <<"free", o>>
    BY InFew
  <2> HIDE DEF p
  <2>2. QED
    BY <2>1
<1>4. PICK z : z = <<>>
  OBVIOUS
<1>5. /\ \A x \in Objects : Applied(z, x) = 0
      /\ \A x : ~In(x, z)
      /\ \A i, j \in 1 .. Len(z) : z[i] = z[j] => i = j
      /\ \A i \in 2 .. Len(z) : FALSE
      /\ Len(z) = 0
  BY <1>4, AppliedFew, InFew, FewTasks
<1> HIDE DEF p
<1>6. Turns(t, p, z, q)
  <2>1. q \in Seq(Tasks)
    BY <1>2 DEF Begins
  <2>2. z \in Seq(Tasks) /\ z \o q = q
    BY <1>4, <2>1, ConcatEmptySeq
  <2>3. QED
    BY <1>1, <1>2, <2>2 DEF Turns
<1>7. /\ Waits("free", o) /\ weak[o] = 0 /\ memory[o] = "dropped"
      /\ strong[o] = 0 /\ strongs[o] = {} /\ weaks[o] = {} /\ Deferred(o) = 0
      /\ ~Waits("release", o) /\ ~Waits("destroy", o)
  <2>1. Waits("free", o)
    BY <1>1, <1>3, <1>6, TurnWaits
  <2>2. weak[o] = 0 /\ memory[o] = "dropped" /\ strong[o] = 0
    BY <1>2, <2>1, Counts DEF LifeOK
  <2>3. QED
    BY <1>2, <2>1, <2>2, Counts DEF Exact
<1>8. TypeOK'
  <2>1. agenda' \in [Threads -> Seq(Tasks)]
    BY <1>1, <1>6, TurnFacts
  <2>2. memory' \in [Objects -> {"unborn", "live", "dropped", "freed"}]
    BY <1>1, <1>2 DEF TypeOK
  <2>3. QED
    BY <1>1, <2>1, <2>2 DEF TypeOK
<1>9. AgendaOnce' /\ ~Waits("free", o)'
  <2>1. "free" \in Final
    BY DEF Final
  <2>2. /\ AgendaOnce'
        /\ \A kind \in Final, x \in Objects :
             In(<<kind, x>>, p) /\ ~In(<<kind, x>>, z) => ~Waits(kind, x)'
    BY <1>1, <1>5, <1>6, TurnOnce
  <2>3. QED
    BY <1>2, <1>3, <1>5, <2>1, <2>2
<1>10. AgendaOK'
  BY <1>1, <1>5, <1>6, TurnOrder
<1>11. ObjectOK(o)'
  <2>1. /\ Waits("destroy", o)' <=> Waits("destroy", o)
        /\ Waits("release", o)' <=> Waits("release", o)
    <3>1. ~In(<<"destroy", o>>, p) /\ ~In(<<"release", o>>, p)
      BY <1>3
    <3>2. QED
      BY <1>1, <1>5, <1>6, <3>1, TurnWaits
  <2>2. Deferred(o)' = Deferred(o)
    <3>1. Applied(z, o) = Applied(p, o) /\ map' = map
      BY <1>1, <1>2, <1>5
    <3>2. QED
      BY <1>1, <1>2, <1>6, <1>8, <3>1, SameDeferred
  <2>3. /\ memory'[o] = "freed" /\ strong'[o] = strong[o] /\ weak'[o] = weak[o]
        /\ strongs'[o] = strongs[o] /\ weaks'[o] = weaks[o]
    BY <1>1, <1>2 DEF TypeOK
  <2>4. Exact(o)' /\ Valid(o)' /\ LifeOK(o)'
    BY <1>7, <1>9, <2>1, <2>2, <2>3 DEF Exact, Valid, LifeOK
  <2>5. QED
    BY <2>4 DEF ObjectOK
<1>12. ASSUME NEW x \in Objects, x # o PROVE ObjectOK(x)'
  <2>1. /\ memory'[x] = memory[x] /\ strong'[x] = strong[x] /\ weak'[x] = weak[x]
        /\ strongs'[x] = strongs[x] /\ weaks'[x] = weaks[x]
    BY <1>1, <1>2, <1>12 DEF TypeOK
  <2>2. \A kind \in Final : ~In(<<kind, x>>, p) /\ ~In(<<kind, x>>, z)
    BY <1>3, <1>5, <1>12
  <2>3. Applied(z, x) = Applied(p, x) /\ ObjectOK(x)
    BY <1>2, <1>5 DEF IInv
  <2>4. QED
    BY <1>1, <1>6, <1>8, <2>1, <2>2, <2>3, OtherObjects
<1>13. BufferOK' /\ UpgradeOK'
  BY <1>1, SameBuffers
<1>14. QED
  BY <1>7, <1>8, <1>9, <1>10, <1>11, <1>12, <1>13 DEF IInv

LEMMA WeakDropInv ==
  ASSUME IInv, NEW t \in Threads, NEW o \in Objects, NEW h \in Handles, WeakDrop(t, o, h)
  PROVE  IInv'
<1> DEFINE r == IF weak[o] = 1 THEN << <<"free", o>> >> ELSE <<>>
<1>1. /\ TypeOK /\ AgendaOnce /\ AgendaOK /\ agenda[t] = <<>> /\ h \in weaks[o] /\ ~Borrowed(h)
      /\ weak' = [weak EXCEPT ![o] = @ - 1]
      /\ weaks' = [weaks EXCEPT ![o] = @ \ {h}]
      /\ agenda' = [agenda EXCEPT ![t] = r]
      /\ UNCHANGED <<strong, memory, field, strongs, map, ops_since_flush, local, upgrade>>
  BY DEF WeakDrop, Idle, IInv, buffer
<1>2. PICK n : n = <<>>
  OBVIOUS
<1>3. /\ \A x \in Objects : Applied(n, x) = 0
      /\ \A x : ~In(x, n)
  BY <1>2, AppliedFew, InFew
<1>4. /\ r \in Seq(Tasks) /\ \A x \in Objects : Applied(r, x) = 0
      /\ \A x : In(x, r) <=> weak[o] = 1 /\ x = <<"free", o>>
      /\ \A i, j \in 1 .. Len(r) : r[i] = r[j] => i = j
      /\ \A i \in 2 .. Len(r) : FALSE
      /\ \A x \in Objects : Len(r) > 0 => r[1] # <<"destroy", x>>
  <2>1. CASE weak[o] = 1
    <3>1. r = << <<"free", o>> >> /\ <<"free", o>> \in Tasks
      BY <2>1 DEF Tasks
    <3>2. \A x \in Objects : Applies(<<"free", o>>, x) = 0 /\ <<"free", o>> # <<"destroy", x>>
      BY DEF Applies
    <3> HIDE DEF r
    <3>3. \A x \in Objects : Applied(r, x) = 0
      BY <3>1, <3>2, AppliedFew
    <3>4. \A x : In(x, r) <=> x = <<"free", o>>
      BY <3>1, InFew
    <3>5. r \in Seq(Tasks)
      BY <3>1
    <3>6. /\ Len(r) = 1 /\ r[1] = <<"free", o>>
          /\ \A i \in 1 .. Len(r) : i = 1
          /\ \A i \in 2 .. Len(r) : FALSE
      BY <3>1, FewTasks
    <3>7. QED
      BY <2>1, <3>2, <3>3, <3>4, <3>5, <3>6
  <2>2. CASE weak[o] # 1
    <3>1. r = <<>>
      BY <2>2
    <3> HIDE DEF r
    <3>2. \A x \in Objects : Applied(r, x) = 0
      BY <3>1, AppliedFew
    <3>3. \A x : ~In(x, r)
      BY <3>1, InFew
    <3>4. r \in Seq(Tasks)
      BY <3>1
    <3>5. QED
      BY <2>2, <3>1, <3>2, <3>3, <3>4, FewTasks
  <2>3. QED
    BY <2>1, <2>2
<1>5. PICK z : z = r
  OBVIOUS
<1> HIDE DEF r
<1>6. Turns(t, n, z, n)
  <2>1. n \in Seq(Tasks) /\ n \o n = n /\ z \in Seq(Tasks) /\ z \o n = z
    BY <1>2, <1>4, <1>5, ConcatEmptySeq
  <2>2. QED
    BY <1>1, <1>2, <1>5, <2>1 DEF Turns, Begins
<1>7. /\ memory[o] \in {"live", "dropped"}
      /\ Cardinality(weaks[o]) \in Nat /\ Cardinality(weaks'[o]) = Cardinality(weaks[o]) - 1
      /\ Cardinality(weaks[o]) # 0
      /\ weaks'[o] = weaks[o] \ {h}
  <2>1. weaks[o] \in SUBSET Handles /\ weaks'[o] = weaks[o] \ {h} /\ weaks[o] # {}
    BY <1>1 DEF TypeOK
  <2>2. QED
    BY <1>1, <2>1, HandleCount, Counts DEF Valid
<1>8. /\ weak[o] = Cardinality(weaks[o]) + (IF strong[o] > 0 \/ Waits("destroy", o) \/ Waits("release", o)
                                             THEN 1 ELSE 0)
      /\ weak[o] > 0 /\ strong[o] \in Nat
      /\ ~Waits("free", o)
  BY <1>7, Counts DEF Exact, LifeOK
<1>9. weak[o] = 1 => /\ ~Waits("destroy", o) /\ ~Waits("release", o) /\ strong[o] = 0
                      /\ memory[o] = "dropped" /\ strongs[o] = {} /\ Deferred(o) = 0
  BY <1>7, <1>8, Counts DEF Exact, LifeOK
<1>10. TypeOK'
  <2>1. agenda' \in [Threads -> Seq(Tasks)]
    BY <1>1, <1>6, TurnFacts
  <2>2. weak' \in [Objects -> Nat] /\ weaks' \in [Objects -> SUBSET Handles]
    BY <1>1, <1>8 DEF TypeOK
  <2>3. QED
    BY <1>1, <2>1, <2>2 DEF TypeOK
<1>11. AgendaOnce'
  <2>1. \A kind \in Final, x \in Objects : In(<<kind, x>>, z) => ~Waits(kind, x)
    <3>1. \A kind, x : In(<<kind, x>>, z) => kind = "free" /\ x = o
      BY <1>4, <1>5
    <3>2. QED
      BY <1>8, <3>1
  <2>2. QED
    BY <1>1, <1>4, <1>5, <1>6, <2>1, TurnOnce
<1>12. AgendaOK'
  BY <1>1, <1>4, <1>5, <1>6, TurnOrder
<1>13. ObjectOK(o)'
  <2>1. /\ Waits("destroy", o)' <=> Waits("destroy", o)
        /\ Waits("release", o)' <=> Waits("release", o)
        /\ Waits("free", o)' <=> weak[o] = 1
    <3>1. /\ ~In(<<"destroy", o>>, z) /\ ~In(<<"release", o>>, z)
          /\ (In(<<"free", o>>, z) <=> weak[o] = 1)
      BY <1>4, <1>5
    <3>2. QED
      BY <1>1, <1>3, <1>6, <1>8, <3>1, TurnWaits
  <2>2. Deferred(o)' = Deferred(o)
    <3>1. Applied(z, o) = Applied(n, o) /\ map' = map
      BY <1>1, <1>3, <1>4, <1>5
    <3>2. QED
      BY <1>1, <1>6, <1>10, <3>1, SameDeferred
  <2>3. /\ memory'[o] = memory[o] /\ strong'[o] = strong[o] /\ weak'[o] = weak[o] - 1
        /\ strongs'[o] = strongs[o]
    BY <1>1 DEF TypeOK
  <2>4. Exact(o) /\ Valid(o) /\ LifeOK(o)
    BY Counts
  <2>5. Exact(o)'
    BY <1>7, <1>8, <2>1, <2>2, <2>3, <2>4 DEF Exact
  <2>6. Valid(o)'
    BY <1>7, <1>9, <2>1, <2>2, <2>3, <2>4 DEF Valid
  <2>7. LifeOK(o)'
    BY <1>7, <1>8, <1>9, <2>1, <2>2, <2>3, <2>4 DEF LifeOK
  <2>8. QED
    BY <2>5, <2>6, <2>7 DEF ObjectOK
<1>14. ASSUME NEW x \in Objects, x # o PROVE ObjectOK(x)'
  <2>1. /\ memory'[x] = memory[x] /\ strong'[x] = strong[x] /\ weak'[x] = weak[x]
        /\ strongs'[x] = strongs[x] /\ weaks'[x] = weaks[x]
    BY <1>1, <1>14 DEF TypeOK
  <2>2. \A kind \in Final : ~In(<<kind, x>>, n) /\ ~In(<<kind, x>>, z)
    BY <1>3, <1>4, <1>5, <1>14
  <2>3. Applied(z, x) = Applied(n, x) /\ ObjectOK(x)
    BY <1>3, <1>4, <1>5 DEF IInv
  <2>4. QED
    BY <1>1, <1>6, <1>10, <2>1, <2>2, <2>3, OtherObjects
<1>15. BufferOK'
  BY <1>1 DEF IInv, BufferOK
<1>16. UpgradeOK'
  <2> SUFFICES ASSUME NEW u \in Threads, upgrade[u] # NoUpgrade
               PROVE  upgrade[u][2] \in weaks'[upgrade[u][1]] /\ upgrade[u][3] > 0
    BY <1>1 DEF UpgradeOK
  <2>1. /\ upgrade[u][1] \in Objects /\ upgrade[u][2] \in weaks[upgrade[u][1]] /\ upgrade[u][3] > 0
    BY UpgradeOf
  <2>2. upgrade[u][2] # h
    BY <1>1 DEF Borrowed
  <2>3. QED
    BY <1>1, <2>1, <2>2 DEF TypeOK
<1>17. QED
  BY <1>10, <1>11, <1>12, <1>13, <1>14, <1>15, <1>16 DEF IInv

LEMMA ExitInv ==
  ASSUME IInv, NEW t \in Threads, Exit(t)
  PROVE  IInv'
<1> SUFFICES ASSUME NEW f, f = map[t] PROVE IInv'
  OBVIOUS
<1>1. /\ TypeOK /\ agenda[t] = <<>> /\ f \in [Objects -> Nat]
      /\ map' = [map EXCEPT ![t] = Nothing]
      /\ ops_since_flush' = [ops_since_flush EXCEPT ![t] = 0]
      /\ local' = [local EXCEPT ![t] = FALSE]
      /\ agenda' = [agenda EXCEPT ![t] = Apply(f)]
      /\ UNCHANGED <<strong, weak, memory, field, strongs, weaks, upgrade>>
  BY DEF Exit, Idle, Pending, IInv, TypeOK, handles
<1>2. PICK n : n = <<>>
  OBVIOUS
<1>3. PICK z : z = Apply(f)
  OBVIOUS
<1>4. /\ \A x \in Objects : Applied(n, x) = 0
      /\ \A x : ~In(x, n)
  BY <1>2, AppliedFew, InFew
<1>5. /\ z \in Seq(Tasks) /\ \A x \in Objects : Applied(z, x) = f[x]
      /\ \A i \in 1 .. Len(z) : i = 1 /\ z[i][1] = "apply"
  BY <1>1, <1>3, ApplyTask
<1>6. Turns(t, n, z, n)
  <2>1. n \in Seq(Tasks) /\ n \o n = n /\ z \o n = z
    BY <1>2, <1>5, ConcatEmptySeq
  <2>2. QED
    BY <1>1, <1>2, <1>3, <1>5, <2>1 DEF Turns, Begins
<1>7. TypeOK'
  <2>1. agenda' \in [Threads -> Seq(Tasks)]
    BY <1>1, <1>6, TurnFacts
  <2>2. /\ map' \in [Threads -> [Objects -> Nat]]
        /\ ops_since_flush' \in [Threads -> 0 .. FLUSH_OPS - 1]
        /\ local' \in [Threads -> BOOLEAN]
    BY <1>1, NothingFacts, TlcAssumption DEF TypeOK
  <2>3. QED
    BY <1>1, <2>1, <2>2 DEF TypeOK
<1>8. /\ AgendaOnce' /\ AgendaOK'
      /\ \A kind \in Final, x \in Objects : Waits(kind, x)' <=> Waits(kind, x)
  BY <1>4, <1>5, <1>6, QuietTurn
<1>9. map'[t] = Nothing /\ \A u \in Threads : u # t => map'[u] = map[u]
  BY <1>1 DEF TypeOK
<1>10. ASSUME NEW x \in Objects PROVE ObjectOK(x)'
  <2>1. /\ Deferred(x) \in Nat /\ Deferred(x)' \in Nat
        /\ map[t][x] \in Nat /\ map'[t][x] \in Nat
        /\ Applied(n, x) \in Nat /\ Applied(z, x) \in Nat
        /\ Deferred(x)' + map[t][x] + Applied(n, x) = Deferred(x) + map'[t][x] + Applied(z, x)
    BY <1>1, <1>6, <1>7, <1>9, TurnDeferred
  <2>2. map'[t][x] = 0 /\ Applied(n, x) = 0 /\ Applied(z, x) = map[t][x]
    BY <1>4, <1>5, <1>9, NothingFacts
  <2>3. Deferred(x)' + map[t][x] + 0 = Deferred(x) + 0 + map[t][x]
    BY <2>1, <2>2
  <2>4. Deferred(x)' = Deferred(x)
    BY <2>1, <2>3
  <2>5. QED
    BY <1>1, <1>8, <2>4, Untouched DEF IInv
<1>11. BufferOK'
  <2>1. Sum(map'[t]) <= ops_since_flush'[t] /\ Cardinality(Entries(map'[t])) < FLUSH_ENTRIES
    BY <1>1, <1>9, NothingFacts, TlcAssumption DEF TypeOK
  <2>2. \A u \in Threads : u # t => ops_since_flush'[u] = ops_since_flush[u]
    BY <1>1 DEF TypeOK
  <2>3. QED
    BY <1>9, <2>1, <2>2 DEF IInv, BufferOK
<1>12. UpgradeOK'
  BY <1>1 DEF IInv, UpgradeOK
<1>13. QED
  BY <1>7, <1>8, <1>10, <1>11, <1>12 DEF IInv

(* What follows the decrement of the counter of o.                         *)
Released(f, o, last) ==
  (IF last THEN << <<"destroy", o>>, <<"release", o>> >> ELSE <<>>) \o Apply([f EXCEPT ![o] = 0])

LEMMA ReleasedTasks ==
  ASSUME NEW f \in [Objects -> Nat], NEW o \in Objects, NEW last \in BOOLEAN, NEW z,
         z = Released(f, o, last)
  PROVE  /\ z \in Seq(Tasks)
         /\ \A x \in Objects : Applied(z, x) = IF x = o THEN 0 ELSE f[x]
         /\ \A kind \in Final, x \in Objects :
               In(<<kind, x>>, z) <=> last /\ kind \in {"destroy", "release"} /\ x = o
         /\ \A i, j \in 1 .. Len(z) : z[i] = z[j] => i = j
         /\ \A i \in 2 .. Len(z) : z[i][1] \in {"apply", "release"}
         /\ \A x \in Objects : Len(z) > 0 /\ z[1] = <<"destroy", x>> =>
               Len(z) > 1 /\ z[2] = <<"release", x>>
<1> DEFINE g == [f EXCEPT ![o] = 0]
<1>1. PICK a : a = Apply(g)
  OBVIOUS
<1>2. /\ a \in Seq(Tasks)
      /\ \A i \in 1 .. Len(a) : i = 1 /\ a[i] = <<"apply", g>>
      /\ \A x \in Objects : Applied(a, x) = IF x = o THEN 0 ELSE f[x]
      /\ \A kind \in Final, x \in Objects : ~In(<<kind, x>>, a)
  <2>1. g \in [Objects -> Nat] /\ \A x \in Objects : g[x] = IF x = o THEN 0 ELSE f[x]
    OBVIOUS
  <2> HIDE DEF g
  <2>2. /\ a \in Seq(Tasks)
        /\ \A i \in 1 .. Len(a) : i = 1 /\ a[i] = <<"apply", g>>
        /\ \A x \in Objects : Applied(a, x) = g[x]
    BY <1>1, <2>1, ApplyTask
  <2>3. \A kind \in Final, x \in Objects : <<kind, x>> # <<"apply", g>>
    BY DEF Final
  <2>4. QED
    BY <2>1, <2>2, <2>3 DEF In
<1> HIDE DEF g
<1>3. CASE ~last
  <2>1. z = a
    BY <1>1, <1>2, <1>3, ConcatEmptySeq DEF g, Released
  <2>2. QED
    BY <1>2, <1>3, <2>1
<1>4. CASE last
  <2>1. PICK d : d = << <<"destroy", o>>, <<"release", o>> >>
    OBVIOUS
  <2>2. z = d \o a
    BY <1>1, <1>4, <2>1 DEF g, Released
  <2>3. /\ <<"destroy", o>> \in Tasks /\ <<"release", o>> \in Tasks
        /\ \A x \in Objects : Applies(<<"destroy", o>>, x) = 0 /\ Applies(<<"release", o>>, x) = 0
    BY DEF Tasks, Applies
  <2>4. /\ d \in Seq(Tasks) /\ Len(d) = 2
        /\ d[1] = <<"destroy", o>> /\ d[2] = <<"release", o>>
        /\ d = << <<"destroy", o>> >> \o << <<"release", o>> >>
    BY <2>1, <2>3
  <2>5. \A x \in Objects : Applied(d, x) = 0
    <3>1. << <<"destroy", o>> >> \in Seq(Tasks) /\ << <<"release", o>> >> \in Seq(Tasks)
      BY <2>3
    <3>2. \A x \in Objects : /\ Applied(<< <<"destroy", o>> >>, x) = 0
                             /\ Applied(<< <<"release", o>> >>, x) = 0
      BY <2>3, AppliedFew
    <3>3. \A x \in Objects : Applied(d, x) = Applied(<< <<"destroy", o>> >>, x) + Applied(<< <<"release", o>> >>, x)
      BY <2>4, <3>1, AppliedConcat
    <3>4. QED
      BY <3>2, <3>3
  <2>6. \A x : In(x, d) <=> x = <<"destroy", o>> \/ x = <<"release", o>>
    BY <2>4 DEF In
  <2>7. /\ z \in Seq(Tasks) /\ Len(z) = 2 + Len(a) /\ Len(a) \in Nat
        /\ \A i \in 1 .. 2 + Len(a) : z[i] = IF i <= 2 THEN d[i] ELSE a[i - 2]
    BY <1>2, <2>2, <2>4, ConcatProperties, LenProperties
  <2>8. \A x \in Objects : Applied(z, x) = IF x = o THEN 0 ELSE f[x]
    <3> SUFFICES ASSUME NEW x \in Objects PROVE Applied(z, x) = IF x = o THEN 0 ELSE f[x]
      OBVIOUS
    <3>1. Applied(z, x) = Applied(d, x) + Applied(a, x)
      <4>1. d \in Seq(Tasks) /\ a \in Seq(Tasks)
        BY ONLY <1>2, <2>4
      <4>2. Applied(d \o a, x) = Applied(d, x) + Applied(a, x)
        BY ONLY x \in Objects, <4>1, AppliedConcat
      <4>3. QED
        BY ONLY <2>2, <4>2
    <3>2. Applied(d, x) = 0 /\ Applied(a, x) = (IF x = o THEN 0 ELSE f[x]) /\ f[x] \in Nat
      BY <1>2, <2>5
    <3>3. QED
      BY <3>1, <3>2
  <2>9. \A kind \in Final, x \in Objects :
          In(<<kind, x>>, z) <=> kind \in {"destroy", "release"} /\ x = o
    <3>1. \A x : In(x, z) <=> In(x, d) \/ In(x, a)
      <4> SUFFICES ASSUME NEW x PROVE In(x, d \o a) <=> In(x, d) \/ In(x, a)
        BY <2>2
      <4>1. d \in Seq(Tasks) /\ a \in Seq(Tasks)
        BY <1>2, <2>4
      <4>2. QED
        BY <4>1, InConcat
    <3>2. \A kind, x : <<kind, x>> = <<"destroy", o>> \/ <<kind, x>> = <<"release", o>>
                         <=> kind \in {"destroy", "release"} /\ x = o
      OBVIOUS
    <3>3. QED
      BY <1>2, <2>6, <3>1, <3>2
  <2>10. /\ z[1] = <<"destroy", o>> /\ z[2] = <<"release", o>>
         /\ Len(a) <= 1
         /\ Len(a) = 1 => z[3] = <<"apply", g>>
    <3>1. z[1] = d[1] /\ z[2] = d[2]
      BY <2>7
    <3>2. Len(a) <= 1
      BY <1>2, <2>7
    <3>3. Len(a) = 1 => z[3] = a[1]
      BY <2>7
    <3>4. QED
      BY <1>2, <2>4, <3>1, <3>2, <3>3
  <2>11. \A i \in 1 .. Len(z) : i = 1 \/ i = 2 \/ (i = 3 /\ Len(a) = 1)
    <3>1. Len(z) = 2 + Len(a) /\ Len(a) \in Nat
      BY <2>7
    <3>2. Len(a) <= 1
      BY <2>10
    <3>3. Len(a) = 0 \/ Len(a) = 1
      <4>1. \A n \in Nat : n <= 1 => n = 0 \/ n = 1
        OBVIOUS
      <4>2. QED
        BY <3>1, <3>2, <4>1
    <3>4. CASE Len(a) = 0
      <4>1. Len(z) = 2
        BY <3>1, <3>4
      <4>2. QED
        BY <4>1
    <3>5. CASE Len(a) = 1
      <4>1. Len(z) = 3
        BY <3>1, <3>5
      <4>2. QED
        BY <3>5, <4>1
    <3>6. QED
      BY <3>3, <3>4, <3>5
  <2>12. \A i, j \in 1 .. Len(z) : z[i] = z[j] => i = j
    <3>1. /\ <<"destroy", o>> # <<"release", o>>
          /\ <<"destroy", o>> # <<"apply", g>> /\ <<"release", o>> # <<"apply", g>>
      OBVIOUS
    <3>2. QED
      BY <2>10, <2>11, <3>1
  <2>13. \A i \in 2 .. Len(z) : z[i][1] \in {"apply", "release"}
    BY <2>7, <2>10, <2>11
  <2>14. \A x \in Objects : Len(z) > 0 /\ z[1] = <<"destroy", x>> => Len(z) > 1 /\ z[2] = <<"release", x>>
    BY <2>7, <2>10
  <2>15. QED
    BY <1>4, <2>7, <2>8, <2>9, <2>12, <2>13, <2>14
<1>5. QED
  BY <1>3, <1>4

LEMMA ReleaseStrongInv ==
  ASSUME IInv, NEW t \in Threads, NEW o \in Objects, ReleaseStrong(t, o)
  PROVE  /\ IInv'
         /\ memory[o] = "live" /\ strong[o] > 0
         /\ strong'[o] = 0 => strongs[o] = {}
<1> SUFFICES ASSUME NEW f, f = Subject(t), NEW q, q = Tail(agenda[t]),
                    NEW last \in BOOLEAN, last <=> strong[o] = f[o],
                    NEW z, z = Released(f, o, last)
             PROVE  IInv' /\ memory[o] = "live" /\ strong[o] > 0 /\ (strong'[o] = 0 => strongs[o] = {})
  OBVIOUS
<1> DEFINE p == << <<"apply", f>> >>
<1>1. /\ TypeOK /\ AgendaOnce /\ AgendaOK /\ Doing(t, "apply")
      /\ o \in Entries(f)
      /\ strong' = [strong EXCEPT ![o] = @ - f[o]]
      /\ agenda' = [agenda EXCEPT ![t] = z \o q]
      /\ UNCHANGED <<weak, memory, field, strongs, weaks, map, ops_since_flush, local, upgrade>>
  BY DEF ReleaseStrong, Released, IInv, handles, buffer
<1>2. f \in [Objects -> Nat] /\ f[o] > 0 /\ f[o] \in Nat
  BY <1>1, HeadTask DEF Entries
<1>3. Begins(t, p, q) /\ \A x \in Objects : Applied(p, x) = f[x]
  BY <1>1, HeadBegins
<1>4. \A kind \in Final, x \in Objects : ~In(<<kind, x>>, p)
  <2>1. \A x : In(x, p) <=> x = <<"apply", f>>
    BY InFew
  <2>2. \A kind \in Final, x \in Objects : <<kind, x>> # <<"apply", f>>
    BY DEF Final
  <2> HIDE DEF p
  <2>3. QED
    BY <2>1, <2>2
<1> HIDE DEF p
<1>5. /\ z \in Seq(Tasks)
      /\ \A x \in Objects : Applied(z, x) = IF x = o THEN 0 ELSE f[x]
      /\ \A kind \in Final, x \in Objects :
            In(<<kind, x>>, z) <=> last /\ kind \in {"destroy", "release"} /\ x = o
      /\ \A i, j \in 1 .. Len(z) : z[i] = z[j] => i = j
      /\ \A i \in 2 .. Len(z) : z[i][1] \in {"apply", "release"}
      /\ \A x \in Objects : Len(z) > 0 /\ z[1] = <<"destroy", x>> =>
            Len(z) > 1 /\ z[2] = <<"release", x>>
  BY <1>2, ReleasedTasks
<1>6. Turns(t, p, z, q)
  BY <1>1, <1>3, <1>5 DEF Turns
<1>7. f[o] <= Deferred(o)
  <2>1. /\ ToApply(t, o) \in Nat /\ ToApply(t, o) <= Deferred(o) /\ Deferred(o) \in Nat
        /\ map[t][o] \in Nat
    BY <1>1, DeferredNat
  <2>2. ToApply(t, o) = map[t][o] + (Applied(p, o) + Applied(q, o)) /\ Applied(q, o) \in Nat
    BY <1>1, <1>6, TurnFacts DEF ToApply
  <2>3. QED
    BY <1>2, <1>3, <2>1, <2>2
<1>8. /\ memory[o] = "live" /\ strong[o] = Cardinality(strongs[o]) + Deferred(o)
      /\ strong[o] \in Nat /\ strong[o] > 0 /\ f[o] <= strong[o]
      /\ ~Waits("destroy", o) /\ ~Waits("release", o) /\ ~Waits("free", o)
      /\ last => strongs[o] = {} /\ Deferred(o) = f[o]
      /\ strong'[o] = strong[o] - f[o] /\ strong'[o] \in Nat /\ (last <=> strong'[o] = 0)
  <2>1. /\ Deferred(o) \in Nat /\ Deferred(o) > 0
        /\ Exact(o) /\ Valid(o) /\ LifeOK(o)
        /\ Cardinality(strongs[o]) \in Nat /\ (Cardinality(strongs[o]) = 0 <=> strongs[o] = {})
    BY <1>2, <1>7, Counts
  <2>2. /\ memory[o] = "live" /\ strong[o] = Cardinality(strongs[o]) + Deferred(o)
    BY <2>1 DEF Exact, Valid
  <2>3. strong[o] \in Nat /\ strong[o] > 0 /\ f[o] <= strong[o]
    BY <1>2, <1>7, <2>1, <2>2
  <2>4. ~Waits("destroy", o) /\ ~Waits("release", o) /\ ~Waits("free", o)
    BY <2>1, <2>2, <2>3 DEF LifeOK
  <2>5. last => strongs[o] = {} /\ Deferred(o) = f[o]
    BY <1>2, <1>7, <2>1, <2>2
  <2>6. strong'[o] = strong[o] - f[o]
    BY <1>1 DEF TypeOK
  <2>7. QED
    BY <1>2, <2>2, <2>3, <2>4, <2>5, <2>6
<1>9. TypeOK'
  <2>1. agenda' \in [Threads -> Seq(Tasks)]
    BY <1>1, <1>6, TurnFacts
  <2>2. strong' \in [Objects -> Nat]
    BY <1>1, <1>8 DEF TypeOK
  <2>3. QED
    BY <1>1, <2>1, <2>2 DEF TypeOK
<1>10. AgendaOnce'
  <2>1. \A kind \in Final, x \in Objects : In(<<kind, x>>, z) => ~Waits(kind, x)
    BY <1>5, <1>8
  <2>2. QED
    BY <1>1, <1>5, <1>6, <2>1, TurnOnce
<1>11. AgendaOK'
  BY <1>1, <1>5, <1>6, TurnOrder
<1>12. ObjectOK(o)'
  <2>1. /\ Waits("destroy", o)' <=> last
        /\ Waits("release", o)' <=> last
        /\ ~Waits("free", o)'
    <3>1. /\ ~In(<<"destroy", o>>, p) /\ ~In(<<"release", o>>, p) /\ ~In(<<"free", o>>, p)
          /\ (In(<<"destroy", o>>, z) <=> last) /\ (In(<<"release", o>>, z) <=> last)
          /\ ~In(<<"free", o>>, z)
      BY <1>4, <1>5 DEF Final
    <3>2. QED
      BY <1>1, <1>6, <1>8, <3>1, TurnWaits
  <2>2. Deferred(o)' = Deferred(o) - f[o] /\ Deferred(o) \in Nat /\ Deferred(o)' \in Nat
    <3>1. /\ Deferred(o) \in Nat /\ Deferred(o)' \in Nat
          /\ map[t][o] \in Nat
          /\ Deferred(o)' + map[t][o] + Applied(p, o) = Deferred(o) + map'[t][o] + Applied(z, o)
      BY <1>1, <1>6, <1>9, TurnDeferred
    <3>2. Applied(p, o) = f[o] /\ Applied(z, o) = 0 /\ map'[t][o] = map[t][o]
      BY <1>1, <1>3, <1>5
    <3>3. Deferred(o)' + map[t][o] + f[o] = Deferred(o) + map[t][o] + 0
      BY <3>1, <3>2
    <3>4. QED
      BY <1>2, <3>1, <3>3
  <2>3. /\ memory'[o] = memory[o] /\ weak'[o] = weak[o]
        /\ strongs'[o] = strongs[o] /\ weaks'[o] = weaks[o]
    BY <1>1
  <2>4. Exact(o) /\ Valid(o) /\ LifeOK(o) /\ Cardinality(strongs[o]) \in Nat
    BY Counts
  <2>5. Exact(o)'
    <3>1. weak[o] = Cardinality(weaks[o]) + 1
      BY <1>8, <2>4 DEF Exact
    <3>2. strong'[o] = Cardinality(strongs[o]) + Deferred(o)'
      BY <1>2, <1>8, <2>2, <2>4
    <3>3. strong'[o] > 0 \/ Waits("destroy", o)' \/ Waits("release", o)'
      BY <1>8, <2>1
    <3>4. QED
      BY <2>3, <3>1, <3>2, <3>3 DEF Exact
  <2>6. Valid(o)'
    BY <1>8, <2>1, <2>2, <2>3, <2>4 DEF Valid
  <2>7. LifeOK(o)'
    BY <1>8, <2>1, <2>2, <2>3, <2>4 DEF LifeOK
  <2>8. QED
    BY <2>5, <2>6, <2>7 DEF ObjectOK
<1>13. ASSUME NEW x \in Objects, x # o PROVE ObjectOK(x)'
  <2>1. /\ memory'[x] = memory[x] /\ strong'[x] = strong[x] /\ weak'[x] = weak[x]
        /\ strongs'[x] = strongs[x] /\ weaks'[x] = weaks[x]
    BY <1>1, <1>13 DEF TypeOK
  <2>2. \A kind \in Final : ~In(<<kind, x>>, p) /\ ~In(<<kind, x>>, z)
    BY <1>4, <1>5, <1>13
  <2>3. Applied(z, x) = Applied(p, x) /\ ObjectOK(x)
    BY <1>3, <1>5, <1>13 DEF IInv
  <2>4. QED
    BY <1>1, <1>6, <1>9, <2>1, <2>2, <2>3, OtherObjects
<1>14. BufferOK' /\ UpgradeOK'
  BY <1>1, SameBuffers
<1>15. QED
  BY <1>8, <1>9, <1>10, <1>11, <1>12, <1>13, <1>14 DEF IInv
-----------------------------------------------------------------------------
(***************************************************************************)
(* The theorems.                                                           *)
(***************************************************************************)
LEMMA InitInv == Init => IInv
<1> SUFFICES ASSUME Init PROVE IInv
  OBVIOUS
<1>1. TypeOK
  BY TlcAssumption DEF Init, TypeOK, Nothing
<1>2. \A t \in Threads : agenda[t] = <<>> /\ map[t] = Nothing /\ ops_since_flush[t] = 0
  BY DEF Init
<1>3. ASSUME NEW o \in Objects PROVE ObjectOK(o)
  <2>1. /\ memory[o] = "unborn" /\ strongs[o] = {} /\ weaks[o] = {}
    BY DEF Init
  <2>2. Deferred(o) = 0
    <3> DEFINE f == [t \in Threads |-> ToApply(t, o)]
    <3>1. \A t \in Threads : ToApply(t, o) = 0
      BY <1>2, NothingFacts, AppliedFew DEF ToApply
    <3>2. f \in [Threads -> Nat] /\ \A t \in Threads : f[t] = 0
      BY <3>1
    <3>3. Sum(f) = 0
      <4> HIDE DEF f
      <4>1. QED
        BY <3>2, SumZero
    <3>4. QED
      BY <3>3 DEF Deferred
  <2>3. \A kind : ~Waits(kind, o)
    <3>1. \A t \in Threads : \A a : ~In(a, agenda[t])
      BY <1>2, InFew
    <3>2. QED
      BY <1>1, <3>1, WaitsIn DEF TypeOK
  <2>4. QED
    BY <2>1, <2>2, <2>3 DEF ObjectOK, Exact, Valid, LifeOK
<1>4. AgendaOnce /\ AgendaOK
  <2>1. \A t \in Threads : Len(agenda[t]) = 0
    BY <1>2
  <2>2. QED
    BY <2>1 DEF AgendaOnce, AgendaOK
<1>5. BufferOK
  BY <1>2, NothingFacts, TlcAssumption DEF BufferOK
<1>6. UpgradeOK
  BY DEF Init, UpgradeOK
<1>7. QED
  BY <1>1, <1>3, <1>4, <1>5, <1>6 DEF IInv

LEMMA StutterInv ==
  ASSUME IInv, UNCHANGED vars
  PROVE  IInv'
<1> USE DEF vars, handles, buffer
<1>1. /\ AgendaOnce' /\ AgendaOK'
      /\ \A kind, p : Waits(kind, p)' <=> Waits(kind, p)
      /\ \A p \in Objects : Deferred(p)' = Deferred(p)
  BY SameAgenda DEF IInv
<1>2. ASSUME NEW p \in Objects PROVE ObjectOK(p)'
  BY <1>1, Untouched DEF IInv
<1>3. TypeOK' /\ BufferOK' /\ UpgradeOK'
  BY DEF IInv, TypeOK, BufferOK, UpgradeOK
<1>4. QED
  BY <1>1, <1>2, <1>3 DEF IInv

LEMMA NextInv == IInv /\ [Next]_vars => IInv'
<1> SUFFICES ASSUME IInv, [Next]_vars PROVE IInv'
  OBVIOUS
<1>1. CASE UNCHANGED vars
  BY <1>1, StutterInv
<1>2. ASSUME NEW t \in Threads, NEW o \in Objects, NEW h \in Handles,
             NEW c \in Handles \cup {NoHandle}, New(t, o, h, c)
      PROVE  IInv'
  BY <1>2, NewInv
<1>3. ASSUME NEW t \in Threads, NEW o \in Objects, NEW h \in Handles, StrongClone(t, o, h)
      PROVE  IInv'
  BY <1>3, StrongCloneInv
<1>4. ASSUME NEW t \in Threads, NEW o \in Objects, NEW h \in Handles, WeakDowngrade(t, o, h)
      PROVE  IInv'
  BY <1>4, WeakDowngradeInv
<1>5. ASSUME NEW t \in Threads, NEW o \in Objects, NEW h \in Handles, StrongDrop(t, o, h)
      PROVE  IInv'
  BY <1>5, StrongDropInv
<1>6. ASSUME NEW t \in Threads, NEW o \in Objects, NEW h \in Handles, WeakDrop(t, o, h)
      PROVE  IInv'
  BY <1>6, WeakDropInv
<1>7. ASSUME NEW t \in Threads, NEW o \in Objects, NEW g \in Handles, NEW h \in Handles,
             UpgradeConsume(t, o, g, h)
      PROVE  IInv'
  BY <1>7, UpgradeConsumeInv
<1>8. ASSUME NEW t \in Threads, NEW o \in Objects, NEW g \in Handles, UpgradeLoad(t, o, g)
      PROVE  IInv'
  BY <1>8, LoadInv DEF UpgradeLoad
<1>9. ASSUME NEW t \in Threads, NEW h \in Handles, UpgradeExchange(t, h)
      PROVE  IInv'
  BY <1>9, UpgradeExchangeInv
<1>10. ASSUME NEW t \in Threads, UpgradeRetry(t)
       PROVE  IInv'
  BY <1>10, UpgradeRetryInv
<1>11. ASSUME NEW t \in Threads, NEW o \in Objects, ReleaseStrong(t, o)
       PROVE  IInv'
  BY <1>11, ReleaseStrongInv
<1>12. ASSUME NEW t \in Threads, NEW o \in Objects, DropField(t, o)
       PROVE  IInv'
  BY <1>12, DropFieldInv
<1>13. ASSUME NEW t \in Threads, Destroy(t)
       PROVE  IInv'
  BY <1>13, DestroyInv
<1>14. ASSUME NEW t \in Threads, ReleaseWeak(t)
       PROVE  IInv'
  BY <1>14, ReleaseWeakInv
<1>15. ASSUME NEW t \in Threads, Free(t)
       PROVE  IInv'
  BY <1>15, FreeInv
<1>16. ASSUME NEW t \in Threads, Exit(t)
       PROVE  IInv'
  BY <1>16, ExitInv
<1>17. QED
  BY <1>1, <1>2, <1>3, <1>4, <1>5, <1>6, <1>7, <1>8, <1>9, <1>10, <1>11, <1>12, <1>13, <1>14,
     <1>15, <1>16 DEF Next, Work

LEMMA Invariance == Spec => []IInv
  BY InitInv, NextInv, PTL DEF Spec

(* The variables have their types.                                         *)
THEOREM TypeCorrect == Spec => []TypeOK
<1>1. IInv => TypeOK
  BY DEF IInv
<1>2. QED
  BY <1>1, Invariance, PTL

(* No decrement is lost, applied twice or taken back twice, whatever       *)
(* thread cloned, dropped or upgraded which handle.                        *)
THEOREM CountsAreExact == Spec => []CountsExact
<1>1. IInv => CountsExact
  BY DEF IInv, ObjectOK, Exact, CountsExact
<1>2. QED
  BY <1>1, Invariance, PTL

(* Nothing is destroyed or freed while a handle, or a decrement that is    *)
(* yet to be applied, refers to it.                                        *)
THEOREM HandlesAreValid == Spec => []HandlesValid
<1>1. IInv => HandlesValid
  BY DEF IInv, ObjectOK, Valid, HandlesValid
<1>2. QED
  BY <1>1, Invariance, PTL

(* A thread defers less than the thresholds allow, however flushes and     *)
(* destructors nest.                                                       *)
THEOREM BuffersAreBounded == Spec => []BufferBounded
<1>1. IInv => BufferBounded
  <2> SUFFICES ASSUME IInv, NEW t \in Threads
               PROVE  Sum(map[t]) < FLUSH_OPS /\ Cardinality(Entries(map[t])) < FLUSH_ENTRIES
    BY DEF BufferBounded
  <2>1. /\ Sum(map[t]) <= ops_since_flush[t] /\ Cardinality(Entries(map[t])) < FLUSH_ENTRIES
    BY DEF IInv, BufferOK
  <2>2. map[t] \in [Objects -> Nat] /\ ops_since_flush[t] \in 0 .. FLUSH_OPS - 1
    BY DEF IInv, TypeOK
  <2>3. Sum(map[t]) \in Nat
    BY <2>2, SumNat, TlcAssumption
  <2>4. QED
    BY <2>1, <2>2, <2>3, TlcAssumption
<1>2. QED
  BY <1>1, Invariance, PTL
-----------------------------------------------------------------------------
(***************************************************************************)
(* The refinement: every step is a step of the contract, or invisible to   *)
(* it.  An object expires with the last decrement, not the last handle.    *)
(***************************************************************************)
LEMMA RefineInit == Init => Contract!Init
BY DEF Allocated, Lifetime, Init, Contract!Init

LEMMA SameLifetime ==
  ASSUME UNCHANGED memory,
         \A o \in Objects : memory[o] = "live" => (strong'[o] = 0 <=> strong[o] = 0)
  PROVE  Lifetime' = Lifetime /\ Allocated' = Allocated
BY DEF Lifetime, Allocated

LEMMA RefineNew ==
  ASSUME IInv, NEW t \in Threads, NEW o \in Objects, NEW h \in Handles,
         NEW c \in Handles \cup {NoHandle}, New(t, o, h, c)
  PROVE  Contract!New(o, h)
<1>1. /\ memory[o] = "unborn" /\ memory' = [memory EXCEPT ![o] = "live"]
      /\ strong' = [strong EXCEPT ![o] = 1]
      /\ strongs' = [strongs EXCEPT ![o] = {h}] /\ UNCHANGED weaks
      /\ Fresh(h)
  BY DEF New
<1>2. Lifetime[o] = "unborn" /\ Lifetime' = [Lifetime EXCEPT ![o] = "live"]
  <2>1. /\ memory'[o] = "live" /\ strong'[o] = 1
        /\ \A p \in Objects : p # o => memory'[p] = memory[p] /\ strong'[p] = strong[p]
    BY <1>1 DEF IInv, TypeOK
  <2>2. Lifetime[o] = "unborn" /\ Lifetime'[o] = "live"
    BY <1>1, <2>1 DEF Lifetime
  <2>3. \A p \in Objects : p # o => Lifetime'[p] = Lifetime[p]
    BY <2>1 DEF Lifetime
  <2>4. QED
    BY <2>2, <2>3 DEF Lifetime
<1>3. Allocated' = Allocated \cup {o}
  BY <1>1 DEF Allocated, IInv, TypeOK
<1>4. QED
  BY <1>1, <1>2, <1>3 DEF Contract!New, Fresh, Contract!Fresh

LEMMA RefineStrongClone ==
  ASSUME IInv, NEW t \in Threads, NEW o \in Objects, NEW h \in Handles, StrongClone(t, o, h)
  PROVE  Contract!StrongClone(o, h)
<1>1. strongs[o] # {} /\ strong[o] > 0
  BY ReachedLive DEF StrongClone
<1>2. UNCHANGED memory /\ (UNCHANGED strong \/ strong' = [strong EXCEPT ![o] = @ + 1])
  BY DEF StrongClone
<1>3. Lifetime' = Lifetime /\ Allocated' = Allocated
  BY <1>1, <1>2, SameLifetime DEF IInv, TypeOK
<1>4. QED
  BY <1>1, <1>3 DEF StrongClone, Contract!StrongClone, Fresh, Contract!Fresh

LEMMA RefineWeakDowngrade ==
  ASSUME IInv, NEW t \in Threads, NEW o \in Objects, NEW h \in Handles, WeakDowngrade(t, o, h)
  PROVE  Contract!WeakDowngrade(o, h)
<1>1. strongs[o] # {}
  BY ReachedLive DEF WeakDowngrade
<1>2. Lifetime' = Lifetime /\ Allocated' = Allocated
  BY SameLifetime DEF WeakDowngrade
<1>3. QED
  BY <1>1, <1>2 DEF WeakDowngrade, Contract!WeakDowngrade, Fresh, Contract!Fresh

(* The drop of a strong handle, by the program or by a destructor, never   *)
(* touches the shared counter.                                             *)
LEMMA RefineDrop ==
  ASSUME NEW t \in Threads, NEW o \in Objects, NEW h, NEW rest,
         h \in strongs[o], DropStrong(t, o, h, rest)
  PROVE  Contract!StrongDrop(o, h)
<1>1. strongs' = [strongs EXCEPT ![o] = @ \ {h}] /\ UNCHANGED <<strong, memory, weaks>>
  BY DEF DropStrong
<1>2. Lifetime' = Lifetime /\ Allocated' = Allocated
  BY <1>1, SameLifetime
<1>3. QED
  BY <1>1, <1>2 DEF Contract!StrongDrop

LEMMA RefineWeakDrop ==
  ASSUME NEW t \in Threads, NEW o \in Objects, NEW h \in Handles, WeakDrop(t, o, h)
  PROVE  Contract!WeakDrop(o, h)
<1>1. Lifetime' = Lifetime /\ Allocated' = Allocated
  BY SameLifetime DEF WeakDrop
<1>2. QED
  BY <1>1 DEF WeakDrop, Contract!WeakDrop

(* Both ways to upgrade find an object that has not expired: the counter   *)
(* still holds the decrement that is taken back, or what the exchange read.*)
LEMMA RefineUpgradeConsume ==
  ASSUME IInv, NEW t \in Threads, NEW o \in Objects, NEW g \in Handles, NEW h \in Handles,
         UpgradeConsume(t, o, g, h)
  PROVE  Contract!WeakUpgrade(o, h)
<1>1. IInv'
  BY UpgradeConsumeInv
<1>2. memory[o] = "live" /\ strong[o] > 0
  BY <1>1, ConsumedInv DEF UpgradeConsume, IInv
<1>3. Lifetime[o] = "live"
  BY <1>2 DEF Lifetime, IInv, TypeOK
<1>4. Lifetime' = Lifetime /\ Allocated' = Allocated
  BY SameLifetime DEF UpgradeConsume
<1>5. QED
  BY <1>3, <1>4 DEF UpgradeConsume, Contract!WeakUpgrade, Fresh, Contract!Fresh

LEMMA RefineUpgradeExchange ==
  ASSUME IInv, NEW t \in Threads, NEW h \in Handles, UpgradeExchange(t, h)
  PROVE  \E o \in Objects : Contract!WeakUpgrade(o, h)
<1> SUFFICES ASSUME NEW o, o = upgrade[t][1] PROVE o \in Objects /\ Contract!WeakUpgrade(o, h)
  OBVIOUS
<1>1. o \in Objects /\ weaks[o] # {} /\ strong[o] > 0 /\ memory[o] = "live"
  BY UpgradeOf, UpgradeExchangeInv DEF UpgradeExchange
<1>2. /\ UNCHANGED <<memory, weaks>> /\ Fresh(h)
      /\ strong' = [strong EXCEPT ![o] = strong[o] + 1]
      /\ strongs' = [strongs EXCEPT ![o] = @ \cup {h}]
  BY DEF UpgradeExchange
<1>3. Lifetime[o] = "live"
  BY <1>1 DEF Lifetime
<1>4. Lifetime' = Lifetime /\ Allocated' = Allocated
  BY <1>1, <1>2, SameLifetime DEF IInv, TypeOK
<1>5. QED
  BY <1>1, <1>2, <1>3, <1>4 DEF Contract!WeakUpgrade, Fresh, Contract!Fresh

(* The last decrement expires the object; the others are not seen.         *)
LEMMA RefineReleaseStrong ==
  ASSUME IInv, NEW t \in Threads, NEW o \in Objects, ReleaseStrong(t, o)
  PROVE  Contract!Expire(o) \/ UNCHANGED Contract!vars
<1>1. /\ memory[o] = "live" /\ strong[o] > 0
      /\ strong'[o] = 0 => strongs[o] = {}
  BY ReleaseStrongInv
<1>2. /\ UNCHANGED <<memory, strongs, weaks>>
      /\ \A p \in Objects : p # o => strong'[p] = strong[p]
  BY DEF ReleaseStrong, handles, IInv, TypeOK
<1>3. CASE strong'[o] = 0
  <2>1. strong[o] # 0
    BY <1>1 DEF IInv, TypeOK
  <2>2. Lifetime[o] = "live" /\ Lifetime'[o] = "expired"
    BY <1>1, <1>2, <1>3, <2>1 DEF Lifetime
  <2>3. \A p \in Objects : p # o => Lifetime'[p] = Lifetime[p]
    BY <1>2 DEF Lifetime
  <2>4. Lifetime' = [Lifetime EXCEPT ![o] = "expired"] /\ Allocated' = Allocated
    BY <1>2, <2>2, <2>3 DEF Lifetime, Allocated
  <2>5. strongs[o] = {}
    BY <1>1, <1>3
  <2>6. QED
    BY <1>2, <2>2, <2>4, <2>5 DEF Contract!Expire
<1>4. CASE strong'[o] # 0
  <2>1. Lifetime' = Lifetime /\ Allocated' = Allocated
    BY <1>1, <1>2, <1>4, SameLifetime
  <2>2. QED
    BY <1>2, <2>1 DEF Contract!vars
<1>5. QED
  BY <1>3, <1>4

LEMMA RefineDestroy ==
  ASSUME IInv, NEW t \in Threads, Destroy(t)
  PROVE  \E o \in Objects : Contract!Destroy(o)
<1> SUFFICES ASSUME NEW o, o = Subject(t) PROVE o \in Objects /\ Contract!Destroy(o)
  OBVIOUS
<1>1. /\ o \in Objects /\ memory[o] = "live" /\ strong[o] = 0
  BY DestroyInv, HeadTask DEF Destroy, IInv, Final
<1>2. memory' = [memory EXCEPT ![o] = "dropped"] /\ UNCHANGED <<strong, strongs, weaks>>
  BY DEF Destroy, handles
<1>3. /\ Lifetime[o] = "expired" /\ Lifetime' = [Lifetime EXCEPT ![o] = "dropped"]
      /\ Allocated' = Allocated
  BY <1>1, <1>2 DEF Lifetime, Allocated, IInv, TypeOK
<1>4. QED
  BY <1>1, <1>2, <1>3 DEF Contract!Destroy

LEMMA RefineFree ==
  ASSUME IInv, NEW t \in Threads, Free(t)
  PROVE  \E o \in Objects : Contract!Release(o)
<1> SUFFICES ASSUME NEW o, o = Subject(t) PROVE o \in Objects /\ Contract!Release(o)
  OBVIOUS
<1>1. /\ o \in Objects /\ memory[o] = "dropped" /\ weaks[o] = {}
  BY FreeInv, HeadTask DEF Free, IInv, Final
<1>2. memory' = [memory EXCEPT ![o] = "freed"] /\ UNCHANGED <<strong, strongs, weaks>>
  BY DEF Free, handles
<1>3. /\ o \in Allocated /\ Allocated' = Allocated \ {o}
      /\ Lifetime[o] = "dropped" /\ Lifetime' = Lifetime
  BY <1>1, <1>2 DEF Lifetime, Allocated, IInv, TypeOK
<1>4. QED
  BY <1>1, <1>2, <1>3 DEF Contract!Release

LEMMA RefineNext == IInv /\ [Next]_vars => [Contract!Next]_(Contract!vars)
<1> SUFFICES ASSUME IInv, [Next]_vars
             PROVE  Contract!Next \/ UNCHANGED Contract!vars
  OBVIOUS
<1>1. ASSUME UNCHANGED <<strong, memory, strongs, weaks>>
      PROVE  UNCHANGED Contract!vars
  BY <1>1, SameLifetime DEF Contract!vars
<1>2. CASE UNCHANGED vars
  BY <1>1, <1>2 DEF vars, handles
<1>3. ASSUME NEW t \in Threads, NEW o \in Objects, NEW h \in Handles,
             NEW c \in Handles \cup {NoHandle}, New(t, o, h, c)
      PROVE  Contract!Next
  BY <1>3, RefineNew DEF Contract!Next
<1>4. ASSUME NEW t \in Threads, NEW o \in Objects, NEW h \in Handles,
             StrongClone(t, o, h) \/ WeakDowngrade(t, o, h) \/ WeakDrop(t, o, h)
      PROVE  Contract!Next
  BY <1>4, RefineStrongClone, RefineWeakDowngrade, RefineWeakDrop DEF Contract!Next
<1>5. ASSUME NEW t \in Threads, NEW o \in Objects, NEW h \in Handles, StrongDrop(t, o, h)
      PROVE  Contract!Next
  BY <1>5, RefineDrop DEF StrongDrop, OwnedOf, Contract!Next
<1>6. ASSUME NEW t \in Threads, NEW o \in Objects, DropField(t, o)
      PROVE  Contract!Next
  <2>1. Subject(t) \in Handles
    BY <1>6 DEF DropField, IInv, TypeOK
  <2>2. Contract!StrongDrop(o, Subject(t))
    BY <1>6, RefineDrop DEF DropField
  <2>3. QED
    BY <2>1, <2>2 DEF Contract!Next
<1>7. ASSUME NEW t \in Threads, NEW o \in Objects, NEW g \in Handles, NEW h \in Handles,
             UpgradeConsume(t, o, g, h)
      PROVE  Contract!Next
  BY <1>7, RefineUpgradeConsume DEF Contract!Next
<1>8. ASSUME NEW t \in Threads, NEW h \in Handles, UpgradeExchange(t, h)
      PROVE  Contract!Next
  BY <1>8, RefineUpgradeExchange DEF Contract!Next
<1>9. ASSUME NEW t \in Threads, NEW o \in Objects, ReleaseStrong(t, o)
      PROVE  Contract!Next \/ UNCHANGED Contract!vars
  BY <1>9, RefineReleaseStrong DEF Contract!Next
<1>10. ASSUME NEW t \in Threads, Destroy(t) \/ Free(t)
       PROVE  Contract!Next
  BY <1>10, RefineDestroy, RefineFree DEF Contract!Next
<1>11. ASSUME NEW t \in Threads,
              \/ \E o \in Objects, g \in Handles : UpgradeLoad(t, o, g)
              \/ UpgradeRetry(t) \/ ReleaseWeak(t) \/ Exit(t)
       PROVE  UNCHANGED Contract!vars
  BY <1>1, <1>11 DEF UpgradeLoad, UpgradeRetry, ReleaseWeak, Exit, handles
<1>12. QED
  BY <1>2, <1>3, <1>4, <1>5, <1>6, <1>7, <1>8, <1>9, <1>10, <1>11 DEF Next, Work

(* tlc.rs implements the contract of the Reference traits: deferring and   *)
(* taking back decrements only moves the moment an object expires.         *)
THEOREM Refinement == Spec => ImplementsReference
<1>1. Spec => Contract!Init /\ [][Contract!Next]_(Contract!vars)
  BY RefineInit, RefineNext, Invariance, PTL DEF Spec
<1>2. QED
  BY <1>1 DEF ImplementsReference, Contract!Spec
=============================================================================
