--------------------------- MODULE RewriteProofs ---------------------------
(***************************************************************************)
(* A rewriting computes what rebuilding the whole tree computes, for any   *)
(* labels, shapes, rewriter and normalizer of the kind Rewrite describes,  *)
(* and any number of threads.                                              *)
(*                                                                         *)
(* The invariant: every node of a rewriting under way lives, because the   *)
(* input is held and each call is for a child of its caller's node         *)
(* (CallsOK); a result has the structure its field would have (ResultOK);  *)
(* no live node would collapse, because `new' made it (NoneCollapses).     *)
(***************************************************************************)
EXTENDS Rewrite, HeapProofs, SequenceTheorems

Field == [variant : Variants, ref : Nodes]

(* A result stands for the field it replaces.                              *)
ResultOK(n, k) == n \in Live /\ Type(n) = Type(k) /\ Tree[n] = RewrittenTree[k]

Over(n) == Relabel[node[n].label] # node[n].label

FrameOK(f) ==
  /\ f.of \in Live
  /\ Len(f.results) <= Len(node[f.of].fields)
  /\ Over(f.of) => f.results = <<>>
  /\ \A i \in 1 .. Len(f.results) :
        /\ f.results[i].variant = node[f.of].fields[i].variant
        /\ ResultOK(f.results[i].ref, node[f.of].fields[i].ref)

(* A call is for the next field of its caller's node.                      *)
CallOK(f, g) ==
  /\ ~Over(f.of)
  /\ Len(f.results) < Len(node[f.of].fields)
  /\ g.of = node[f.of].fields[Len(f.results) + 1].ref

CallsOK(x, frames) ==
  /\ frames \in Seq([of : Nodes, results : Seq(Field)])
  /\ frames # <<>> => frames[1].of = x
  /\ \A i \in 1 .. Len(frames) : FrameOK(frames[i])
  /\ \A i \in 1 .. Len(frames) - 1 : CallOK(frames[i], frames[i + 1])

FieldsOK(b) ==
  /\ b.label \in Labels
  /\ b = [label |-> b.label, fields |-> b.fields]
  /\ b.fields \in [1 .. Len(Shape[b.label]) -> Field \cup {NoField}]
  /\ \A i \in 1 .. Len(Shape[b.label]) :
        b.fields[i] # NoField => b.fields[i] \in Field /\ IsField(b.fields[i], Shape[b.label][i])

(* A thread has a call under way, or an answer, or neither.                *)
StageOK(x, frames, a) ==
  /\ x = NoNode => frames = <<>> /\ a = NoNode
  /\ a # NoNode => frames = <<>>

AnswerOK(x, a) == a # NoNode => ResultOK(a, x)

ThreadOK(t) ==
  /\ holds[t] \subseteq Live
  /\ builder[t] # NoBuilder => FieldsOK(builder[t])
  /\ input[t] # NoNode => input[t] \in holds[t]
  /\ StageOK(input[t], stack[t], answer[t])
  /\ CallsOK(input[t], stack[t])
  /\ AnswerOK(input[t], answer[t])

NoneCollapses == \A n \in Live : ~Collapses(node[n])

Typed ==
  /\ holds \in [Threads -> SUBSET Nodes]
  /\ DOMAIN builder = Threads /\ DOMAIN stack = Threads
  /\ input \in [Threads -> Nodes \cup {NoNode}]
  /\ answer \in [Threads -> Nodes \cup {NoNode}]
  /\ cache = [t \in Threads |-> [n \in Nodes |-> NoNode]]

IInv == HeapOK /\ Typed /\ NoneCollapses /\ \A t \in Threads : ThreadOK(t)

-----------------------------------------------------------------------------
(***************************************************************************)
(* What a rewriting computes.                                              *)
(***************************************************************************)
LEMMA RebuiltSame ==
  ASSUME NEW d \in AllData, NEW F, NEW G, \A k \in Refs(d) : F[k] = G[k]
  PROVE  Rebuilt(F, d) = Rebuilt(G, d)
BY SameUnfolded DEF Rebuilt

RewrittenDefined == RewrittenTree = [n \in Live |-> Rebuilt(RewrittenTree, node[n])]

LEMMA RewrittenExists == HeapOK => RewrittenDefined
<1> SUFFICES ASSUME HeapOK
             PROVE  RewrittenDefined
  OBVIOUS
<1>1. PICK b \in Nat : \E rank : Ranked(rank, b)
  BY DEF HeapOK, Acyclic
<1>2. PICK rank : Ranked(rank, b)
  BY <1>1
<1> DEFINE G(m) == \E g : g = [n \in Under(rank, m) |-> Rebuilt(g, node[n])]
           T == {m \in Nat : ~G(m)}
<1>3. ASSUME NEW m \in T, \A k \in T : m <= k PROVE FALSE
  <2>0. m \in Nat
    OBVIOUS
  <2>1. CASE m = 0
    <3>1. Under(rank, m) = {}
      BY <1>2, <2>0, <2>1 DEF Under, Live, Ranked
    <3>2. [n \in Under(rank, m) |-> 0] = [n \in Under(rank, m) |-> Rebuilt([p \in Under(rank, m) |-> 0], node[n])]
      BY <3>1
    <3>3. QED
      BY <3>2
  <2>2. CASE m # 0
    <3>1. m - 1 \in Nat /\ m - 1 < m
      BY <2>0, <2>2
    <3>2. G(m - 1)
      BY <1>3, <3>1
    <3>3. PICK f : f = [n \in Under(rank, m - 1) |-> Rebuilt(f, node[n])]
      BY <3>2
    <3>4. PICK g : g = [n \in Under(rank, m) |-> Rebuilt(f, node[n])]
      OBVIOUS
    <3>5. Under(rank, m - 1) \subseteq Under(rank, m)
      BY <1>2, <2>0, <3>1 DEF Under, Live, Ranked
    <3>6. \A n \in Under(rank, m - 1) : g[n] = f[n]
      BY <3>3, <3>4, <3>5
    <3>7. ASSUME NEW n \in Under(rank, m) PROVE Rebuilt(f, node[n]) = Rebuilt(g, node[n])
      <4>1. node[n] \in AllData /\ \A k \in Refs(node[n]) : g[k] = f[k]
        BY <1>2, <2>0, <3>6, KidsUnder DEF HeapOK
      <4>2. QED
        BY <4>1, RebuiltSame
    <3>8. g = [n \in Under(rank, m) |-> Rebuilt(g, node[n])]
      BY <3>4, <3>7
    <3>9. QED
      BY <3>8
  <2>3. QED
    BY <2>1, <2>2
<1>4. T = {}
  <2>1. T \in SUBSET Nat
    OBVIOUS
  <2> HIDE DEF T
  <2>2. QED
    BY <1>3, <2>1, Least
<1>5. Under(rank, b) = Live
  BY <1>2 DEF Under, Ranked, Live
<1>6. \E g : g = [n \in Live |-> Rebuilt(g, node[n])]
  BY <1>4, <1>5
<1>7. QED
  BY <1>6, Zenon DEF RewrittenTree, RewrittenDefined

LEMMA RewrittenKept ==
  ASSUME HeapOK, HeapOK', NEW C, Keeps(C)
  PROVE  \A n \in C : RewrittenTree'[n] = RewrittenTree[n]
<1>0. C \subseteq Live /\ C \subseteq Live' /\ \A n \in C : node'[n] = node[n] /\ Kids(n) \subseteq C
  BY DEF Keeps
<1> DEFINE S == {n \in C : RewrittenTree'[n] # RewrittenTree[n]}
<1>1. S = {}
  <2>1. S \in SUBSET Live
    BY <1>0
  <2>2. ASSUME NEW n \in S, \A k \in Kids(n) : k \notin S PROVE FALSE
    <3>1. n \in Live /\ n \in Live' /\ n \in C
      BY <1>0
    <3>2. node[n] \in AllData /\ Kids(n) = Refs(node[n]) /\ node'[n] = node[n]
      BY <1>0, <3>1, LiveIs DEF HeapOK
    <3>3. RewrittenTree[n] = Rebuilt(RewrittenTree, node[n])
      BY <3>1, RewrittenExists DEF RewrittenDefined
    <3>4. (RewrittenTree[n] = Rebuilt(RewrittenTree, node[n]))'
      <4>1. RewrittenDefined'
        BY RewrittenExists, PTL
      <4>2. QED
        BY <3>1, <4>1 DEF RewrittenDefined
    <3>5. \A k \in Refs(node[n]) : RewrittenTree'[k] = RewrittenTree[k]
      BY <1>0, <2>2, <3>1, <3>2
    <3>6. PICK F, G : F = RewrittenTree /\ G = RewrittenTree'
      OBVIOUS
    <3>7. Rebuilt(F, node[n]) = Rebuilt(G, node[n])
      BY <3>2, <3>5, <3>6, RebuiltSame
    <3>8. QED
      BY <3>2, <3>3, <3>4, <3>6, <3>7 DEF Rebuilt, Unfolded
  <2> HIDE DEF S
  <2>3. QED
    BY <2>1, <2>2, Lowest
<1>2. QED
  BY <1>1

-----------------------------------------------------------------------------
(***************************************************************************)
(* What the steps of others leave a thread.                                *)
(***************************************************************************)
LEMMA NodeIs ==
  ASSUME HeapOK, NEW n \in Live
  PROVE  /\ n \in Nodes /\ node[n] \in AllData /\ IsData(node[n])
         /\ node[n].fields \in Seq(Field) /\ Len(node[n].fields) = Len(Shape[node[n].label])
         /\ node[n].label \in Labels /\ DOMAIN node[n].fields = 1 .. Len(node[n].fields)
         /\ \A i \in 1 .. Len(node[n].fields) :
              /\ node[n].fields[i] \in Field
              /\ node[n].fields[i].ref \in Kids(n) /\ node[n].fields[i].ref \in Live
<1>1. n \in Nodes /\ node[n] \in AllData /\ IsData(node[n]) /\ Kids(n) = Refs(node[n])
      /\ Kids(n) \subseteq Live
  BY LiveIs DEF HeapOK
<1>2. PICK d \in AllData : d = node[n]
  BY <1>1
<1>3. d.fields \in Seq(Field) /\ Len(d.fields) = Len(Shape[d.label]) /\ d.label \in Labels
      /\ Len(d.fields) \in Nat /\ DOMAIN d.fields = 1 .. Len(d.fields)
  BY DataFields, DataIs DEF Field
<1>4. \A i \in 1 .. Len(d.fields) : d.fields[i] \in Field /\ d.fields[i].ref \in Refs(d)
  BY <1>3 DEF Refs
<1>5. QED
  BY <1>1, <1>2, <1>3, <1>4

LEMMA ResultKept ==
  ASSUME HeapOK, HeapOK', NEW C, Keeps(C), NEW n \in C, NEW k \in C, ResultOK(n, k)
  PROVE  ResultOK(n, k)'
<1>1. n \in Live' /\ Type(n)' = Type(n) /\ Type(k)' = Type(k) /\ Tree'[n] = Tree[n]
  BY KeptIs
<1>2. RewrittenTree'[k] = RewrittenTree[k]
  BY RewrittenKept
<1>3. QED
  BY <1>1, <1>2 DEF ResultOK

LEMMA FrameKept ==
  ASSUME HeapOK, HeapOK', NEW C, Keeps(C), NEW f \in [of : Nodes, results : Seq(Field)],
         f.of \in C, \A i \in 1 .. Len(f.results) : f.results[i].ref \in C,
         FrameOK(f)
  PROVE  FrameOK(f)'
<1>1. f.of \in Live' /\ node'[f.of] = node[f.of] /\ f.of \in Live
  BY KeptIs
<1>2. Len(f.results) \in Nat /\ \A i \in 1 .. Len(f.results) : f.results[i] \in Field
  <2>1. f.results \in Seq(Field)
    OBVIOUS
  <2>2. QED
    BY <2>1
<1>3. ASSUME NEW i \in 1 .. Len(f.results)
      PROVE  /\ f.results[i].variant = node'[f.of].fields[i].variant
             /\ \E k : k = node'[f.of].fields[i].ref /\ ResultOK(f.results[i].ref, k)'
  <2>1. PICK n, k : n = f.results[i].ref /\ k = node[f.of].fields[i].ref
    OBVIOUS
  <2>2. i \in 1 .. Len(node[f.of].fields)
    BY <1>1, <1>2, NodeIs DEF FrameOK
  <2>3. k \in C
    BY <1>1, <2>1, <2>2, NodeIs DEF Keeps
  <2>4. n \in C
    BY <2>1
  <2>5. ResultOK(n, k)
    BY <2>1 DEF FrameOK
  <2>6. ResultOK(n, k)'
    BY <2>3, <2>4, <2>5, ResultKept
  <2>7. QED
    BY <1>1, <2>1, <2>6 DEF FrameOK
<1>4. QED
  BY <1>1, <1>3 DEF FrameOK, Over

LEMMA CallKept ==
  ASSUME HeapOK, HeapOK', NEW C, Keeps(C), NEW f, NEW g, f.of \in C, CallOK(f, g)
  PROVE  CallOK(f, g)' /\ g.of \in C
<1>1. f.of \in Live /\ f.of \in Live' /\ node'[f.of] = node[f.of]
  BY KeptIs
<1>2. CallOK(f, g)'
  BY <1>1 DEF CallOK, Over
<1>3. g.of \in C
  BY <1>1, NodeIs DEF CallOK, Keeps
<1>4. QED
  BY <1>2, <1>3

LEMMA CallsKept ==
  ASSUME HeapOK, HeapOK', NEW C, Keeps(C), NEW x, NEW frames, CallsOK(x, frames),
         \A i \in 1 .. Len(frames) :
            /\ frames[i].of \in C
            /\ \A j \in 1 .. Len(frames[i].results) : frames[i].results[j].ref \in C
  PROVE  CallsOK(x, frames)'
<1>1. frames \in Seq([of : Nodes, results : Seq(Field)]) /\ Len(frames) \in Nat
  BY DEF CallsOK
<1>2. ASSUME NEW i \in 1 .. Len(frames)
      PROVE  FrameOK(frames[i])'
  <2>1. PICK f \in [of : Nodes, results : Seq(Field)] : f = frames[i]
    BY <1>1, ElementOfSeq
  <2>2. f.of \in C /\ FrameOK(f) /\ \A j \in 1 .. Len(f.results) : f.results[j].ref \in C
    BY <2>1 DEF CallsOK
  <2>3. FrameOK(f)'
    BY <2>2, FrameKept
  <2>4. QED
    BY <2>1, <2>3 DEF FrameOK, ResultOK, Over
<1>3. ASSUME NEW i \in 1 .. Len(frames) - 1
      PROVE  CallOK(frames[i], frames[i + 1])'
  <2>1. i \in 1 .. Len(frames)
    BY <1>1
  <2>2. PICK f, g : f = frames[i] /\ g = frames[i + 1]
    OBVIOUS
  <2>3. CallOK(f, g)'
    BY <2>1, <2>2, CallKept DEF CallsOK
  <2>4. QED
    BY <2>2, <2>3 DEF CallOK, Over
<1>4. QED
  BY <1>1, <1>2, <1>3 DEF CallsOK

LEMMA FieldsKept ==
  ASSUME HeapOK, HeapOK', NEW C, Keeps(C), NEW b, FieldsOK(b),
         \A i \in 1 .. Len(Shape[b.label]) : b.fields[i] # NoField => b.fields[i].ref \in C
  PROVE  FieldsOK(b)'
<1>1. ASSUME NEW i \in 1 .. Len(Shape[b.label]), b.fields[i] # NoField
      PROVE  IsField(b.fields[i], Shape[b.label][i])'
  <2>1. PICK n : n = b.fields[i].ref
    OBVIOUS
  <2>2. n \in Live' /\ Type(n)' = Type(n)
    BY <1>1, <2>1, KeptIs
  <2>3. QED
    BY <1>1, <2>1, <2>2 DEF FieldsOK, IsField
<1>2. QED
  BY <1>1 DEF FieldsOK

(* What a thread has references to, and the nodes its calls work on.       *)
UsesOnly(t, C) ==
  /\ holds[t] \subseteq C
  /\ answer[t] # NoNode => answer[t] \in C
  /\ builder[t] # NoBuilder =>
        \A i \in 1 .. Len(Shape[builder[t].label]) :
           builder[t].fields[i] # NoField => builder[t].fields[i].ref \in C
  /\ \A i \in 1 .. Len(stack[t]) :
        /\ stack[t][i].of \in C
        /\ \A j \in 1 .. Len(stack[t][i].results) : stack[t][i].results[j].ref \in C

Rests(t) ==
  /\ holds'[t] = holds[t] /\ builder'[t] = builder[t] /\ input'[t] = input[t]
  /\ stack'[t] = stack[t] /\ answer'[t] = answer[t]

LEMMA UsesLive ==
  ASSUME HeapOK, NEW t \in Threads, ThreadOK(t)
  PROVE  UsesOnly(t, Live)
<1>1. ASSUME NEW i \in 1 .. Len(stack[t])
      PROVE  /\ stack[t][i].of \in Live
             /\ \A j \in 1 .. Len(stack[t][i].results) : stack[t][i].results[j].ref \in Live
  BY DEF ThreadOK, CallsOK, FrameOK, ResultOK
<1>2. ASSUME NEW i \in 1 .. Len(Shape[builder[t].label]), builder[t] # NoBuilder,
             builder[t].fields[i] # NoField
      PROVE  builder[t].fields[i].ref \in Live
  BY <1>2 DEF ThreadOK, FieldsOK, IsField
<1>3. QED
  BY <1>1, <1>2 DEF ThreadOK, UsesOnly, AnswerOK, ResultOK

(* The parts of ThreadOK, for values that do not change.                   *)
LEMMA PartsKept ==
  ASSUME HeapOK, HeapOK', NEW C, Keeps(C), NEW t \in Threads, ThreadOK(t), UsesOnly(t, C),
         NEW h, NEW b, NEW x, NEW s, NEW a,
         h = holds[t], b = builder[t], x = input[t], s = stack[t], a = answer[t]
  PROVE  /\ h \subseteq Live'
         /\ b # NoBuilder => FieldsOK(b)'
         /\ CallsOK(x, s)' /\ AnswerOK(x, a)'
         /\ (x # NoNode => x \in h) /\ StageOK(x, s, a)
<1>1. h \subseteq Live'
  BY DEF UsesOnly, Keeps
<1>2. b # NoBuilder => FieldsOK(b)'
  BY FieldsKept DEF UsesOnly, ThreadOK
<1>3. CallsOK(x, s)'
  BY CallsKept DEF UsesOnly, ThreadOK
<1>4. AnswerOK(x, a)'
  <2>1. CASE a # NoNode
    <3>1. x \in C /\ a \in C
      BY <2>1 DEF ThreadOK, UsesOnly, StageOK
    <3>2. ResultOK(a, x)'
      BY <2>1, <3>1, ResultKept DEF ThreadOK, AnswerOK
    <3>3. QED
      BY <3>2 DEF AnswerOK
  <2>2. QED
    BY <2>1 DEF AnswerOK
<1>5. QED
  BY <1>1, <1>2, <1>3, <1>4 DEF ThreadOK

LEMMA PartsMake ==
  ASSUME NEW t \in Threads, NEW h, NEW b, NEW x, NEW s, NEW a,
         h = holds'[t], b = builder'[t], x = input'[t], s = stack'[t], a = answer'[t],
         h \subseteq Live', b # NoBuilder => FieldsOK(b)',
         CallsOK(x, s)', AnswerOK(x, a)', x # NoNode => x \in h, StageOK(x, s, a)
  PROVE  ThreadOK(t)'
<1>1. (builder[t] # NoBuilder => FieldsOK(builder[t]))'
  BY DEF FieldsOK, IsField
<1>2. CallsOK(input[t], stack[t])'
  BY DEF CallsOK
<1>3. AnswerOK(input[t], answer[t])'
  BY DEF AnswerOK, ResultOK
<1>4. QED
  BY <1>1, <1>2, <1>3 DEF ThreadOK, StageOK

LEMMA ThreadKept ==
  ASSUME HeapOK, HeapOK', NEW C, Keeps(C), NEW t \in Threads, ThreadOK(t), UsesOnly(t, C), Rests(t)
  PROVE  ThreadOK(t)'
<1>1. PICK h, b, x, s, a : h = holds[t] /\ b = builder[t] /\ x = input[t] /\ s = stack[t] /\ a = answer[t]
  OBVIOUS
<1>2. h = holds'[t] /\ b = builder'[t] /\ x = input'[t] /\ s = stack'[t] /\ a = answer'[t]
  BY <1>1 DEF Rests
<1>3. /\ h \subseteq Live'
      /\ b # NoBuilder => FieldsOK(b)'
      /\ CallsOK(x, s)' /\ AnswerOK(x, a)'
      /\ (x # NoNode => x \in h) /\ StageOK(x, s, a)
  BY <1>1, PartsKept
<1>4. QED
  BY <1>2, <1>3, PartsMake

(* A step that adds nodes, or none.                                        *)
LEMMA PartsGrow ==
  ASSUME HeapOK, HeapOK', Grows, NEW t \in Threads, ThreadOK(t),
         NEW h, NEW b, NEW x, NEW s, NEW a,
         h = holds[t], b = builder[t], x = input[t], s = stack[t], a = answer[t]
  PROVE  /\ h \subseteq Live'
         /\ b # NoBuilder => FieldsOK(b)'
         /\ CallsOK(x, s)' /\ AnswerOK(x, a)'
         /\ (x # NoNode => x \in h) /\ StageOK(x, s, a)
BY GrowsKeeps, UsesLive, PartsKept

LEMMA ThreadGrows ==
  ASSUME HeapOK, HeapOK', Grows, NEW t \in Threads, ThreadOK(t), Rests(t)
  PROVE  ThreadOK(t)'
BY GrowsKeeps, UsesLive, ThreadKept

LEMMA FieldsGrow ==
  ASSUME HeapOK, HeapOK', Grows, NEW b, FieldsOK(b)
  PROVE  FieldsOK(b)'
<1>1. \A i \in 1 .. Len(Shape[b.label]) : b.fields[i] # NoField => b.fields[i].ref \in Live
  BY DEF FieldsOK, IsField
<1>2. QED
  BY <1>1, GrowsKeeps, FieldsKept

LEMMA CallsGrow ==
  ASSUME HeapOK, HeapOK', Grows, NEW x, NEW frames, CallsOK(x, frames)
  PROVE  CallsOK(x, frames)'
<1>1. \A i \in 1 .. Len(frames) :
        /\ frames[i].of \in Live
        /\ \A j \in 1 .. Len(frames[i].results) : frames[i].results[j].ref \in Live
  BY DEF CallsOK, FrameOK, ResultOK
<1>2. QED
  BY <1>1, GrowsKeeps, CallsKept

LEMMA Still ==
  ASSUME HeapOK, NoneCollapses, UNCHANGED node
  PROVE  HeapOK' /\ NoneCollapses' /\ Grows /\ Live' = Live
<1>1. Live' = Live
  BY DEF Live
<1>2. HeapOK'
  BY <1>1 DEF HeapOK, HeapTypeOK, Acyclic, Ranked, Unique, Kids, IsData, IsField, Type
<1>3. NoneCollapses' /\ Grows
  BY <1>1 DEF NoneCollapses, Collapses, Grows
<1>4. QED
  BY <1>1, <1>2, <1>3
-----------------------------------------------------------------------------
(***************************************************************************)
(* `new'.                                                                  *)
(***************************************************************************)
LEMMA UnfoldedIs ==
  ASSUME HeapOK, NEW d \in AllData, NEW F
  PROVE  /\ Unfolded(F, d).label = d.label
         /\ Unfolded(F, d) = [label |-> d.label, fields |-> Unfolded(F, d).fields]
         /\ Len(Unfolded(F, d).fields) = Len(d.fields)
         /\ DOMAIN Unfolded(F, d).fields = 1 .. Len(d.fields) /\ Len(d.fields) \in Nat
         /\ \A i \in 1 .. Len(d.fields) :
              Unfolded(F, d).fields[i] = [variant |-> d.fields[i].variant, ref |-> F[d.fields[i].ref]]
<1>1. PICK m \in Nat : m = Len(d.fields)
  BY DataIs, DataFields
<1>2. DOMAIN d.fields = 1 .. m
  BY <1>1, DataIs, DataFields
<1>3. PICK g : g = [i \in 1 .. m |-> [variant |-> d.fields[i].variant, ref |-> F[d.fields[i].ref]]]
  OBVIOUS
<1>4. Len(g) = m /\ DOMAIN g = 1 .. m
  BY <1>3
<1>5. Unfolded(F, d) = [label |-> d.label, fields |-> g]
  BY <1>2, <1>3 DEF Unfolded
<1>6. QED
  BY <1>1, <1>3, <1>4, <1>5

(* On structure, a node collapses when its data does.                      *)
LEMMA CollapsesIs ==
  ASSUME HeapOK, NEW d \in AllData, IsData(d)
  PROVE  Collapses(Unfolded(Tree, d)) <=> Collapses(d)
<1>1. PICK u : u = Unfolded(Tree, d)
  OBVIOUS
<1>2. Len(u.fields) = Len(d.fields)
  BY <1>1, UnfoldedIs
<1>3. CASE Len(d.fields) = 2
  <2>1. /\ u.fields[1] = [variant |-> d.fields[1].variant, ref |-> Tree[d.fields[1].ref]]
        /\ u.fields[2] = [variant |-> d.fields[2].variant, ref |-> Tree[d.fields[2].ref]]
    <3>1. 1 \in 1 .. Len(d.fields) /\ 2 \in 1 .. Len(d.fields)
      BY <1>3
    <3>2. QED
      BY <1>1, <3>1, UnfoldedIs
  <2>2. d.fields[1].ref \in Live /\ d.fields[2].ref \in Live
    <3>1. DOMAIN d.fields = 1 .. 2
      BY <1>3, DataIs, DataFields
    <3>2. QED
      BY <3>1 DEF IsData, IsField
  <2>3. Tree[d.fields[1].ref] = Tree[d.fields[2].ref] <=> d.fields[1].ref = d.fields[2].ref
    BY <2>2, TreeInjective
  <2>4. QED
    BY <1>1, <1>2, <1>3, <2>1, <2>3 DEF Collapses
<1>4. QED
  BY <1>1, <1>2, <1>3 DEF Collapses

Answers(n, d) ==
  /\ n \in Live'
  /\ Type(n)' = TypeOf[d.label]
  /\ Tree'[n] = NewTree(Unfolded(Tree, d))

LEMMA NewOK ==
  ASSUME HeapOK, NoneCollapses, NEW d \in AllData, IsData(d), Interned(d)
  PROVE  HeapOK' /\ NoneCollapses' /\ Grows /\ \E n : n = new(d) /\ Answers(n, d)
<1>1. CASE Collapses(d)
  <2>1. UNCHANGED node /\ new(d) = d.fields[1].ref
    BY <1>1 DEF Interned, new
  <2>2. PICK k : k = d.fields[1].ref
    OBVIOUS
  <2>3. Len(d.fields) = 2 /\ d.fields[2].variant = Transparent /\ d.fields[2].ref = k
    BY <1>1, <2>2 DEF Collapses
  <2>4. Len(Shape[d.label]) = 2 /\ DOMAIN d.fields = 1 .. 2 /\ d.label \in Labels
    BY <2>3, DataIs, DataFields
  <2>5. k \in Live /\ <<Transparent, Type(k)>> \in Shape[d.label][2]
    BY <2>3, <2>4 DEF IsData, IsField
  <2>6. Type(k) = TypeOf[d.label]
    BY <2>4, <2>5, RewriteAssumption
  <2>7. NewTree(Unfolded(Tree, d)) = Tree[k]
    <3>1. Unfolded(Tree, d).fields[1] = [variant |-> d.fields[1].variant, ref |-> Tree[k]]
      <4>1. 1 \in 1 .. Len(d.fields)
        BY <2>3
      <4>2. QED
        BY <2>2, <4>1, UnfoldedIs
    <3>2. QED
      BY <1>1, <3>1, CollapsesIs DEF NewTree
  <2>8. Grows
    BY <2>1 DEF Grows, Live
  <2>9. HeapOK'
    BY <2>1 DEF HeapOK, HeapTypeOK, Acyclic, Ranked, Unique, Live, Kids, IsData, IsField, Type
  <2>10. NoneCollapses'
    BY <2>1 DEF NoneCollapses, Live, Collapses
  <2>11. k \in Live' /\ Type(k)' = Type(k) /\ Tree'[k] = Tree[k]
    BY <2>5, <2>8, <2>9, GrowsKeeps, KeptIs
  <2>12. QED
    BY <2>1, <2>2, <2>6, <2>7, <2>8, <2>9, <2>10, <2>11 DEF Answers
<1>2. CASE ~Collapses(d)
  <2>1. Store(d) /\ new(d) = hashcons(d)
    BY <1>2 DEF Interned, new, spawn
  <2>2. PICK h : h = hashcons(d)
    OBVIOUS
  <2>3. HeapOK'
    BY <2>1, StoreOK
  <2>4. Grows /\ h \in Live' /\ node'[h] = d
    BY <2>1, <2>2, StoreAnswers DEF HeapOK
  <2>5. Live' = Live \/ Live' = Live \cup {h}
    BY <2>1, <2>2, StoreAnswers DEF HeapOK, Store, Live
  <2>6. NoneCollapses'
    BY <1>2, <2>4, <2>5 DEF NoneCollapses, Collapses, Grows
  <2>7. Type(h)' = TypeOf[d.label]
    BY <2>4 DEF Type
  <2>8. (Tree[h] = Unfolded(Tree, node[h]))'
    <3>1. TreeDefined'
      BY <2>3, TreeExists, PTL
    <3>2. QED
      BY <2>4, <3>1 DEF TreeDefined
  <2>9. \A k \in Refs(d) : Tree'[k] = Tree[k]
    <3>1. Refs(d) \subseteq Live
      BY DEF IsData, IsField, Refs
    <3>2. QED
      BY <2>3, <2>4, <3>1, GrowsKeeps, KeptIs
  <2>10. Tree'[h] = Unfolded(Tree, d)
    <3>1. PICK F, G : F = Tree /\ G = Tree'
      OBVIOUS
    <3>2. Unfolded(F, d) = Unfolded(G, d)
      BY <2>9, <3>1, SameUnfolded
    <3>3. QED
      BY <2>4, <2>8, <3>1, <3>2 DEF Unfolded
  <2>11. NewTree(Unfolded(Tree, d)) = Unfolded(Tree, d)
    BY <1>2, CollapsesIs DEF NewTree
  <2>12. QED
    BY <2>1, <2>2, <2>3, <2>4, <2>6, <2>7, <2>10, <2>11 DEF Answers
<1>3. QED
  BY <1>1, <1>2

-----------------------------------------------------------------------------
(***************************************************************************)
(* The calls.                                                              *)
(***************************************************************************)
(* A leaf the user's rewriter replaces.                                    *)
LEMMA RelabelledIs ==
  ASSUME HeapOK, NEW n \in Live, Over(n), NEW d, d = [node[n] EXCEPT !.label = Relabel[@]]
  PROVE  /\ d \in AllData /\ IsData(d) /\ TypeOf[d.label] = Type(n)
         /\ RewrittenTree[n] = NewTree(Unfolded(Tree, d))
<1>1. PICK c \in AllData : c = node[n]
  BY NodeIs
<1>2. PICK l, m : l = c.label /\ m = Relabel[l]
  OBVIOUS
<1>3. l \in Labels /\ m \in Labels /\ TypeOf[m] = TypeOf[l] /\ Len(Shape[l]) = 0 /\ Len(Shape[m]) = 0
  BY <1>1, <1>2, DataIs, RewriteAssumption DEF Over
<1>4. DOMAIN Shape[l] = {} /\ DOMAIN Shape[m] = {} /\ DOMAIN c.fields = {}
  BY <1>2, <1>3, DataIs, HeapAssumption
<1>5. d = [label |-> m, fields |-> c.fields]
  BY <1>1, <1>2, DataIs
<1>6. c.fields \in [DOMAIN Shape[m] -> [variant : Variants, ref : Nodes]]
  <2>1. c.fields \in [1 .. Len(Shape[l]) -> [variant : Variants, ref : Nodes]]
    BY <1>2, DataIs
  <2>2. 1 .. Len(Shape[l]) = DOMAIN Shape[m]
    BY <1>3, <1>4
  <2>3. QED
    BY <2>1, <2>2
<1>7. d \in AllData
  BY <1>3, <1>5, <1>6 DEF AllData, DataOver
<1>8. IsData(d) /\ TypeOf[d.label] = Type(n)
  BY <1>1, <1>2, <1>3, <1>4, <1>5 DEF IsData, Type
<1>9. PICK F, G : F = Tree /\ G = RewrittenTree
  OBVIOUS
<1>10. Unfolded(F, d).fields = Unfolded(G, c).fields
  BY <1>4, <1>5 DEF Unfolded
<1>11. Unfolded(F, d) = [label |-> Relabel[c.label], fields |-> Unfolded(G, c).fields]
  BY <1>2, <1>5, <1>7, <1>10, UnfoldedIs
<1>12. RewrittenTree[n] = Rebuilt(G, c)
  BY <1>1, <1>9, RewrittenExists DEF RewrittenDefined
<1>13. QED
  BY <1>7, <1>8, <1>9, <1>11, <1>12 DEF Rebuilt

(* All the fields are done.                                                *)
LEMMA ResultsAre ==
  ASSUME HeapOK, NEW f \in [of : Nodes, results : Seq(Field)], FrameOK(f), ~Over(f.of),
         Len(f.results) = Len(node[f.of].fields),
         NEW d, d = [node[f.of] EXCEPT !.fields = f.results]
  PROVE  /\ d \in AllData /\ IsData(d) /\ TypeOf[d.label] = Type(f.of)
         /\ RewrittenTree[f.of] = NewTree(Unfolded(Tree, d))
<1>0. f.of \in Live /\ f.results \in Seq(Field)
  BY DEF FrameOK
<1>1. PICK c \in AllData : c = node[f.of]
  BY <1>0, NodeIs
<1>2. PICK m \in Nat, l \in Labels : m = Len(c.fields) /\ l = c.label
  BY DataFields, DataIs
<1>3. /\ Len(Shape[l]) = m /\ DOMAIN Shape[l] = 1 .. m /\ DOMAIN c.fields = 1 .. m
      /\ c = [label |-> l, fields |-> c.fields]
  BY <1>2, DataFields, DataIs, HeapAssumption
<1>4. d = [label |-> l, fields |-> f.results]
  BY <1>1, <1>3
<1>5. Len(f.results) = m /\ DOMAIN f.results = 1 .. m /\ f.results \in [1 .. m -> Field]
  BY <1>0, <1>1, <1>2
<1>6. d \in AllData
  <2>1. d \in [label : {l}, fields : [DOMAIN Shape[l] -> [variant : Variants, ref : Nodes]]]
    BY <1>3, <1>4, <1>5 DEF Field
  <2>2. QED
    BY <2>1 DEF AllData, DataOver
<1>7. ASSUME NEW i \in 1 .. m
      PROVE  /\ f.results[i].variant = c.fields[i].variant
             /\ f.results[i].ref \in Live /\ Type(f.results[i].ref) = Type(c.fields[i].ref)
             /\ Tree[f.results[i].ref] = RewrittenTree[c.fields[i].ref]
             /\ IsField(c.fields[i], Shape[l][i])
  <2>1. /\ f.results[i].variant = c.fields[i].variant
        /\ ResultOK(f.results[i].ref, c.fields[i].ref)
    BY <1>1, <1>5 DEF FrameOK
  <2>2. IsData(c)
    BY <1>0, <1>1, NodeIs
  <2>3. IsField(c.fields[i], Shape[l][i])
    BY <1>2, <1>3, <2>2 DEF IsData
  <2>4. QED
    BY <2>1, <2>3 DEF ResultOK
<1>8. IsData(d)
  <2>1. \A i \in 1 .. m : IsField(f.results[i], Shape[l][i])
    BY <1>7 DEF IsField
  <2>2. QED
    BY <1>3, <1>4, <1>5, <2>1 DEF IsData
<1>9. PICK F, G : F = Tree /\ G = RewrittenTree
  OBVIOUS
<1>10. [i \in 1 .. m |-> [variant |-> f.results[i].variant, ref |-> F[f.results[i].ref]]]
         = [i \in 1 .. m |-> [variant |-> c.fields[i].variant, ref |-> G[c.fields[i].ref]]]
  BY <1>7, <1>9
<1>11. Unfolded(F, d) = [label |-> l, fields |-> Unfolded(G, c).fields]
  <2>1. Unfolded(F, d).fields = Unfolded(G, c).fields
    BY <1>3, <1>4, <1>5, <1>10 DEF Unfolded
  <2>2. QED
    BY <1>4, <1>6, <2>1, UnfoldedIs
<1>12. Relabel[c.label] = l
  BY <1>1, <1>2 DEF Over
<1>13. RewrittenTree[f.of] = Rebuilt(G, c)
  BY <1>0, <1>1, <1>9, RewrittenExists DEF RewrittenDefined
<1>14. TypeOf[d.label] = Type(f.of)
  BY <1>1, <1>2, <1>4 DEF Type
<1>15. QED
  BY <1>6, <1>8, <1>9, <1>11, <1>12, <1>13, <1>14 DEF Rebuilt

(* A node none of whose fields changed is its own rewriting: it did not    *)
(* collapse when it was made.                                              *)
LEMMA UnchangedIs ==
  ASSUME HeapOK, NoneCollapses, NEW f \in [of : Nodes, results : Seq(Field)], FrameOK(f), ~Over(f.of),
         f.results = node[f.of].fields
  PROVE  ResultOK(f.of, f.of)
<1>0. f.of \in Live
  BY DEF FrameOK
<1>1. PICK c \in AllData : c = node[f.of] /\ IsData(c)
  BY <1>0, NodeIs
<1>2. c = [node[f.of] EXCEPT !.fields = f.results]
  BY <1>1, DataIs
<1>3. RewrittenTree[f.of] = NewTree(Unfolded(Tree, c))
  BY <1>2, ResultsAre
<1>4. ~Collapses(Unfolded(Tree, c))
  BY <1>0, <1>1, CollapsesIs DEF NoneCollapses
<1>5. Tree[f.of] = Unfolded(Tree, c)
  BY <1>0, <1>1, TreeIs
<1>6. QED
  BY <1>0, <1>3, <1>4, <1>5 DEF NewTree, ResultOK
-----------------------------------------------------------------------------
(***************************************************************************)
(* What a thread's own steps leave it.                                     *)
(***************************************************************************)
(* An answer becomes the result of the field the caller asked for.         *)
CallersTakeAnswers ==
  \A x, frames, n, delivered :
    /\ CallsOK(x, frames) /\ Len(frames) > 1
    /\ ResultOK(n, frames[Len(frames)].of)
    /\ delivered = Delivers(SubSeq(frames, 1, Len(frames) - 1), n)
    => CallsOK(x, delivered)

LEMMA Delivery == HeapOK => CallersTakeAnswers
<1> SUFFICES ASSUME HeapOK, NEW x, NEW frames, NEW n,
                    CallsOK(x, frames), Len(frames) > 1, ResultOK(n, frames[Len(frames)].of)
             PROVE  CallsOK(x, Delivers(SubSeq(frames, 1, Len(frames) - 1), n))
  BY DEF CallersTakeAnswers
<1> DEFINE Frames == [of : Nodes, results : Seq(Field)]
<1>1. frames \in Seq(Frames)
  BY DEF CallsOK
<1>1a. \A f \in Frames : f = [of |-> f.of, results |-> f.results] /\ f.results \in Seq(Field)
  OBVIOUS
<1>1b. \A a \in Nodes, r \in Seq(Field) : [of |-> a, results |-> r] \in Frames
  OBVIOUS
<1> HIDE DEF Frames
<1>1c. Len(frames) \in Nat
  BY <1>1
<1>2. PICK m \in Nat : m = Len(frames) - 1 /\ m > 0
  BY <1>1c
<1>3. PICK callers : callers = SubSeq(frames, 1, m)
  OBVIOUS
<1>4. callers \in Seq(Frames) /\ Len(callers) = m /\ \A i \in 1 .. m : callers[i] = frames[i]
  BY <1>1, <1>2, <1>3
<1>5. PICK c \in Frames, g \in Frames : c = frames[m] /\ g = frames[m + 1]
  <2>1. m \in 1 .. Len(frames) /\ m + 1 \in 1 .. Len(frames)
    BY <1>1c, <1>2
  <2>2. QED
    BY <1>1, <2>1, ElementOfSeq
<1>6. FrameOK(c) /\ CallOK(c, g) /\ c = callers[m]
  BY <1>1c, <1>2, <1>4, <1>5 DEF CallsOK
<1>7. c.of \in Live /\ c.results \in Seq(Field) /\ Len(c.results) \in Nat /\ ~Over(c.of)
      /\ Len(c.results) < Len(node[c.of].fields)
      /\ g.of = node[c.of].fields[Len(c.results) + 1].ref
  <2>1. c.results \in Seq(Field)
    BY <1>1a
  <2>2. c.of \in Live
    BY <1>6 DEF FrameOK
  <2>3. /\ ~Over(c.of) /\ Len(c.results) < Len(node[c.of].fields)
        /\ g.of = node[c.of].fields[Len(c.results) + 1].ref
    BY <1>6 DEF CallOK
  <2>4. QED
    BY <2>1, <2>2, <2>3
<1>8. PICK k \in Nat : k = Len(c.results) + 1
  BY <1>7
<1>9. k \in 1 .. Len(node[c.of].fields) /\ Len(node[c.of].fields) \in Nat
  BY <1>7, <1>8, NodeIs
<1>10. node[c.of].fields[k] \in Field
  BY <1>7, <1>9, NodeIs
<1>11. PICK e : e = [variant |-> node[c.of].fields[k].variant, ref |-> n]
  OBVIOUS
<1>12. ResultOK(n, g.of) /\ n \in Nodes
  BY <1>1c, <1>2, <1>5 DEF ResultOK, Live
<1>13. e \in Field
  BY <1>10, <1>11, <1>12 DEF Field
<1>14. PICK r : r = Append(c.results, e)
  OBVIOUS
<1>15. r \in Seq(Field) /\ Len(r) = k /\ r[k] = e /\ \A i \in 1 .. k - 1 : r[i] = c.results[i]
  BY <1>7, <1>8, <1>13, <1>14
<1>16. PICK h : h = [of |-> c.of, results |-> r]
  OBVIOUS
<1>17. h \in Frames
  BY <1>1b, <1>7, <1>15, <1>16 DEF Live
<1>18. FrameOK(h)
  <2>1. ASSUME NEW i \in 1 .. k
        PROVE  /\ r[i].variant = node[c.of].fields[i].variant
               /\ ResultOK(r[i].ref, node[c.of].fields[i].ref)
    <3>1. CASE i = k
      <4>1. r[i] = e
        BY ONLY <1>15, <3>1
      <4>2. e.variant = node[c.of].fields[i].variant /\ e.ref = n
        BY ONLY <1>11, <3>1
      <4>3. g.of = node[c.of].fields[i].ref
        BY ONLY <1>7, <1>8, <3>1
      <4>4. QED
        BY ONLY <1>12, <4>1, <4>2, <4>3
    <3>2. CASE i # k
      <4>1. i \in 1 .. Len(c.results) /\ r[i] = c.results[i]
        BY <1>7, <1>8, <1>15, <3>2
      <4>2. QED
        BY <1>6, <4>1 DEF FrameOK
    <3>3. QED
      BY <3>1, <3>2
  <2>2. QED
    <3>1. h.of = c.of /\ h.results = r
      BY ONLY <1>16
    <3>2. Len(r) = k /\ k <= Len(node[c.of].fields) /\ ~Over(c.of) /\ c.of \in Live
      BY ONLY <1>7, <1>9, <1>15
    <3>3. QED
      BY ONLY <2>1, <3>1, <3>2 DEF FrameOK
<1>19. PICK s : s = [callers EXCEPT ![m] = h]
  OBVIOUS
<1>20. s \in Seq(Frames) /\ Len(s) = m /\ s[m] = h /\ \A i \in 1 .. m - 1 : s[i] = frames[i]
  BY <1>2, <1>4, <1>17, <1>19
<1>21. Delivers(callers, n) = s
  <2>1. [c EXCEPT !.results = Append(@, e)] = h
    <3>1. c = [of |-> c.of, results |-> c.results]
      BY <1>1a
    <3>2. PICK a, q : a = c.of /\ q = c.results
      OBVIOUS
    <3>3. [[of |-> a, results |-> q] EXCEPT !.results = Append(@, e)] = [of |-> a, results |-> Append(q, e)]
      OBVIOUS
    <3>4. QED
      BY <1>14, <1>16, <3>1, <3>2, <3>3
  <2>2. [callers EXCEPT ![m] = [c EXCEPT !.results = Append(@, e)]] = s
    BY <1>19, <2>1
  <2>3. QED
    BY <1>4, <1>6, <1>8, <1>11, <2>2, Zenon DEF Delivers
<1>22. ASSUME NEW i \in 1 .. m PROVE FrameOK(s[i])
  <2>1. CASE i = m
    BY <1>18, <1>20, <2>1
  <2>2. CASE i # m
    <3>1. i \in 1 .. Len(frames) /\ s[i] = frames[i]
      BY <1>1c, <1>2, <1>20, <2>2
    <3>2. QED
      BY <3>1 DEF CallsOK
  <2>3. QED
    BY <2>1, <2>2
<1>23. s # <<>> /\ s[1].of = x
  <2>1. frames # <<>>
    BY <1>1c
  <2>2. frames[1].of = x
    BY <2>1 DEF CallsOK
  <2>3. s[1].of = frames[1].of
    <3>1. CASE m = 1
      BY <1>5, <1>16, <1>20, <3>1
    <3>2. CASE m # 1
      BY <1>2, <1>20, <3>2
    <3>3. QED
      BY <3>1, <3>2
  <2>4. s # <<>>
    BY <1>2, <1>20
  <2>5. QED
    BY <2>2, <2>3, <2>4
<1>24. ASSUME NEW i \in 1 .. m - 1 PROVE CallOK(s[i], s[i + 1])
  <2>1. CallOK(frames[i], frames[i + 1])
    <3>1. i \in 1 .. Len(frames) - 1
      BY <1>1c, <1>2
    <3>2. QED
      BY <3>1 DEF CallsOK
  <2>2. s[i] = frames[i] /\ s[i + 1].of = frames[i + 1].of
    <3>0. s[i] = frames[i]
      BY <1>20
    <3>1. CASE i + 1 = m
      BY <1>5, <1>16, <1>20, <3>0, <3>1
    <3>2. CASE i + 1 # m
      <4>1. i + 1 \in 1 .. m - 1
        BY <1>2, <3>2
      <4>2. QED
        BY <1>20, <3>0, <4>1
    <3>3. QED
      BY <3>1, <3>2
  <2>3. QED
    BY <2>1, <2>2 DEF CallOK
<1>25. CallsOK(x, s)
  BY <1>20, <1>22, <1>23, <1>24 DEF CallsOK, Frames
<1>26. QED
  BY <1>2, <1>3, <1>21, <1>25

LEMMA FirstCall ==
  ASSUME HeapOK, NEW x \in Live
  PROVE  CallsOK(x, <<Frame(x)>>)
<1>1. PICK f : f = [of |-> x, results |-> <<>>]
  OBVIOUS
<1>2. f \in [of : Nodes, results : Seq(Field)] /\ f = Frame(x) /\ f.results = <<>> /\ f.of = x
  BY <1>1 DEF Live, Frame
<1>3. Len(node[x].fields) \in Nat
  BY NodeIs
<1>4. FrameOK(f)
  BY <1>2, <1>3 DEF FrameOK
<1>5. PICK s : s = <<f>>
  OBVIOUS
<1>6. s \in Seq([of : Nodes, results : Seq(Field)]) /\ Len(s) = 1 /\ s[1] = f
  BY <1>2, <1>5
<1>7. CallsOK(x, s)
  BY <1>2, <1>4, <1>6 DEF CallsOK
<1>8. QED
  BY <1>2, <1>5, <1>7

LEMMA NextCall ==
  ASSUME HeapOK, NEW x, NEW frames, CallsOK(x, frames), NEW f, frames # <<>>, f = frames[Len(frames)],
         ~Over(f.of), Len(f.results) < Len(node[f.of].fields),
         NEW k, k = node[f.of].fields[Len(f.results) + 1].ref
  PROVE  k \in Live /\ CallsOK(x, Append(frames, Frame(k)))
<1> DEFINE Frames == [of : Nodes, results : Seq(Field)]
<1>1. frames \in Seq(Frames)
  BY DEF CallsOK
<1>1d. frames[1].of = x
  BY DEF CallsOK
<1>1a. \A h \in Frames : h.results \in Seq(Field)
  OBVIOUS
<1>1b. \A a \in Nodes, r \in Seq(Field) : [of |-> a, results |-> r] \in Frames
  OBVIOUS
<1> HIDE DEF Frames
<1>1c. Len(frames) \in Nat /\ Len(frames) > 0
  BY <1>1
<1>2. PICK m \in Nat : m = Len(frames) /\ m > 0
  BY <1>1c
<1>3. f \in Frames /\ FrameOK(f)
  <2>1. m \in 1 .. Len(frames) /\ f = frames[m]
    BY <1>2
  <2>2. QED
    BY <1>1, <2>1, ElementOfSeq DEF CallsOK
<1>4. f.of \in Live /\ Len(f.results) \in Nat /\ Len(node[f.of].fields) \in Nat
  <2>1. f.of \in Live
    BY <1>3 DEF FrameOK
  <2>2. f.results \in Seq(Field)
    BY <1>1a, <1>3
  <2>3. Len(node[f.of].fields) \in Nat
    BY <2>1, NodeIs
  <2>4. QED
    BY <2>1, <2>2, <2>3
<1>5. Len(f.results) + 1 \in 1 .. Len(node[f.of].fields)
  BY <1>4
<1>6. k \in Live
  BY <1>4, <1>5, NodeIs
<1>7. PICK g : g = [of |-> k, results |-> <<>>]
  OBVIOUS
<1>8. /\ g \in Frames
      /\ g = Frame(k) /\ g.results = <<>> /\ g.of = k
  <2>1. <<>> \in Seq(Field)
    OBVIOUS
  <2>2. QED
    BY <1>1b, <1>6, <1>7, <2>1 DEF Live, Frame
<1>9. Len(node[k].fields) \in Nat
  <2>1. node[k].fields \in Seq(Field)
    BY <1>6, NodeIs
  <2>2. QED
    BY <2>1, LenProperties, Zenon
<1>10. FrameOK(g) /\ CallOK(f, g)
  <2>1. g.results = <<>> /\ g.of = k
    BY <1>8
  <2>2. Len(g.results) = 0
    BY <2>1
  <2>3. 1 .. Len(g.results) = {}
    BY <2>2
  <2>4. Len(g.results) <= Len(node[g.of].fields)
    <3>1. PICK a, b : a = Len(g.results) /\ b = Len(node[g.of].fields)
      OBVIOUS
    <3>2. a = 0 /\ b \in Nat
      BY <1>9, <2>1, <2>2, <3>1, Zenon
    <3>3. a <= b
      BY ONLY <3>2
    <3>4. QED
      BY <3>1, <3>3, Zenon
  <2>5. FrameOK(g)
    BY <1>6, <2>1, <2>3, <2>4 DEF FrameOK
  <2>6. QED
    BY <2>1, <2>5 DEF CallOK
<1>11. PICK s : s = Append(frames, g)
  OBVIOUS
<1>12. /\ s \in Seq(Frames) /\ Len(s) = m + 1 /\ s[m + 1] = g
       /\ \A i \in 1 .. m : s[i] = frames[i]
  <2>0. g \in Frames
    BY <1>8
  <2>1. s \in Seq(Frames) /\ Len(s) = m + 1 /\ s[m + 1] = g
    BY <1>1, <1>2, <1>11, <2>0, AppendProperties
  <2>2. ASSUME NEW i \in 1 .. m PROVE s[i] = frames[i]
    BY <1>1, <1>2, <1>11, <2>0, AppendProperties
  <2>3. QED
    BY <2>1, <2>2
<1>13. ASSUME NEW i \in 1 .. Len(s) PROVE FrameOK(s[i])
  <2>1. CASE i = m + 1
    BY <1>10, <1>12, <2>1
  <2>2. CASE i # m + 1
    <3>1. i \in 1 .. Len(frames) /\ s[i] = frames[i]
      BY <1>2, <1>12, <2>2
    <3>2. QED
      BY <3>1 DEF CallsOK
  <2>3. QED
    BY <2>1, <2>2
<1>14. ASSUME NEW i \in 1 .. Len(s) - 1 PROVE CallOK(s[i], s[i + 1])
  <2>1. CASE i = m
    <3>1. s[i] = f /\ s[i + 1] = g
      BY <1>2, <1>12, <2>1
    <3>2. QED
      BY <1>10, <3>1
  <2>2. CASE i # m
    <3>1. i \in 1 .. Len(frames) - 1 /\ s[i] = frames[i] /\ s[i + 1] = frames[i + 1]
      BY <1>2, <1>12, <2>2
    <3>2. QED
      BY <3>1 DEF CallsOK
  <2>3. QED
    BY <2>1, <2>2
<1>15. s[1].of = x
  BY <1>1d, <1>2, <1>12
<1>16. CallsOK(x, s)
  BY <1>12, <1>13, <1>14, <1>15 DEF CallsOK, Frames
<1>17. QED
  BY <1>6, <1>8, <1>11, <1>16

(* A call answers.                                                         *)
LEMMA Responds ==
  ASSUME HeapOK, HeapOK', Grows, Typed, NEW t \in Threads, ThreadOK(t), Rewriting(t),
         holds'[t] = holds[t], builder'[t] = builder[t], input'[t] = input[t],
         NEW n, NEW k, k = Top(t).of, Respond(t, n),
         n \in Live', Type(n)' = Type(k), Tree'[n] = RewrittenTree[k]
  PROVE  /\ ThreadOK(t)'
         /\ DOMAIN stack' = Threads /\ answer' \in [Threads -> Nodes \cup {NoNode}]
         /\ \A u \in Threads \ {t} : stack'[u] = stack[u] /\ answer'[u] = answer[u]
<1>1. PICK h, b, x, s, a : h = holds[t] /\ b = builder[t] /\ x = input[t] /\ s = stack[t] /\ a = answer[t]
  OBVIOUS
<1>2. /\ h \subseteq Live'
      /\ b # NoBuilder => FieldsOK(b)'
      /\ CallsOK(x, s)' /\ AnswerOK(x, a)'
      /\ (x # NoNode => x \in h) /\ StageOK(x, s, a)
  BY <1>1, PartsGrow
<1>3. CallsOK(x, s) /\ s # <<>> /\ k = s[Len(s)].of
  BY <1>1 DEF ThreadOK, Rewriting, Top, Depth
<1>4. s \in Seq([of : Nodes, results : Seq(Field)])
  BY <1>3 DEF CallsOK
<1>5. Len(s) \in Nat /\ Len(s) > 0 /\ Len(s) \in 1 .. Len(s)
  BY <1>3, <1>4
<1>6. k \in Live /\ k \in Nodes /\ n \in Nodes
  BY <1>3, <1>5 DEF CallsOK, FrameOK, Live
<1>7. ResultOK(n, k)'
  <2>1. Type(k)' = Type(k)
    BY <1>6, GrowsKeeps, KeptIs
  <2>2. RewrittenTree'[k] = RewrittenTree[k]
    BY <1>6, GrowsKeeps, RewrittenKept
  <2>3. QED
    BY <2>1, <2>2 DEF ResultOK
<1>8. PICK callers : callers = SubSeq(s, 1, Len(s) - 1)
  OBVIOUS
<1>9. Len(callers) = Len(s) - 1
  <2>1. PICK S, m : S = [of : Nodes, results : Seq(Field)] /\ m = Len(s)
    OBVIOUS
  <2>2. s \in Seq(S) /\ m \in Nat /\ m > 0
    BY <1>4, <1>5, <2>1
  <2>3. Len(SubSeq(s, 1, m - 1)) = m - 1
    BY <2>1, <2>2
  <2>4. QED
    BY <1>8, <2>1, <2>3
<1>10. x \in h
  BY <1>2, <1>3 DEF StageOK
<1>11. a = NoNode /\ x # NoNode
  BY <1>2, <1>3 DEF StageOK
<1>12. CASE Len(s) = 1
  <2>1. callers = <<>>
    BY <1>4, <1>8, <1>12
  <2>2. stack' = [stack EXCEPT ![t] = <<>>] /\ answer' = [answer EXCEPT ![t] = n]
    BY <1>1, <1>8, <2>1 DEF Respond, Depth
  <2>3. k = x
    BY <1>3, <1>12 DEF CallsOK
  <2>4. AnswerOK(x, n)'
    BY <1>7, <2>3 DEF AnswerOK
  <2>5. CallsOK(x, <<>>)'
    BY DEF CallsOK
  <2>6. StageOK(x, <<>>, n)
    BY <1>11 DEF StageOK
  <2>7. stack'[t] = <<>> /\ answer'[t] = n
    BY <2>2 DEF Typed
  <2>8. PICK r : r = <<>>
    OBVIOUS
  <2>9. ThreadOK(t)'
    BY <1>1, <1>2, <2>4, <2>5, <2>6, <2>7, <2>8, PartsMake
  <2>10. QED
    BY <1>6, <2>2, <2>9 DEF Typed
<1>13. CASE Len(s) > 1
  <2>1. callers # <<>>
    BY <1>5, <1>9, <1>13
  <2>2. stack' = [stack EXCEPT ![t] = Delivers(callers, n)] /\ answer' = answer
    BY <1>1, <1>8, <2>1 DEF Respond, Depth
  <2>3. PICK r : r = Delivers(callers, n)
    OBVIOUS
  <2>4. callers[Len(callers)].of \in Live
    <3>1. Len(callers) \in 1 .. Len(s) /\ callers[Len(callers)] = s[Len(callers)]
      BY <1>4, <1>5, <1>8, <1>9, <1>13
    <3>2. QED
      BY <1>3, <3>1 DEF CallsOK, FrameOK
  <2>5. node'[callers[Len(callers)].of] = node[callers[Len(callers)].of]
    BY <2>4 DEF Grows
  <2>6. (r = Delivers(callers, n))'
    BY <2>3, <2>5, Zenon DEF Delivers
  <2>7. CallersTakeAnswers'
    BY Delivery, PTL
  <2>8. CallsOK(x, r)'
    BY <1>2, <1>3, <1>7, <1>8, <1>13, <2>6, <2>7 DEF CallersTakeAnswers
  <2>9. r # <<>>
    <3>1. Len(r) = Len(callers)
      BY <2>3 DEF Delivers
    <3>2. QED
      BY <1>5, <1>9, <1>13, <3>1
  <2>10. StageOK(x, r, a)
    BY <1>11 DEF StageOK
  <2>11. stack'[t] = r /\ answer'[t] = a
    BY <1>1, <2>2, <2>3 DEF Typed
  <2>12. ThreadOK(t)'
    BY <1>1, <1>2, <2>8, <2>10, <2>11, PartsMake
  <2>13. QED
    BY <2>2, <2>12 DEF Typed
<1>14. Len(s) = 1 \/ Len(s) > 1
  <2>1. PICK m : m = Len(s)
    OBVIOUS
  <2>2. m \in Nat /\ m > 0
    BY <1>5, <2>1
  <2>3. QED
    BY <2>1, <2>2
<1>15. QED
  BY <1>12, <1>13, <1>14
-----------------------------------------------------------------------------
(***************************************************************************)
(* The steps.                                                              *)
(***************************************************************************)
LEMMA InitInv == Init => IInv
<1> SUFFICES ASSUME Init PROVE IInv
  OBVIOUS
<1>1. HeapOK
  BY HeapInitOK DEF Init
<1>2. NoneCollapses
  BY DEF Init, HeapInit, NoneCollapses, Live
<1>3. Typed
  BY DEF Init, Typed
<1>4. ASSUME NEW t \in Threads PROVE ThreadOK(t)
  <2>1. /\ holds[t] = {} /\ builder[t] = NoBuilder /\ input[t] = NoNode
        /\ stack[t] = <<>> /\ answer[t] = NoNode
    BY DEF Init
  <2>2. CallsOK(NoNode, <<>>)
    BY DEF CallsOK
  <2>3. QED
    BY <2>1, <2>2 DEF ThreadOK, StageOK, AnswerOK
<1>5. QED
  BY <1>1, <1>2, <1>3, <1>4 DEF IInv

(* A step of one thread.                                                   *)
LEMMA OneThread ==
  ASSUME IInv, NEW t \in Threads, HeapOK', NoneCollapses', Grows, Typed', ThreadOK(t)',
         \A u \in Threads \ {t} : Rests(u)
  PROVE  IInv'
<1>1. ASSUME NEW u \in Threads PROVE ThreadOK(u)'
  <2>1. CASE u = t
    BY <2>1
  <2>2. CASE u # t
    BY <2>2, ThreadGrows DEF IInv
  <2>3. QED
    BY <2>1, <2>2
<1>2. QED
  BY <1>1 DEF IInv

LEMMA ReclaimInv ==
  ASSUME IInv, NEW n \in Nodes, Reclaim(n)
  PROVE  IInv'
<1>1. HeapOK /\ Typed /\ NoneCollapses /\ Expire(n) /\ UNCHANGED <<holds, builder, rewriting>>
  BY DEF IInv, Reclaim
<1>2. HeapOK' /\ Frees(n) /\ Keeps(Live \ {n})
  BY <1>1, ExpireOK, ExpireKeeps
<1>3. Typed'
  BY <1>1 DEF Typed, rewriting
<1>4. NoneCollapses'
  BY <1>1, <1>2 DEF NoneCollapses, Frees, Collapses
<1>5. ASSUME NEW t \in Threads PROVE ThreadOK(t)'
  <2>1. ThreadOK(t) /\ n \notin HeldByThread(t) /\ UsesOnly(t, Live)
    BY <1>1, UsesLive DEF IInv, Reclaim
  <2>2. holds[t] \subseteq Live \ {n} /\ (answer[t] # NoNode => answer[t] \in Live \ {n})
    BY <2>1 DEF HeldByThread, UsesOnly
  <2>3. ASSUME NEW i \in 1 .. Len(Shape[builder[t].label]), builder[t] # NoBuilder,
               builder[t].fields[i] # NoField
        PROVE  builder[t].fields[i].ref \in Live \ {n}
    <3>1. builder[t].fields[i].ref \in Live /\ i \in DOMAIN builder[t].fields
      BY <2>1, <2>3 DEF ThreadOK, FieldsOK, IsField
    <3>2. builder[t].fields[i].ref \in InBuilder(t)
      BY <2>3, <3>1 DEF InBuilder, Refers
    <3>3. QED
      BY <2>1, <3>1, <3>2 DEF HeldByThread
  <2>4. PICK frames, x : frames = stack[t] /\ x = input[t]
    OBVIOUS
  <2>5. CallsOK(x, frames) /\ frames \in Seq([of : Nodes, results : Seq(Field)])
    BY <2>1, <2>4 DEF ThreadOK, CallsOK
  <2>6. ASSUME NEW i \in 1 .. Len(frames), NEW j \in 1 .. Len(frames[i].results)
        PROVE  frames[i].results[j].ref \in Live \ {n}
    <3>1. frames[i].results[j].ref \in Live
      BY <2>5 DEF CallsOK, FrameOK, ResultOK
    <3>2. PICK f \in [of : Nodes, results : Seq(Field)] : f = frames[i]
      BY <2>5, ElementOfSeq
    <3>3. PICK r : r = f.results
      OBVIOUS
    <3>4. r \in Seq(Field)
      BY <3>3
    <3>5. r[j] \in Field /\ j \in DOMAIN r
      BY <3>2, <3>3, <3>4, ElementOfSeq
    <3>6. r[j].ref \in Refers(r)
      <4>1. CASE r[j] = NoField
        BY <3>5, <4>1, RewriteAssumption DEF Field
      <4>2. QED
        BY <3>5, <4>1 DEF Refers
    <3>7. i \in DOMAIN frames
      BY <2>5
    <3>8. r[j].ref \in Results(t)
      BY <2>4, <3>2, <3>3, <3>6, <3>7 DEF Results
    <3>9. QED
      BY <2>1, <3>1, <3>2, <3>3, <3>8 DEF HeldByThread
  <2>7. ASSUME NEW i \in 1 .. Len(frames) PROVE frames[i].of \in Live \ {n}
    <3>1. Len(frames) \in Nat /\ frames # <<>>
      BY <2>5
    <3>2. frames[i].of \in Live
      BY <2>5 DEF CallsOK, FrameOK
    <3>3. CASE i = 1
      <4>1. frames[1].of = x /\ x \in holds[t]
        BY <2>1, <2>4, <2>5, <3>1 DEF CallsOK, ThreadOK, StageOK
      <4>2. QED
        BY <2>2, <3>3, <4>1
    <3>4. CASE i # 1
      <4>1. PICK j \in Nat : j = i - 1 /\ j \in 1 .. Len(frames) - 1 /\ j \in 1 .. Len(frames) /\ j + 1 = i
        BY <3>1, <3>4
      <4>2. CallOK(frames[j], frames[i]) /\ FrameOK(frames[j])
        BY <2>5, <4>1 DEF CallsOK
      <4>3. PICK f \in [of : Nodes, results : Seq(Field)] : f = frames[j]
        BY <2>5, <4>1, ElementOfSeq
      <4>4. f.of \in Live /\ Len(f.results) \in Nat /\ Len(node[f.of].fields) \in Nat
        BY <1>1, <4>2, <4>3, NodeIs DEF FrameOK
      <4>5. Len(f.results) + 1 \in 1 .. Len(node[f.of].fields)
        BY <4>2, <4>3, <4>4 DEF CallOK
      <4>6. frames[i].of \in Kids(f.of)
        BY <1>1, <4>2, <4>3, <4>4, <4>5, NodeIs DEF CallOK
      <4>7. QED
        BY <1>1, <3>2, <4>4, <4>6 DEF Expire, HeldByNode
    <3>5. QED
      BY <3>3, <3>4
  <2>8. UsesOnly(t, Live \ {n})
    BY <2>2, <2>3, <2>4, <2>6, <2>7 DEF UsesOnly
  <2>9. Rests(t)
    BY <1>1 DEF Rests, rewriting
  <2>10. QED
    BY <1>1, <1>2, <2>1, <2>8, <2>9, ThreadKept
<1>6. QED
  BY <1>2, <1>3, <1>4, <1>5 DEF IInv

(* The steps of a thread that intern nothing.                              *)
LEMMA DropInv ==
  ASSUME IInv, NEW t \in Threads, NEW n \in Nodes, Drop(t, n)
  PROVE  IInv'
<1>1. HeapOK /\ Typed /\ NoneCollapses /\ ThreadOK(t) /\ input[t] = NoNode
      /\ holds' = [holds EXCEPT ![t] = @ \ {n}] /\ UNCHANGED <<node, builder, rewriting>>
  BY DEF IInv, Drop, Idle
<1>2. HeapOK' /\ NoneCollapses' /\ Grows
  BY <1>1, Still
<1>3. PICK h, b, x, s, a : h = holds[t] /\ b = builder[t] /\ x = input[t] /\ s = stack[t] /\ a = answer[t]
  OBVIOUS
<1>4. /\ h \subseteq Live'
      /\ b # NoBuilder => FieldsOK(b)'
      /\ CallsOK(x, s)' /\ AnswerOK(x, a)' /\ StageOK(x, s, a)
  BY <1>1, <1>2, <1>3, PartsGrow
<1>5. PICK g : g = h \ {n}
  OBVIOUS
<1>6. /\ g = holds'[t] /\ b = builder'[t] /\ x = input'[t] /\ s = stack'[t] /\ a = answer'[t]
      /\ Typed' /\ \A u \in Threads \ {t} : Rests(u)
  BY <1>1, <1>3, <1>5 DEF Typed, Rests, rewriting
<1>7. ThreadOK(t)'
  BY <1>1, <1>3, <1>4, <1>5, <1>6, PartsMake
<1>8. QED
  BY <1>2, <1>6, <1>7, OneThread

LEMMA BuilderSteps ==
  ASSUME IInv, NEW t \in Threads, NEW b, b # NoBuilder => FieldsOK(b),
         builder' = [builder EXCEPT ![t] = b], UNCHANGED <<node, holds, rewriting>>
  PROVE  IInv'
<1>1. HeapOK /\ Typed /\ NoneCollapses /\ ThreadOK(t)
  BY DEF IInv
<1>2. HeapOK' /\ NoneCollapses' /\ Grows
  BY <1>1, Still
<1>3. PICK h, x, s, a : h = holds[t] /\ x = input[t] /\ s = stack[t] /\ a = answer[t]
  OBVIOUS
<1>4. /\ h \subseteq Live' /\ CallsOK(x, s)' /\ AnswerOK(x, a)'
      /\ (x # NoNode => x \in h) /\ StageOK(x, s, a)
  BY <1>1, <1>2, <1>3, PartsGrow
<1>5. /\ h = holds'[t] /\ b = builder'[t] /\ x = input'[t] /\ s = stack'[t] /\ a = answer'[t]
      /\ Typed' /\ \A u \in Threads \ {t} : Rests(u)
  BY <1>1, <1>3 DEF Typed, Rests, rewriting
<1>6. b # NoBuilder => FieldsOK(b)'
  BY <1>1, <1>2, FieldsGrow
<1>7. ThreadOK(t)'
  BY <1>3, <1>4, <1>5, <1>6, PartsMake
<1>8. QED
  BY <1>2, <1>5, <1>7, OneThread

LEMMA BuilderInv ==
  ASSUME IInv, NEW t \in Threads, NEW l \in Labels, Builder(t, l)
  PROVE  IInv'
<1>1. PICK b : b = [label |-> l, fields |-> [i \in DOMAIN Shape[l] |-> NoField]]
  OBVIOUS
<1>2. builder' = [builder EXCEPT ![t] = b] /\ UNCHANGED <<node, holds, rewriting>>
  BY <1>1 DEF Builder
<1>3. DOMAIN Shape[l] = 1 .. Len(Shape[l])
  BY HeapAssumption
<1>4. FieldsOK(b)
  BY <1>1, <1>3 DEF FieldsOK
<1>5. QED
  BY <1>2, <1>4, BuilderSteps

LEMMA ToBuilderInv ==
  ASSUME IInv, NEW t \in Threads, NEW n \in Nodes, ToBuilder(t, n)
  PROVE  IInv'
<1>1. HeapOK /\ ThreadOK(t) /\ n \in Live
  BY DEF IInv, ToBuilder, ThreadOK
<1>2. PICK b \in AllData : b = node[n] /\ IsData(b)
  BY <1>1, NodeIs
<1>3. builder' = [builder EXCEPT ![t] = b] /\ UNCHANGED <<node, holds, rewriting>>
  BY <1>2 DEF ToBuilder
<1>4. b.label \in Labels /\ b = [label |-> b.label, fields |-> b.fields]
      /\ b.fields \in [1 .. Len(Shape[b.label]) -> Field]
  BY DataIs DEF Field
<1>5. \A i \in 1 .. Len(Shape[b.label]) : b.fields[i] \in Field /\ IsField(b.fields[i], Shape[b.label][i])
  BY <1>2, <1>4 DEF IsData
<1>6. FieldsOK(b)
  BY <1>4, <1>5 DEF FieldsOK
<1>7. QED
  BY <1>3, <1>6, BuilderSteps

LEMMA SetInv ==
  ASSUME IInv, NEW t \in Threads, builder[t] # NoBuilder, NEW i \in DOMAIN builder[t].fields,
         NEW v \in Shape[builder[t].label][i], NEW n \in Nodes,
         NEW f, f = [variant |-> v[1], ref |-> n], Set(t, i, f)
  PROVE  IInv'
<1>1. HeapOK /\ ThreadOK(t) /\ Typed
  BY DEF IInv
<1>2. PICK c : c = builder[t]
  OBVIOUS
<1>3. FieldsOK(c)
  BY <1>1, <1>2 DEF ThreadOK
<1>4. i \in 1 .. Len(Shape[c.label]) /\ i \in DOMAIN Shape[c.label]
  BY <1>2, <1>3, HeapAssumption DEF FieldsOK
<1>5. v[1] \in Variants
  BY <1>2, <1>3, <1>4 DEF Variants, FieldsOK
<1>6. f \in Field
  BY <1>5 DEF Field
<1>7. PICK b : b = [label |-> c.label, fields |-> [c.fields EXCEPT ![i] = f]]
  OBVIOUS
<1>8. IsField(f, Shape[c.label][i])
  BY <1>2 DEF Set
<1>9. FieldsOK(b)
  BY <1>3, <1>4, <1>6, <1>7, <1>8 DEF FieldsOK
<1>10. builder' = [builder EXCEPT ![t] = b]
  <2>1. [c EXCEPT !.fields[i] = f] = b
    <3>1. PICK l, g : l = c.label /\ g = c.fields
      OBVIOUS
    <3>2. c = [label |-> l, fields |-> g]
      BY <1>3, <3>1 DEF FieldsOK
    <3>3. [[label |-> l, fields |-> g] EXCEPT !.fields[i] = f] = [label |-> l, fields |-> [g EXCEPT ![i] = f]]
      OBVIOUS
    <3>4. QED
      BY <1>7, <3>1, <3>2, <3>3
  <2>2. builder' = [builder EXCEPT ![t].fields[i] = f]
    BY DEF Set
  <2>3. [builder EXCEPT ![t].fields[i] = f] = [builder EXCEPT ![t] = [builder[t] EXCEPT !.fields[i] = f]]
    OBVIOUS
  <2>4. QED
    BY <1>2, <2>1, <2>2, <2>3
<1>11. UNCHANGED <<node, holds, rewriting>>
  BY DEF Set
<1>12. QED
  BY <1>9, <1>10, <1>11, BuilderSteps

LEMMA RewriteInv ==
  ASSUME IInv, NEW t \in Threads, NEW x \in Nodes, Rewrite(t, x)
  PROVE  IInv'
<1>1. HeapOK /\ Typed /\ NoneCollapses /\ ThreadOK(t) /\ input[t] = NoNode /\ x \in holds[t]
      /\ input' = [input EXCEPT ![t] = x] /\ UNCHANGED <<node, holds, builder, cache>>
  BY DEF IInv, Rewrite, Idle
<1>2. HeapOK' /\ NoneCollapses' /\ Grows
  BY <1>1, Still
<1>3. cache[t][x] = NoNode
  BY <1>1 DEF Typed
<1>4. stack' = [stack EXCEPT ![t] = <<Frame(x)>>] /\ UNCHANGED answer
  BY <1>3 DEF Rewrite
<1>5. PICK h, b, a, s : h = holds[t] /\ b = builder[t] /\ a = answer[t] /\ s = <<Frame(x)>>
  OBVIOUS
<1>6. h \subseteq Live' /\ (b # NoBuilder => FieldsOK(b)')
  <2>1. PICK y, r : y = input[t] /\ r = stack[t]
    OBVIOUS
  <2>2. QED
    BY <1>1, <1>2, <1>5, <2>1, PartsGrow
<1>7. x \in Live /\ x # NoNode
  BY <1>1, HeapAssumption DEF ThreadOK
<1>8. CallsOK(x, s)'
  <2>1. CallsOK(x, s)
    BY <1>1, <1>5, <1>7, FirstCall
  <2>2. QED
    BY <1>1, <1>2, <2>1, CallsGrow
<1>9. a = NoNode
  BY <1>1, <1>5 DEF ThreadOK, StageOK
<1>10. AnswerOK(x, a)' /\ StageOK(x, s, a)
  BY <1>7, <1>9 DEF AnswerOK, StageOK
<1>11. /\ h = holds'[t] /\ b = builder'[t] /\ x = input'[t] /\ s = stack'[t] /\ a = answer'[t]
       /\ Typed' /\ \A u \in Threads \ {t} : Rests(u)
  BY <1>1, <1>4, <1>5 DEF Typed, Rests
<1>12. ThreadOK(t)'
  BY <1>1, <1>5, <1>6, <1>8, <1>10, <1>11, PartsMake
<1>13. QED
  BY <1>2, <1>11, <1>12, OneThread

LEMMA RewriteFieldInv ==
  ASSUME IInv, NEW t \in Threads, RewriteField(t)
  PROVE  IInv'
<1>1. HeapOK /\ Typed /\ NoneCollapses /\ ThreadOK(t) /\ Rewriting(t) /\ ~Overridden(t)
      /\ UNCHANGED <<node, holds, builder, input, answer, cache>>
  BY DEF IInv, RewriteField
<1>2. HeapOK' /\ NoneCollapses' /\ Grows
  BY <1>1, Still
<1>3. PICK h, b, x, s, a : h = holds[t] /\ b = builder[t] /\ x = input[t] /\ s = stack[t] /\ a = answer[t]
  OBVIOUS
<1>4. /\ h \subseteq Live'
      /\ b # NoBuilder => FieldsOK(b)'
      /\ AnswerOK(x, a)' /\ (x # NoNode => x \in h) /\ StageOK(x, s, a)
  BY <1>1, <1>2, <1>3, PartsGrow
<1>5. PICK f, k : f = Top(t) /\ k = node[f.of].fields[Len(f.results) + 1].ref
  OBVIOUS
<1>6. CallsOK(x, s) /\ s # <<>> /\ f = s[Len(s)] /\ ~Over(f.of) /\ Len(f.results) < Len(node[f.of].fields)
  BY <1>1, <1>3, <1>5 DEF ThreadOK, Rewriting, Overridden, Over, Top, Depth, RewriteField, Fields
<1>7. PICK r : r = Append(s, Frame(k))
  OBVIOUS
<1>8. CallsOK(x, r)
  BY <1>1, <1>5, <1>6, <1>7, NextCall
<1>9. CallsOK(x, r)'
  BY <1>1, <1>2, <1>8, CallsGrow
<1>10. StageOK(x, r, a)
  BY <1>4, <1>6 DEF StageOK
<1>11. stack' = [stack EXCEPT ![t] = r]
  BY <1>3, <1>5, <1>7 DEF RewriteField, Fields
<1>12. /\ h = holds'[t] /\ b = builder'[t] /\ x = input'[t] /\ r = stack'[t] /\ a = answer'[t]
       /\ Typed' /\ \A u \in Threads \ {t} : Rests(u)
  BY <1>1, <1>3, <1>11 DEF Typed, Rests
<1>13. ThreadOK(t)'
  BY <1>3, <1>4, <1>9, <1>10, <1>12, PartsMake
<1>14. QED
  BY <1>2, <1>12, <1>13, OneThread

LEMMA TakeInv ==
  ASSUME IInv, NEW t \in Threads, Take(t)
  PROVE  IInv'
<1>1. HeapOK /\ Typed /\ NoneCollapses /\ ThreadOK(t) /\ answer[t] # NoNode
      /\ UNCHANGED <<node, builder, stack, cache>>
  BY DEF IInv, Take
<1>2. HeapOK' /\ NoneCollapses' /\ Grows
  BY <1>1, Still
<1>3. PICK h, b, s, x, a : h = holds[t] \cup {answer[t]} /\ b = builder[t] /\ s = stack[t] /\ x = NoNode /\ a = NoNode
  OBVIOUS
<1>4. h \subseteq Live'
  BY <1>1, <1>2, <1>3 DEF ThreadOK, AnswerOK, ResultOK, Grows
<1>5. b # NoBuilder => FieldsOK(b)'
  BY <1>1, <1>2, <1>3, FieldsGrow DEF ThreadOK
<1>6. s = <<>>
  BY <1>1, <1>3 DEF ThreadOK, StageOK
<1>7. CallsOK(x, s)' /\ AnswerOK(x, a)' /\ StageOK(x, s, a)
  BY <1>3, <1>6 DEF CallsOK, AnswerOK, StageOK
<1>8. /\ h = holds'[t] /\ b = builder'[t] /\ x = input'[t] /\ s = stack'[t] /\ a = answer'[t]
      /\ Typed' /\ \A u \in Threads \ {t} : Rests(u)
  <2>1. answer[t] \in Nodes
    BY <1>1 DEF ThreadOK, AnswerOK, ResultOK, Live
  <2>2. QED
    BY <1>1, <1>3, <2>1 DEF Typed, Rests, Take
<1>9. ThreadOK(t)'
  BY <1>3, <1>4, <1>5, <1>7, <1>8, PartsMake
<1>10. QED
  BY <1>2, <1>8, <1>9, OneThread

(* The steps that intern.                                                  *)
LEMMA Complete ==
  ASSUME NEW b, FieldsOK(b), \A i \in DOMAIN b.fields : b.fields[i] # NoField
  PROVE  b \in AllData /\ IsData(b)
<1>1. PICK l, g : l \in Labels /\ l = b.label /\ g = b.fields /\ b = [label |-> l, fields |-> g]
  BY DEF FieldsOK
<1>2. DOMAIN Shape[l] = 1 .. Len(Shape[l]) /\ DOMAIN g = DOMAIN Shape[l]
  BY <1>1, HeapAssumption DEF FieldsOK
<1>3. \A i \in DOMAIN Shape[l] : g[i] \in Field /\ IsField(g[i], Shape[l][i])
  BY <1>1, <1>2 DEF FieldsOK
<1>4. g \in [DOMAIN Shape[l] -> [variant : Variants, ref : Nodes]]
  <2>1. g \in [1 .. Len(Shape[l]) -> Field \cup {NoField}]
    BY <1>1 DEF FieldsOK
  <2>2. QED
    BY <1>2, <1>3, <2>1 DEF Field
<1>5. b \in [label : {l}, fields : [DOMAIN Shape[l] -> [variant : Variants, ref : Nodes]]]
  BY <1>1, <1>4
<1>6. b \in AllData
  <2>1. l \in Labels
    BY <1>1
  <2>2. QED
    BY <1>5, <2>1 DEF AllData, DataOver
<1>7. IsData(b)
  BY <1>1, <1>2, <1>3 DEF IsData
<1>8. QED
  BY <1>6, <1>7

LEMMA BuildInv ==
  ASSUME IInv, NEW t \in Threads, Build(t)
  PROVE  IInv'
<1>1. HeapOK /\ Typed /\ NoneCollapses /\ ThreadOK(t) /\ Idle(t) /\ builder[t] # NoBuilder
      /\ builder' = [builder EXCEPT ![t] = NoBuilder] /\ UNCHANGED rewriting
  BY DEF IInv, Build
<1>2. CASE \E i \in DOMAIN builder[t].fields : builder[t].fields[i] = NoField
  <2>1. UNCHANGED <<node, holds>>
    BY <1>2 DEF Build
  <2>2. QED
    BY <1>1, <2>1, BuilderSteps
<1>3. CASE \A i \in DOMAIN builder[t].fields : builder[t].fields[i] # NoField
  <2>1. PICK d : d = builder[t]
    OBVIOUS
  <2>2. d \in AllData /\ IsData(d)
    BY <1>1, <1>3, <2>1, Complete DEF ThreadOK
  <2>3. Interned(d) /\ holds' = [holds EXCEPT ![t] = @ \cup {new(d)}]
    BY <1>3, <2>1 DEF Build
  <2>4. HeapOK' /\ NoneCollapses' /\ Grows
    BY <1>1, <2>2, <2>3, NewOK
  <2>5. PICK n : n = new(d) /\ Answers(n, d)
    BY <1>1, <2>2, <2>3, NewOK
  <2>6. PICK h, b, x, s, a : h = holds[t] \cup {n} /\ b = NoBuilder /\ x = input[t] /\ s = stack[t] /\ a = answer[t]
    OBVIOUS
  <2>7. /\ h \subseteq Live' /\ CallsOK(x, s)' /\ AnswerOK(x, a)'
        /\ (x # NoNode => x \in h) /\ StageOK(x, s, a)
    <3>1. PICK g, c : g = holds[t] /\ c = builder[t]
      OBVIOUS
    <3>2. /\ g \subseteq Live' /\ CallsOK(x, s)' /\ AnswerOK(x, a)'
          /\ (x # NoNode => x \in g) /\ StageOK(x, s, a)
      BY <1>1, <2>4, <2>6, <3>1, PartsGrow
    <3>3. QED
      BY <2>5, <2>6, <3>1, <3>2 DEF Answers
  <2>8. /\ h = holds'[t] /\ b = builder'[t] /\ x = input'[t] /\ s = stack'[t] /\ a = answer'[t]
        /\ Typed' /\ \A u \in Threads \ {t} : Rests(u)
    <3>1. n \in Nodes
      BY <2>5 DEF Answers, Live
    <3>2. QED
      BY <1>1, <2>3, <2>5, <2>6, <3>1 DEF Typed, Rests, rewriting
  <2>9. ThreadOK(t)'
    BY <2>6, <2>7, <2>8, PartsMake
  <2>10. QED
    BY <2>4, <2>8, <2>9, OneThread
<1>4. QED
  BY <1>2, <1>3

(* A call of default_rewrite that answers.                                 *)
LEMMA ReturnInv ==
  ASSUME IInv, NEW t \in Threads, Rewriting(t), HeapOK', NoneCollapses', Grows,
         NEW n, NEW k, k = Top(t).of, Respond(t, n),
         n \in Live', Type(n)' = Type(k), Tree'[n] = RewrittenTree[k],
         UNCHANGED <<holds, builder, input, cache>>
  PROVE  IInv'
<1>1. HeapOK /\ Typed /\ ThreadOK(t)
  BY DEF IInv
<1>2. /\ ThreadOK(t)'
      /\ DOMAIN stack' = Threads /\ answer' \in [Threads -> Nodes \cup {NoNode}]
      /\ \A u \in Threads \ {t} : stack'[u] = stack[u] /\ answer'[u] = answer[u]
  BY <1>1, Responds
<1>3. Typed' /\ \A u \in Threads \ {t} : Rests(u)
  BY <1>1, <1>2 DEF Typed, Rests
<1>4. QED
  BY <1>2, <1>3, OneThread

LEMMA TopIs ==
  ASSUME IInv, NEW t \in Threads, Rewriting(t)
  PROVE  \E f \in [of : Nodes, results : Seq(Field)] :
           f = Top(t) /\ FrameOK(f) /\ f.of \in Live /\ (Overridden(t) <=> Over(f.of))
<1>1. PICK s, x : s = stack[t] /\ x = input[t]
  OBVIOUS
<1>2. CallsOK(x, s) /\ s # <<>> /\ s \in Seq([of : Nodes, results : Seq(Field)])
  BY <1>1 DEF IInv, ThreadOK, Rewriting, CallsOK
<1>3. Len(s) \in 1 .. Len(s)
  BY <1>2
<1>4. PICK f \in [of : Nodes, results : Seq(Field)] : f = s[Len(s)]
  BY <1>2, <1>3, ElementOfSeq
<1>5. f = Top(t) /\ FrameOK(f)
  BY <1>1, <1>2, <1>3, <1>4 DEF Top, Depth, CallsOK
<1>6. f.of \in Live /\ (Overridden(t) <=> Over(f.of))
  BY <1>5 DEF FrameOK, Overridden, Over
<1>7. QED
  BY <1>5, <1>6

LEMMA OverrideInv ==
  ASSUME IInv, NEW t \in Threads, Override(t)
  PROVE  IInv'
<1>1. HeapOK /\ NoneCollapses /\ Rewriting(t) /\ Overridden(t) /\ UNCHANGED <<holds, builder, input, cache>>
  BY DEF IInv, Override
<1>2. PICK f : f = Top(t) /\ f.of \in Live /\ Over(f.of)
  BY <1>1, TopIs
<1>3. PICK k, d : k = f.of /\ d = [node[k] EXCEPT !.label = Relabel[@]]
  OBVIOUS
<1>4. /\ d \in AllData /\ IsData(d) /\ TypeOf[d.label] = Type(k)
      /\ RewrittenTree[k] = NewTree(Unfolded(Tree, d))
  BY <1>1, <1>2, <1>3, RelabelledIs
<1>5. Interned(d) /\ Respond(t, new(d))
  BY <1>2, <1>3 DEF Override
<1>6. HeapOK' /\ NoneCollapses' /\ Grows
  BY <1>1, <1>4, <1>5, NewOK
<1>7. PICK n : n = new(d) /\ Answers(n, d)
  BY <1>1, <1>4, <1>5, NewOK
<1>8. n \in Live' /\ Type(n)' = Type(k) /\ Tree'[n] = RewrittenTree[k] /\ Respond(t, n)
  BY <1>4, <1>5, <1>7 DEF Answers
<1>9. QED
  BY <1>1, <1>2, <1>3, <1>6, <1>8, ReturnInv

LEMMA KeepNodeInv ==
  ASSUME IInv, NEW t \in Threads, KeepNode(t)
  PROVE  IInv'
<1>1. HeapOK /\ NoneCollapses /\ Rewriting(t) /\ ~Overridden(t)
      /\ UNCHANGED <<node, holds, builder, input, cache>>
  BY DEF IInv, KeepNode
<1>2. PICK f \in [of : Nodes, results : Seq(Field)] :
        f = Top(t) /\ FrameOK(f) /\ f.of \in Live /\ ~Over(f.of)
  BY <1>1, TopIs
<1>3. PICK k : k = f.of
  OBVIOUS
<1>4. f.results = node[k].fields /\ Respond(t, k)
  BY <1>2, <1>3 DEF KeepNode, Unchanged, Fields
<1>5. Tree[k] = RewrittenTree[k]
  BY <1>1, <1>2, <1>3, <1>4, UnchangedIs DEF ResultOK
<1>6. HeapOK' /\ NoneCollapses' /\ Grows
  BY <1>1, Still
<1>7. k \in Live' /\ Type(k)' = Type(k) /\ Tree'[k] = Tree[k]
  BY <1>1, <1>2, <1>3, <1>6, GrowsKeeps, KeptIs
<1>8. QED
  BY <1>1, <1>2, <1>3, <1>4, <1>5, <1>6, <1>7, ReturnInv

LEMMA NewNodeInv ==
  ASSUME IInv, NEW t \in Threads, NewNode(t)
  PROVE  IInv'
<1>1. HeapOK /\ NoneCollapses /\ Rewriting(t) /\ ~Overridden(t)
      /\ UNCHANGED <<holds, builder, input, cache>>
  BY DEF IInv, NewNode
<1>2. PICK f \in [of : Nodes, results : Seq(Field)] :
        f = Top(t) /\ FrameOK(f) /\ f.of \in Live /\ ~Over(f.of)
  BY <1>1, TopIs
<1>3. PICK k, d : k = f.of /\ d = [node[k] EXCEPT !.fields = f.results]
  OBVIOUS
<1>4. Len(f.results) = Len(node[k].fields)
  BY <1>2, <1>3 DEF NewNode, Fields
<1>5. /\ d \in AllData /\ IsData(d) /\ TypeOf[d.label] = Type(k)
      /\ RewrittenTree[k] = NewTree(Unfolded(Tree, d))
  BY <1>1, <1>2, <1>3, <1>4, ResultsAre
<1>6. Interned(d) /\ Respond(t, new(d))
  BY <1>2, <1>3 DEF NewNode
<1>7. HeapOK' /\ NoneCollapses' /\ Grows
  BY <1>1, <1>5, <1>6, NewOK
<1>8. PICK n : n = new(d) /\ Answers(n, d)
  BY <1>1, <1>5, <1>6, NewOK
<1>9. n \in Live' /\ Type(n)' = Type(k) /\ Tree'[n] = RewrittenTree[k] /\ Respond(t, n)
  BY <1>5, <1>6, <1>8 DEF Answers
<1>10. QED
  BY <1>1, <1>2, <1>3, <1>7, <1>9, ReturnInv

LEMMA RestInv ==
  ASSUME IInv, UNCHANGED vars
  PROVE  IInv'
<1>1. HeapOK /\ Typed /\ NoneCollapses /\ UNCHANGED <<node, holds, builder, input, stack, answer, cache>>
  BY DEF IInv, vars, rewriting
<1>2. HeapOK' /\ NoneCollapses' /\ Grows
  BY <1>1, Still
<1>3. Typed' /\ \A t \in Threads : Rests(t)
  BY <1>1 DEF Typed, Rests
<1>4. \A t \in Threads : ThreadOK(t)'
  BY <1>1, <1>2, <1>3, ThreadGrows DEF IInv
<1>5. QED
  BY <1>2, <1>3, <1>4 DEF IInv

LEMMA NextInv == IInv /\ [Next]_vars => IInv'
<1> SUFFICES ASSUME IInv, [Next]_vars PROVE IInv'
  OBVIOUS
<1>1. CASE UNCHANGED vars
  BY <1>1, RestInv
<1>2. CASE \E n \in Nodes : Reclaim(n)
  BY <1>2, ReclaimInv
<1>3. ASSUME NEW t \in Threads, NEW n \in Nodes, Drop(t, n) \/ ToBuilder(t, n)
      PROVE  IInv'
  BY <1>3, DropInv, ToBuilderInv
<1>4. ASSUME NEW t \in Threads, NEW l \in Labels, Builder(t, l)
      PROVE  IInv'
  BY <1>4, BuilderInv
<1>5. ASSUME NEW t \in Threads, builder[t] # NoBuilder, NEW i \in DOMAIN builder[t].fields,
             NEW v \in Shape[builder[t].label][i], NEW n \in Nodes,
             Set(t, i, [variant |-> v[1], ref |-> n])
      PROVE  IInv'
  BY <1>5, SetInv
<1>6. ASSUME NEW t \in Threads, NEW x \in Nodes, Rewrite(t, x)
      PROVE  IInv'
  BY <1>6, RewriteInv
<1>7. ASSUME NEW t \in Threads, Build(t) \/ RewriteStep(t) \/ Take(t)
      PROVE  IInv'
  BY <1>7, BuildInv, OverrideInv, RewriteFieldInv, KeepNodeInv, NewNodeInv, TakeInv DEF RewriteStep
<1>8. QED
  BY <1>1, <1>2, <1>3, <1>4, <1>5, <1>6, <1>7 DEF Next

THEOREM Invariant == Spec => []IInv
BY InitInv, NextInv, PTL DEF Spec

(* Handles, builders, the calls under way and their results refer to nodes *)
(* that live and have the types of the fields they are for.                *)
THEOREM TypeCorrect == Spec => []TypeOK
<1>1. IInv => TypeOK
  <2> SUFFICES ASSUME IInv PROVE TypeOK
    OBVIOUS
  <2>1. HeapTypeOK /\ Typed
    BY DEF IInv, HeapOK
  <2>2. ASSUME NEW t \in Threads
        PROVE  /\ holds[t] \subseteq Live
               /\ builder[t] # NoBuilder =>
                    /\ DOMAIN builder[t].fields = DOMAIN Shape[builder[t].label]
                    /\ Refers(builder[t].fields) \subseteq Live
               /\ \A i \in DOMAIN stack[t] : stack[t][i].of \in Live
               /\ Results(t) \subseteq Live
               /\ input[t] \in Live \cup {NoNode} /\ answer[t] \in Live \cup {NoNode}
    <3>1. ThreadOK(t) /\ CallsOK(input[t], stack[t])
      BY DEF IInv, ThreadOK
    <3>2. PICK s : s = stack[t]
      OBVIOUS
    <3>3. s \in Seq([of : Nodes, results : Seq(Field)])
      BY <3>1, <3>2 DEF CallsOK
    <3>4. DOMAIN s = 1 .. Len(s)
      BY <3>3
    <3>5. \A i \in DOMAIN s : s[i].of \in Live
      BY <3>1, <3>2, <3>4 DEF CallsOK, FrameOK
    <3>6. ASSUME NEW i \in DOMAIN s PROVE Refers(s[i].results) \subseteq Live
      <4>1. PICK f \in [of : Nodes, results : Seq(Field)] : f = s[i]
        BY <3>3, <3>4, <3>6, ElementOfSeq
      <4>2. PICK r \in Seq(Field) : r = f.results
        OBVIOUS
      <4>3. DOMAIN r = 1 .. Len(r)
        OBVIOUS
      <4>4. \A j \in 1 .. Len(r) : r[j].ref \in Live
        BY <3>1, <3>2, <3>4, <4>1, <4>2 DEF CallsOK, FrameOK, ResultOK
      <4>5. QED
        BY <4>1, <4>2, <4>3, <4>4 DEF Refers
    <3>7. Results(t) \subseteq Live
      BY <3>2, <3>6 DEF Results
    <3>8. builder[t] # NoBuilder =>
            /\ DOMAIN builder[t].fields = DOMAIN Shape[builder[t].label]
            /\ Refers(builder[t].fields) \subseteq Live
      BY <3>1, HeapAssumption DEF ThreadOK, FieldsOK, IsField, Refers
    <3>9. input[t] \in Live \cup {NoNode} /\ answer[t] \in Live \cup {NoNode}
      BY <3>1 DEF ThreadOK, AnswerOK, ResultOK
    <3>10. QED
      BY <3>1, <3>2, <3>5, <3>7, <3>8, <3>9 DEF ThreadOK
  <2>3. holds \in [Threads -> SUBSET Live] /\ input \in [Threads -> Live \cup {NoNode}]
        /\ answer \in [Threads -> Live \cup {NoNode}]
    BY <2>1, <2>2 DEF Typed
  <2>4. cache \in [Threads -> [Nodes -> Nodes \cup {NoNode}]]
    BY <2>1 DEF Typed
  <2>5. QED
    BY <2>1, <2>2, <2>3, <2>4 DEF TypeOK
<1>2. QED
  BY <1>1, Invariant, PTL

(* A rewriting answers with the node of the structure that rebuilding the  *)
(* whole tree through `new' would have, although it keeps what is pointer- *)
(* equal, shares what other threads built and lets them reclaim nodes.     *)
THEOREM RewritesTheTree == Spec => []RewritesTree
<1>1. IInv => RewritesTree
  BY DEF IInv, ThreadOK, AnswerOK, ResultOK, RewritesTree
<1>2. QED
  BY <1>1, Invariant, PTL
=============================================================================
