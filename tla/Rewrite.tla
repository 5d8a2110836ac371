------------------------------ MODULE Rewrite ------------------------------
(***************************************************************************)
(* Building and rewriting nodes (src/hirpdag/src/base/rewrite.rs and the   *)
(* builders, `new', default_rewrite and HirpdagRewriteMemoized generated   *)
(* by src/hirpdag_derive/src/lib.rs).                                      *)
(*                                                                         *)
(* The user's code is taken as one rewriter and one normalizer: rewrite_X  *)
(* gives leaves another label and calls default_rewrite on other nodes;    *)
(* `new' answers with the first of two fields that refer to one node, if   *)
(* the second has the variant Transparent.  Both answer with a node of the *)
(* type they were called for, as their signatures say.  A rewriting is a   *)
(* stack of default_rewrite calls; threads rewrite, build and drop         *)
(* concurrently.                                                           *)
(***************************************************************************)
EXTENDS Heap

CONSTANTS
  Threads,
  Relabel,      (* Relabel[l]: the label the user's rewriter gives a leaf  *)
  Transparent,
  Memoized,     (* the threads that use HirpdagRewriteMemoized             *)
  MaxBuilt,     (* bound: nodes there are when a thread begins a build     *)
  NoField, NoBuilder

ASSUME RewriteAssumption ==
  /\ Relabel \in [Labels -> Labels]
  /\ \A l \in Labels :
        /\ TypeOf[Relabel[l]] = TypeOf[l]
        /\ Relabel[l] # l => Len(Shape[l]) = 0 /\ Len(Shape[Relabel[l]]) = 0
        /\ Len(Shape[l]) = 2 => \A a \in Shape[l][2] : a[1] = Transparent => a[2] = TypeOf[l]
  /\ Memoized \subseteq Threads
  /\ MaxBuilt \in Nat
  /\ NoField \notin [variant : Variants, ref : Nodes]

VARIABLES
  holds,        (* holds[t]: nodes t has a reference to                    *)
  builder,      (* builder[t]: the builder t has                           *)
  input,        (* input[t]: the node t rewrites                           *)
  stack,        (* stack[t]: the default_rewrite calls t is in             *)
  answer,       (* answer[t]: the rewritten node, not yet taken            *)
  cache         (* cache[t]: the caches of t's HirpdagRewriteMemoized      *)

rewriting == <<input, stack, answer, cache>>
vars == <<node, holds, builder, rewriting>>

Frame(n) == [of |-> n, results |-> <<>>]
Refers(fields) == {fields[i].ref : i \in {j \in DOMAIN fields : fields[j] # NoField}}
Results(t) == UNION {Refers(stack[t][i].results) : i \in DOMAIN stack[t]}

TypeOK ==
  /\ HeapTypeOK
  /\ holds \in [Threads -> SUBSET Live]
  /\ \A t \in Threads :
        /\ builder[t] # NoBuilder =>
              /\ DOMAIN builder[t].fields = DOMAIN Shape[builder[t].label]
              /\ Refers(builder[t].fields) \subseteq Live
        /\ \A i \in DOMAIN stack[t] : stack[t][i].of \in Live
        /\ Results(t) \subseteq Live
  /\ input \in [Threads -> Live \cup {NoNode}]
  /\ answer \in [Threads -> Live \cup {NoNode}]
  /\ cache \in [Threads -> [Nodes -> Nodes \cup {NoNode}]]

Init ==
  /\ HeapInit
  /\ holds = [t \in Threads |-> {}]
  /\ builder = [t \in Threads |-> NoBuilder]
  /\ input = [t \in Threads |-> NoNode]
  /\ stack = [t \in Threads |-> <<>>]
  /\ answer = [t \in Threads |-> NoNode]
  /\ cache = [t \in Threads |-> [n \in Nodes |-> NoNode]]

Idle(t) == input[t] = NoNode

(* Bound: a thread begins with n nodes or less, fewer if others are active.*)
Active(t) == ~Idle(t) \/ holds[t] # {} \/ builder[t] # NoBuilder
HasRoom(t, n) ==
  Cardinality(Live) + Cardinality({u \in Threads \ {t} : Active(u)}) <= n

(* References threads have: handles, builders, results of rewritings.      *)
InBuilder(t) == IF builder[t] = NoBuilder THEN {} ELSE Refers(builder[t].fields)
NoResults(t) == holds[t] \cup InBuilder(t) \cup {answer[t]}
HeldByThread(t) == holds[t] \cup InBuilder(t) \cup {answer[t]} \cup Results(t)

Reclaim(n) ==
  /\ \A t \in Threads : n \notin HeldByThread(t)
  /\ Expire(n)
  /\ UNCHANGED <<holds, builder, rewriting>>

Drop(t, n) ==
  /\ Idle(t)
  /\ n \in holds[t]
  /\ holds' = [holds EXCEPT ![t] = @ \ {n}]
  /\ UNCHANGED <<node, builder, rewriting>>
-----------------------------------------------------------------------------
(***************************************************************************)
(* new and the builders.  `new' is the user's normalizer if there is one   *)
(* (#[hirpdag(normalizer)]), otherwise spawn.                              *)
(***************************************************************************)
Collapses(data) ==
  /\ Len(data.fields) = 2
  /\ data.fields[2].variant = Transparent
  /\ data.fields[1].ref = data.fields[2].ref

spawn(data) == hashcons(data)
new(data) == IF Collapses(data) THEN data.fields[1].ref ELSE spawn(data)
Interned(data) == IF Collapses(data) THEN UNCHANGED node ELSE Store(data)

Builder(t, l) ==
  /\ Idle(t) /\ builder[t] = NoBuilder /\ HasRoom(t, MaxBuilt)
  /\ builder' = [builder EXCEPT ![t] = [label |-> l, fields |-> [i \in DOMAIN Shape[l] |-> NoField]]]
  /\ UNCHANGED <<node, holds, rewriting>>

ToBuilder(t, n) ==
  /\ Idle(t) /\ builder[t] = NoBuilder /\ HasRoom(t, MaxBuilt)
  /\ n \in holds[t]
  /\ builder' = [builder EXCEPT ![t] = node[n]]
  /\ UNCHANGED <<node, holds, rewriting>>

Set(t, i, f) ==
  /\ Idle(t) /\ builder[t] # NoBuilder
  /\ i \in DOMAIN builder[t].fields
  /\ f.ref \in holds[t] /\ IsField(f, Shape[builder[t].label][i])
  /\ builder' = [builder EXCEPT ![t].fields[i] = f]
  /\ UNCHANGED <<node, holds, rewriting>>

(* build consumes the builder; it panics if a field was not set.           *)
Build(t) ==
  /\ Idle(t) /\ builder[t] # NoBuilder
  /\ LET data == builder[t]
     IN IF \E i \in DOMAIN data.fields : data.fields[i] = NoField
        THEN UNCHANGED <<node, holds>>
        ELSE /\ Interned(data)
             /\ holds' = [holds EXCEPT ![t] = @ \cup {new(data)}]
  /\ builder' = [builder EXCEPT ![t] = NoBuilder]
  /\ UNCHANGED rewriting
-----------------------------------------------------------------------------
(***************************************************************************)
(* rewriter.rewrite(&x), which calls rewrite_X(&x): the memoizing rewriter *)
(* looks in its cache and calls the rewriter it wraps.                     *)
(***************************************************************************)
Rewrite(t, x) ==
  /\ Idle(t) /\ HasRoom(t, MaxBuilt + 1)
  /\ x \in holds[t]
  /\ input' = [input EXCEPT ![t] = x]
  /\ IF t \in Memoized /\ cache[t][x] # NoNode
     THEN answer' = [answer EXCEPT ![t] = cache[t][x]] /\ UNCHANGED stack
     ELSE stack' = [stack EXCEPT ![t] = <<Frame(x)>>] /\ UNCHANGED answer
  /\ UNCHANGED <<node, holds, builder, cache>>

Depth(t) == Len(stack[t])
Top(t) == stack[t][Depth(t)]
Fields(t) == node[Top(t).of].fields
Rewriting(t) == stack[t] # <<>>
Overridden(t) == Relabel[node[Top(t).of].label] # node[Top(t).of].label

(* The call answers with n: the next field of the caller's node is done.   *)
Loses(frames, n) == frames
Delivers(frames, n) ==
  LET caller == frames[Len(frames)]
      f == node[caller.of].fields[Len(caller.results) + 1]
  IN  [frames EXCEPT ![Len(frames)].results = Append(@, [variant |-> f.variant, ref |-> n])]

Respond(t, n) ==
  LET callers == SubSeq(stack[t], 1, Depth(t) - 1)
  IN IF callers = <<>>
     THEN /\ stack' = [stack EXCEPT ![t] = <<>>]
          /\ answer' = [answer EXCEPT ![t] = n]
     ELSE /\ stack' = [stack EXCEPT ![t] = Delivers(callers, n)]
          /\ UNCHANGED answer

(* The user's rewrite_X replaces a leaf.                                   *)
Override(t) ==
  /\ Rewriting(t) /\ Overridden(t)
  /\ LET data == [node[Top(t).of] EXCEPT !.label = Relabel[@]]
     IN Interned(data) /\ Respond(t, new(data))
  /\ UNCHANGED <<holds, builder, input, cache>>

(* default_rewrite: the fields one by one (an enum keeps its variant); ... *)
RewriteField(t) ==
  /\ Rewriting(t) /\ ~Overridden(t)
  /\ LET done == Len(Top(t).results)
     IN /\ done < Len(Fields(t))
        /\ stack' = [stack EXCEPT ![t] = Append(@, Frame(Fields(t)[done + 1].ref))]
  /\ UNCHANGED <<node, holds, builder, input, answer, cache>>

(* ... then the node itself if no field changed, else a new one.           *)
SameFirst(results, fields) ==
  Len(results) = Len(fields) /\ \A i \in {1} \cap DOMAIN fields : results[i] = fields[i]
Unchanged(results, fields) == results = fields

KeepNode(t) ==
  /\ Rewriting(t) /\ ~Overridden(t)
  /\ Unchanged(Top(t).results, Fields(t))
  /\ Respond(t, Top(t).of)
  /\ UNCHANGED <<node, holds, builder, input, cache>>

NewNode(t) ==
  /\ Rewriting(t) /\ ~Overridden(t)
  /\ Len(Top(t).results) = Len(Fields(t))
  /\ ~Unchanged(Top(t).results, Fields(t))
  /\ LET data == [node[Top(t).of] EXCEPT !.fields = Top(t).results]
     IN Interned(data) /\ Respond(t, new(data))
  /\ UNCHANGED <<holds, builder, input, cache>>

(* The rewritten node is the caller's.                                     *)
Take(t) ==
  /\ answer[t] # NoNode
  /\ holds' = [holds EXCEPT ![t] = @ \cup {answer[t]}]
  /\ answer' = [answer EXCEPT ![t] = NoNode]
  /\ input' = [input EXCEPT ![t] = NoNode]
  /\ UNCHANGED <<node, builder, stack, cache>>

RewriteStep(t) == Override(t) \/ RewriteField(t) \/ KeepNode(t) \/ NewNode(t)

Next ==
  \/ \E n \in Nodes : Reclaim(n)
  \/ \E t \in Threads :
        \/ \E n \in Nodes : Drop(t, n) \/ ToBuilder(t, n)
        \/ \E l \in Labels : Builder(t, l)
        \/ builder[t] # NoBuilder /\
             \E i \in DOMAIN builder[t].fields :
               \E a \in Shape[builder[t].label][i], n \in Nodes :
                  Set(t, i, [variant |-> a[1], ref |-> n])
        \/ Build(t)
        \/ \E x \in Nodes : Rewrite(t, x)
        \/ RewriteStep(t)
        \/ Take(t)

Spec == Init /\ [][Next]_vars
FairSpec == Spec /\ \A t \in Threads : WF_vars(RewriteStep(t))
-----------------------------------------------------------------------------
(* What a rewriting computes, on structure: every node is rebuilt with its *)
(* rewritten fields through `new'.                                         *)
NewTree(data) == IF Collapses(data) THEN data.fields[1].ref ELSE data

Rebuilt(tree, data) ==
  NewTree([label |-> Relabel[data.label], fields |-> Unfolded(tree, data).fields])
RewrittenTree[n \in Live] == Rebuilt(RewrittenTree, node[n])

(* Sharing nodes, keeping those whose fields are pointer-equal and letting *)
(* intermediate nodes be reclaimed changes nothing of the result: it has   *)
(* the structure of the whole tree rebuilt.  (A node kept as it is was not *)
(* normalized again: every node there is was made by `new'.)               *)
RewritesTree ==
  \A t \in Threads :
    answer[t] # NoNode => Tree[answer[t]] = RewrittenTree[input[t]]

(* A rewriting returns: every call of default_rewrite goes down the DAG.   *)
Returns == \A t \in Threads : Rewriting(t) ~> answer[t] # NoNode

(* "caches the result of each `rewrite_*` call" (docs/TERMINOLOGY.md).     *)
ResultsCached ==
  \A t \in Memoized :
    answer[t] # NoNode => cache[t][input[t]] = answer[t]
=============================================================================
