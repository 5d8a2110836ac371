-------------------------------- MODULE Heap --------------------------------
(***************************************************************************)
(* Interned nodes as the code generated by #[hirpdag_module] uses them:    *)
(* what Dag.tla shows of the tables, in one step per interning.  A node    *)
(* stands for its storage and for its creation id, which are unique among  *)
(* the nodes that live.                                                    *)
(*                                                                         *)
(* A node's data is its label, which stands for its type and every field   *)
(* without references, and the references in its fields, in order: those   *)
(* of a Vec or an Option, none or several, and the one in the payload of   *)
(* an enum, with the enum's variant (an enum is stored inline).            *)
(***************************************************************************)
EXTENDS Naturals, Sequences, FiniteSets

CONSTANTS
  Nodes,
  Labels,
  TypeOf,       (* TypeOf[l]: the struct type of data with label l         *)
  Shape,        (* Shape[l][i]: the <<variant, type>>s field i may have    *)
  NoNode, NoData

Variants == UNION {UNION {{a[1] : a \in Shape[l][i]} : i \in DOMAIN Shape[l]} : l \in Labels}
DataOver(ns) ==
  UNION {[label : {l}, fields : [DOMAIN Shape[l] -> [variant : Variants, ref : ns]]] : l \in Labels}

AllData == DataOver(Nodes)

ASSUME HeapAssumption ==
  /\ \A l \in Labels : Len(Shape[l]) \in Nat /\ DOMAIN Shape[l] = 1 .. Len(Shape[l])
  /\ NoNode \notin Nodes /\ NoData \notin AllData

VARIABLE node   (* node[n]: the data of n, NoData if there is no n         *)

Live == {n \in Nodes : node[n] # NoData}

Type(n) == TypeOf[node[n].label]
Refs(data) == {data.fields[i].ref : i \in DOMAIN data.fields}
Kids(n) == IF node[n] = NoData THEN {} ELSE Refs(node[n])

(* Data of the program's types, with references to nodes that live.        *)
IsField(f, allowed) == f.ref \in Live /\ <<f.variant, Type(f.ref)>> \in allowed
IsData(data) ==
  /\ data.label \in Labels
  /\ DOMAIN data.fields = DOMAIN Shape[data.label]
  /\ \A i \in DOMAIN data.fields : IsField(data.fields[i], Shape[data.label][i])

HeapTypeOK ==
  /\ node \in [Nodes -> AllData \cup {NoData}]
  /\ \A n \in Live : IsData(node[n])

HeapInit == node = [n \in Nodes |-> NoData]

(* The structure below a node.                                             *)
Unfolded(tree, data) ==
  [label |-> data.label,
   fields |-> [i \in DOMAIN data.fields |->
                 [variant |-> data.fields[i].variant, ref |-> tree[data.fields[i].ref]]]]
Tree[n \in Live] == Unfolded(Tree, node[n])

(* hirpdag_hashcons: the node with this data, or one allocated for it.     *)
Known(data) == \E n \in Live : node[n] = data
hashcons(data) ==
  IF Known(data) THEN CHOOSE n \in Live : node[n] = data
                 ELSE CHOOSE n \in Nodes \ Live : TRUE

Store(data) ==
  IF Known(data) THEN UNCHANGED node
                 ELSE /\ Live # Nodes
                      /\ node' = [node EXCEPT ![hashcons(data)] = data]

(* The last reference to n is gone.                                        *)
HeldByNode(n) == \E p \in Live : n \in Kids(p)
Expire(n) ==
  /\ n \in Live
  /\ ~HeldByNode(n)
  /\ node' = [node EXCEPT ![n] = NoData]
=============================================================================
