----------------------------- MODULE Serialize -----------------------------
(***************************************************************************)
(* Archives (src/hirpdag/src/base/serialize.rs and the serialization items *)
(* generated by src/hirpdag_derive/src/lib.rs): hirpdag_serialize and      *)
(* hirpdag_deserialize with their _json variants.                          *)
(*                                                                         *)
(* Every call of an entry point is a frame; a field of a user's type may   *)
(* call entry points again while it is (de)serialized, and may fail.  The  *)
(* sessions that give references a meaning are thread-local.               *)
(*                                                                         *)
(* An archive is its header (binary only) and its parts, in the order of   *)
(* the input.  Version, nodes and roots are the fields of HirpdagArchive;  *)
(* a reader ignores every other part.  A reference is an index into the    *)
(* nodes, from 0.  postcard and serde_json are taken to give back what     *)
(* they were given; inputs from elsewhere are the archives in Foreign,     *)
(* whose content is what a reader takes from it (unknown fields inside an  *)
(* entry or the roots left out, a type the roots do not name empty).       *)
(***************************************************************************)
EXTENDS Heap, SequencesExt

CONSTANTS
  Threads,
  RootOrder,    (* the types marked #[hirpdag(root)], in the module's order *)
  Schema,       (* the fingerprint of this program's types                 *)
  Version,      (* HIRPDAG_FORMAT_VERSION                                  *)
  Formats,      (* the formats this program writes: "binary", "json"       *)
  Foreign,      (* archives other programs or people wrote                 *)
  MaxBuilt,     (* bound: nodes there are when another one is built, and   *)
                (* one less than when a call begins                        *)
  MaxCalls,     (* bound: calls of entry points inside one another         *)
  MaxWritten,   (* bound: archives written                                 *)
  NoSession

RootTypes == Range(RootOrder)

(* The fields of HirpdagArchive, and text that is no field of an object.   *)
FieldNames == <<"version", "nodes", "roots">>
Fields == Range(FieldNames)
Junk == "junk"

(* A sequence, whatever its elements are.                                  *)
IsSeq(s) == Len(s) \in Nat /\ s = [i \in 1 .. Len(s) |-> s[i]]

(* An archive of anyone: indices and what they are in may be anything.  In *)
(* JSON the fields are told by their names, in binary by their places, and *)
(* postcard does not look at what follows them.                            *)
IsArchive(a) ==
  /\ IsSeq(a.parts)
  /\ a.format = "binary" =>
       \A p \in DOMAIN a.parts : a.parts[p].name = IF p <= 3 THEN FieldNames[p] ELSE "rest"
  /\ \A p \in DOMAIN a.parts :
       LET content == a.parts[p].content
       IN /\ a.parts[p].name = "nodes" =>
               /\ IsSeq(content)
               /\ \A k \in DOMAIN content : \A i \in DOMAIN content[k].fields :
                    content[k].fields[i].index \in Nat
          /\ a.parts[p].name = "roots" =>
               \A ty \in RootTypes : IsSeq(content[ty]) /\ Range(content[ty]) \subseteq Nat

ASSUME SerializeAssumption ==
  /\ \A l \in Labels : \A i \in DOMAIN Shape[l] : \A a \in Shape[l][i] : a = <<a[1], a[2]>>
  /\ IsSeq(RootOrder)
  /\ \A a \in Foreign : IsArchive(a)
  /\ NoSession \notin Seq(Nodes)
  /\ \A S \in SUBSET Nodes : NoSession \notin [S -> Nat]

VARIABLES
  holds,        (* holds[t]: nodes t has a reference to                    *)
  stack,        (* stack[t]: the entry points t is in                      *)
  ser,          (* HIRPDAG_SER_SESSION of t: node |-> index                *)
  de,           (* HIRPDAG_DE_SESSION of t: the nodes reconstructed        *)
  written       (* archives, with the structure that was written           *)

vars == <<node, holds, stack, ser, de, written>>

Depth(t) == Len(stack[t])
Top(t) == stack[t][Depth(t)]
InCall(t, kind) == stack[t] # <<>> /\ Top(t).kind = kind
Frames(t, kind) == {i \in DOMAIN stack[t] : stack[t][i].kind = kind}

(* The part of the archive that is decoded next; none at the end.          *)
Parts(t) == Top(t).archive.parts
AtPart(t, name) ==
  InCall(t, "de") /\ Top(t).part <= Len(Parts(t)) /\ Parts(t)[Top(t).part].name = name
Content(t) == Parts(t)[Top(t).part].content

(* No field of HirpdagArchive comes twice.                                 *)
FirstOfItsName(t) == \A i \in 1 .. Top(t).part - 1 : Parts(t)[i].name # Parts(t)[Top(t).part].name

(* Nodes are left to encode or decode.                                     *)
MoreToEncode(t) == InCall(t, "ser") /\ Len(Top(t).out) < Len(Top(t).nodes)
MoreToDecode(t) == AtPart(t, "nodes") /\ FirstOfItsName(t) /\ Len(de[t]) < Len(Content(t))

InField(t) == MoreToEncode(t) \/ MoreToDecode(t)

RootsOf(roots) == UNION {Range(roots[ty]) : ty \in RootTypes}
RootTrees(roots) == [ty \in RootTypes |-> [i \in DOMAIN roots[ty] |-> Tree[roots[ty][i]]]]
NoRoots == [ty \in RootTypes |-> <<>>]

SessionNodes(t) == IF de[t] = NoSession THEN {} ELSE Range(de[t])

TypeOK ==
  /\ HeapTypeOK
  /\ holds \in [Threads -> SUBSET Live]
  /\ \A t \in Threads :
        /\ \A i \in DOMAIN stack[t] :
              /\ stack[t][i].kind \in {"ser", "de"}
              /\ RootsOf(stack[t][i].roots) \subseteq Live
        /\ SessionNodes(t) \subseteq Live
        /\ ser[t] = NoSession \/ DOMAIN ser[t] \subseteq Live

Init ==
  /\ HeapInit
  /\ holds = [t \in Threads |-> {}]
  /\ stack = [t \in Threads |-> <<>>]
  /\ ser = [t \in Threads |-> NoSession]
  /\ de = [t \in Threads |-> NoSession]
  /\ written = {}
-----------------------------------------------------------------------------
(***************************************************************************)
(* Nodes: built from nodes a thread has, dropped, reclaimed when neither a *)
(* handle, a session nor the roots of a call refer to them.                *)
(***************************************************************************)
InCalls(t) == UNION {RootsOf(stack[t][i].roots) : i \in DOMAIN stack[t]}
NoSessions(t) == holds[t] \cup InCalls(t)
HeldByThread(t) == holds[t] \cup InCalls(t) \cup SessionNodes(t)

Build(t, data) ==
  /\ stack[t] = <<>>
  /\ Cardinality(Live) <= MaxBuilt
  /\ Refs(data) \subseteq holds[t]
  /\ IsData(data)
  /\ Store(data)
  /\ holds' = [holds EXCEPT ![t] = @ \cup {hashcons(data)}]
  /\ UNCHANGED <<stack, ser, de, written>>

Drop(t, n) ==
  /\ stack[t] = <<>> \/ InField(t)
  /\ n \in holds[t]
  /\ holds' = [holds EXCEPT ![t] = @ \ {n}]
  /\ UNCHANGED <<node, stack, ser, de, written>>

Reclaim(n) ==
  /\ \A t \in Threads : n \notin HeldByThread(t)
  /\ Expire(n)
  /\ UNCHANGED <<holds, stack, ser, de, written>>
-----------------------------------------------------------------------------
(***************************************************************************)
(* hirpdag_serialize and hirpdag_serialize_json                            *)
(***************************************************************************)

(* hirpdag_collect: the nodes reachable, every one once and after the      *)
(* nodes it refers to.                                                     *)
FieldRefs(n) == [i \in DOMAIN node[n].fields |-> node[n].fields[i].ref]

Through(collect, ns, seen) ==
  LET upTo[i \in 0 .. Len(ns)] == IF i = 0 THEN seen ELSE collect[ns[i]][upTo[i - 1]]
  IN  upTo[Len(ns)]

NeverSeen(n, nodes) == FALSE
Seen(n, nodes) == \E i \in DOMAIN nodes : nodes[i] = n
Collected(collect, n) ==
  [nodes \in Seq(Live) |->
     IF Seen(n, nodes) THEN nodes ELSE Append(Through(collect, FieldRefs(n), nodes), n)]
Collect[n \in Live] == Collected(Collect, n)

CollectRoots(roots) ==
  Through([ty \in RootTypes |-> [nodes \in Seq(Live) |-> Through(Collect, roots[ty], nodes)]],
          RootOrder, <<>>)

ByAge(nodes) == [n \in Range(nodes) |-> Cardinality({m \in Range(nodes) : m < n})]
Indices(nodes) == [n \in Range(nodes) |-> CHOOSE i \in 0 .. Len(nodes) - 1 : nodes[i + 1] = n]

(* A guard opens a session unless the thread has one; Err(SessionActive)   *)
(* leaves that one as it is.                                               *)
Reentrant(session) == TRUE
MayOpen(session) == session = NoSession

(* The user's code runs between calls, and while a node is (de)serialized. *)
UserCode(t) == Depth(t) = 0 \/ (Depth(t) < MaxCalls /\ InField(t))

Serialize(t, format, roots) ==
  /\ UserCode(t) /\ Cardinality(Live) <= MaxBuilt + 1
  /\ RootsOf(roots) \subseteq holds[t]
  /\ \A ty \in RootTypes : \A n \in Range(roots[ty]) : Type(n) = ty
  /\ Cardinality(written) < MaxWritten
  /\ MayOpen(ser[t])
  /\ LET nodes == CollectRoots(roots)
     IN /\ ser' = [ser EXCEPT ![t] = Indices(nodes)]
        /\ stack' = [stack EXCEPT ![t] = Append(@,
             [kind |-> "ser", format |-> format, roots |-> roots, nodes |-> nodes, out |-> <<>>])]
  /\ UNCHANGED <<node, holds, de, written>>

(* A reference is serialized as its index in the session (without one it   *)
(* is an error: SessionsMatch says that this does not happen).             *)
Encoded(data, session) ==
  [label |-> data.label,
   fields |-> [i \in DOMAIN data.fields |->
                 [variant |-> data.fields[i].variant, index |-> session[data.fields[i].ref]]]]

Resolvable(refs, session) == session # NoSession /\ refs \subseteq DOMAIN session

EncodeNode(t) ==
  /\ MoreToEncode(t)
  /\ LET k == Len(Top(t).out) + 1
     IN /\ Resolvable(Kids(Top(t).nodes[k]), ser[t])
        /\ stack' = [stack EXCEPT ![t][Depth(t)].out =
                       Append(@, Encoded(node[Top(t).nodes[k]], ser[t]))]
  /\ UNCHANGED <<node, holds, ser, de, written>>

Archive(format, nodes, roots) ==
  [format |-> format, magic |-> TRUE, schema |-> Schema,
   parts |-> <<[name |-> "version", content |-> Version],
               [name |-> "nodes", content |-> nodes],
               [name |-> "roots", content |-> roots]>>]

(* The roots follow, the guard is dropped, the header comes in front.      *)
EncodeRoots(t) ==
  /\ InCall(t, "ser")
  /\ LET call == Top(t)
     IN /\ ~MoreToEncode(t)
        /\ Resolvable(RootsOf(call.roots), ser[t])
        /\ written' = written \cup
             {[archive |-> Archive(call.format, call.out,
                 [ty \in RootTypes |->
                    [i \in DOMAIN call.roots[ty] |-> ser[t][call.roots[ty][i]]]]),
               trees |-> RootTrees(call.roots)]}
  /\ ser' = [ser EXCEPT ![t] = NoSession]
  /\ stack' = [stack EXCEPT ![t] = Front(@)]
  /\ UNCHANGED <<node, holds, de>>
-----------------------------------------------------------------------------
(***************************************************************************)
(* hirpdag_deserialize and hirpdag_deserialize_json                        *)
(***************************************************************************)

(* hirpdag_read_binary_header; JSON has no header.                         *)
HeaderOK(a) == a.format = "json" \/ (a.magic /\ a.schema = Schema)

Deserialize(t, a) ==
  /\ UserCode(t) /\ Cardinality(Live) <= MaxBuilt + 1
  /\ HeaderOK(a)
  /\ MayOpen(de[t])
  /\ de' = [de EXCEPT ![t] = <<>>]
  /\ stack' = [stack EXCEPT ![t] = Append(@,
       [kind |-> "de", archive |-> a, part |-> 1, roots |-> NoRoots])]
  /\ UNCHANGED <<node, holds, ser, written>>

PartDone(t) == [stack EXCEPT ![t][Depth(t)].part = @ + 1]

(* The derived Deserialize ignores a field it does not know, however often *)
(* it comes.                                                               *)
IsUnknown(t) ==
  /\ InCall(t, "de")
  /\ Top(t).part <= Len(Parts(t))
  /\ Parts(t)[Top(t).part].name \notin Fields \cup {Junk}

IgnorePart(t) ==
  /\ IsUnknown(t)
  /\ stack' = PartDone(t)
  /\ UNCHANGED <<node, holds, ser, de, written>>

(* A reference: an index of a node reconstructed before, of the type.      *)
IsNode(index, types, session) == index < Len(session)
IsRef(index, types, session) ==
  index < Len(session) /\ Type(session[index + 1]) \in types

FieldTypes(data, i) == {a[2] : a \in {x \in Shape[data.label][i] : x[1] = data.fields[i].variant}}

NodeOK(data, session) ==
  /\ data.label \in Labels
  /\ DOMAIN data.fields = DOMAIN Shape[data.label]
  /\ \A i \in DOMAIN data.fields : IsRef(data.fields[i].index, FieldTypes(data, i), session)

RootsOK(roots, session) ==
  \A ty \in RootTypes : \A i \in DOMAIN roots[ty] : IsRef(roots[ty][i], {ty}, session)

VersionFits(t) == AtPart(t, "version") /\ FirstOfItsName(t) /\ Content(t) = Version

DecodeVersion(t) ==
  /\ VersionFits(t)
  /\ stack' = PartDone(t)
  /\ UNCHANGED <<node, holds, ser, de, written>>

(* A node is interned as soon as it is decoded, without normalizing it,    *)
(* and kept by the session.                                                *)
Decoded(data, session) ==
  [label |-> data.label,
   fields |-> [i \in DOMAIN data.fields |->
                 [variant |-> data.fields[i].variant,
                  ref |-> session[data.fields[i].index + 1]]]]

NextNode(t) == Content(t)[Len(de[t]) + 1]

NodeFits(t) == MoreToDecode(t) /\ NodeOK(NextNode(t), de[t])

DecodeNode(t) ==
  /\ NodeFits(t)
  /\ LET data == Decoded(NextNode(t), de[t])
     IN /\ Store(data)
        /\ de' = [de EXCEPT ![t] = Append(@, hashcons(data))]
  /\ UNCHANGED <<holds, stack, ser, written>>

NodesEnd(t) == AtPart(t, "nodes") /\ FirstOfItsName(t) /\ ~MoreToDecode(t)

EndNodes(t) ==
  /\ NodesEnd(t)
  /\ stack' = PartDone(t)
  /\ UNCHANGED <<node, holds, ser, de, written>>

RootsFit(t) == AtPart(t, "roots") /\ FirstOfItsName(t) /\ RootsOK(Content(t), de[t])

DecodeRoots(t) ==
  /\ RootsFit(t)
  /\ stack' = [PartDone(t) EXCEPT ![t][Depth(t)].roots =
                 [ty \in RootTypes |->
                    [i \in DOMAIN Content(t)[ty] |-> de[t][Content(t)[ty][i] + 1]]]]
  /\ UNCHANGED <<node, holds, ser, de, written>>

(* The whole archive is decoded: its roots are the caller's.               *)
Complete(t) ==
  /\ InCall(t, "de")
  /\ Top(t).part > Len(Parts(t))
  /\ Fields \subseteq {Parts(t)[i].name : i \in DOMAIN Parts(t)}

ReturnRoots(t) ==
  /\ Complete(t)
  /\ holds' = [holds EXCEPT ![t] = @ \cup RootsOf(Top(t).roots)]
  /\ de' = [de EXCEPT ![t] = NoSession]
  /\ stack' = [stack EXCEPT ![t] = Front(@)]
  /\ UNCHANGED <<node, ser, written>>

(* What comes next is refused, or the input ends early: nothing of what a  *)
(* reader can do next applies.                                             *)
Malformed(t) ==
  /\ InCall(t, "de")
  /\ ~Complete(t)
  /\ ~(VersionFits(t) \/ NodeFits(t) \/ NodesEnd(t) \/ RootsFit(t) \/ IsUnknown(t))
-----------------------------------------------------------------------------
(* An error, of the input or of the user's code for a field (which may     *)
(* pass on that of a call it made, or panic): the guard ends the session.  *)
DropGuard(t) ==
  IF Top(t).kind = "ser"
  THEN ser' = [ser EXCEPT ![t] = NoSession] /\ UNCHANGED de
  ELSE de' = [de EXCEPT ![t] = NoSession] /\ UNCHANGED ser

Abort(t) ==
  /\ DropGuard(t)
  /\ stack' = [stack EXCEPT ![t] = Front(@)]
  /\ UNCHANGED <<node, holds, written>>

Reject(t) == Malformed(t) /\ Abort(t)

FieldFails(t) == InField(t) /\ Abort(t)

(* Bound: once this program has written, it reads what it wrote; before,   *)
(* archives from elsewhere, while there is room for one more node.         *)
Readable ==
  IF written # {} THEN {w.archive : w \in written}
  ELSE {a \in Foreign : Cardinality(Live) <= MaxBuilt}

(* Roots a thread may write: at most one of each type.                     *)
SomeRoots(t) == [RootTypes -> {<<>>} \cup {<<n>> : n \in holds[t]}]

Next ==
  \/ \E n \in Nodes : Reclaim(n)
  \/ \E t \in Threads :
        \/ \E data \in DataOver(holds[t]) : Build(t, data)
        \/ \E n \in Nodes : Drop(t, n)
        \/ \E format \in Formats, roots \in SomeRoots(t) : Serialize(t, format, roots)
        \/ EncodeNode(t) \/ EncodeRoots(t)
        \/ \E a \in Readable : Deserialize(t, a)
        \/ DecodeVersion(t) \/ DecodeNode(t) \/ EndNodes(t) \/ DecodeRoots(t)
        \/ IgnorePart(t) \/ ReturnRoots(t) \/ Reject(t) \/ FieldFails(t)

Spec == Init /\ [][Next]_vars
-----------------------------------------------------------------------------
(* Sessions are not re-entrant: a session belongs to the one call under    *)
(* way that opened it, whatever calls the user's code makes inside it and  *)
(* however they end, and does not outlive it.                              *)
SessionsMatch ==
  \A t \in Threads :
    /\ Cardinality(Frames(t, "ser")) <= 1 /\ Cardinality(Frames(t, "de")) <= 1
    /\ IF Frames(t, "ser") = {} THEN ser[t] = NoSession
       ELSE \A i \in Frames(t, "ser") : ser[t] = Indices(stack[t][i].nodes)
    /\ Frames(t, "de") = {} <=> de[t] = NoSession

(* What the nodes of an archive denote, apart from any heap.               *)
Denoted(tree, entry) ==
  [label |-> entry.label,
   fields |-> [j \in DOMAIN entry.fields |->
                 [variant |-> entry.fields[j].variant,
                  ref |-> tree[entry.fields[j].index + 1]]]]
Denotes(nodes) == LET tree[i \in DOMAIN nodes] == Denoted(tree, nodes[i]) IN tree

PartNames(a) == [i \in DOMAIN a.parts |-> a.parts[i].name]
PlaceOf(a, name) == CHOOSE i \in DOMAIN a.parts : a.parts[i].name = name
PartOf(a, name) == a.parts[PlaceOf(a, name)].content

(* Reading an archive written earlier gives back the structure of what was *)
(* written, whatever was dropped, reclaimed and interned in between (nodes *)
(* of the session live until what refers to them is interned).             *)
RoundTrip ==
  \A t \in Threads : Complete(t) =>
    LET a == Top(t).archive
        roots == PartOf(a, "roots")
    IN /\ RootTrees(Top(t).roots) =
            [ty \in RootTypes |->
               [i \in DOMAIN roots[ty] |-> Denotes(PartOf(a, "nodes"))[roots[ty][i] + 1]]]
       /\ \A w \in written : w.archive = a => RootTrees(Top(t).roots) = w.trees

(* Sharing is preserved: an archive this program writes has no structure   *)
(* twice, and nothing its roots do not need.                               *)
NodesOnce ==
  \A w \in written :
    LET nodes == PartOf(w.archive, "nodes")
        roots == PartOf(w.archive, "roots")
        trees == Denotes(nodes)
    IN /\ \A i, j \in DOMAIN nodes : trees[i] = trees[j] => i = j
       /\ \A k \in DOMAIN nodes :
            \/ \E ty \in RootTypes : k - 1 \in Range(roots[ty])
            \/ \E p \in DOMAIN nodes : \E i \in DOMAIN nodes[p].fields :
                 nodes[p].fields[i].index = k - 1

(* What is asked of an archive, apart from how it is read: this schema and *)
(* version, each field once, whatever else there is, references that all   *)
(* go backwards, to a node of the type of the field, and roots after the   *)
(* nodes they refer to.                                                    *)
RefersTo(nodes, index, types) ==
  index + 1 \in DOMAIN nodes /\ nodes[index + 1].label \in Labels
    /\ TypeOf[nodes[index + 1].label] \in types

ComesOnce(a, name) ==
  \E i \in DOMAIN a.parts : \A j \in DOMAIN a.parts : a.parts[j].name = name <=> j = i

WellFormed(a) ==
  /\ a.format = "binary" => a.magic /\ a.schema = Schema
  /\ \A name \in Fields : ComesOnce(a, name)
  /\ Junk \notin Range(PartNames(a))
  /\ PartOf(a, "version") = Version
  /\ LET nodes == PartOf(a, "nodes")
         roots == PartOf(a, "roots")
     IN /\ \A k \in DOMAIN nodes :
             /\ nodes[k].label \in Labels
             /\ DOMAIN nodes[k].fields = DOMAIN Shape[nodes[k].label]
             /\ \A i \in DOMAIN nodes[k].fields :
                  /\ nodes[k].fields[i].index + 1 < k
                  /\ RefersTo(nodes, nodes[k].fields[i].index, FieldTypes(nodes[k], i))
        /\ \A ty \in RootTypes : \A i \in DOMAIN roots[ty] :
             /\ PlaceOf(a, "nodes") < PlaceOf(a, "roots")
             /\ RefersTo(nodes, roots[ty][i], {ty})

(* The single forward pass accepts exactly the well-formed archives: one   *)
(* it comes to the end of is, and it finds no fault with one that is,      *)
(* whatever is interned before it comes to a fault.                        *)
AcceptsWellFormed ==
  \A t \in Threads : InCall(t, "de") =>
    /\ Complete(t) => WellFormed(Top(t).archive)
    /\ Malformed(t) => ~WellFormed(Top(t).archive)
=============================================================================
