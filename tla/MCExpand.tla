------------------------------ MODULE MCExpand ------------------------------
(***************************************************************************)
(* Versions of a module of up to two items: structs with other fields,     *)
(* another order of fields or another root marker, enums, unmarked and     *)
(* unacceptable items; and, on one of them, argument lists of up to three  *)
(* arguments, with every way in which one can be refused.                  *)
(***************************************************************************)
EXTENDS Expand, TLC

Part(name, type) == <<name, type>>
MCItem(kind, name, parts, attrs) ==
  [kind |-> kind, name |-> name, parts |-> parts, named |-> TRUE, attrs |-> attrs, defines |-> {}]

Path == <<[form |-> "path", args |-> <<>>]>>
List(args) == <<[form |-> "list", args |-> args]>>
NameValue == <<[form |-> "nameValue", args |-> <<>>]>>

Root == Flag("root")
RootFalse == Argument("root", TRUE, "other", "")
Normalizer == Flag("normalizer")

Leaf(parts, attrs) == MCItem("struct", "Leaf", parts, attrs)
Node(attrs) == MCItem("struct", "Node", <<Part("kids", "Vec<Leaf>")>>, attrs)
Kind(parts, attrs) == MCItem("enum", "Kind", parts, attrs)
Impl == [MCItem("other", "impl", <<>>, <<>>) EXCEPT !.defines = {<<"new", "Node">>}]

MCItems ==
  {Leaf(<<Part("x", "u32"), Part("y", "u32")>>, Path),
   Leaf(<<Part("y", "u32"), Part("x", "u32")>>, List(<<Root>>)),
   Leaf(<<Part("x", "u64"), Part("y", "u32")>>, List(<<RootFalse>>)),
   Leaf(<<Part("x", "u32"), Part("y", "u32")>>, List(<<Text("preset", "arc_dashmap"), Root>>)),
   Leaf(<<>>, <<>>), [Leaf(<<Part("0", "u32")>>, Path) EXCEPT !.named = FALSE],
   Leaf(<<>>, NameValue), Leaf(<<>>, List(<<Flag("leaf")>>)),
   Node(Path), Node(List(<<Root>>)),
   Kind(<<Part("A", ""), Part("B", "(u32)")>>, Path),
   Kind(<<Part("B", "(u32)"), Part("A", "")>>, Path \o List(<<Root>>)),
   Kind(<<Part("A", "")>>, List(<<Root>>)), Impl}

MCModules ==
  {s \in BoundedSeq(MCItems, 2) : Len(s) = 2 /\ s[1].kind # "other" => s[1].name # s[2].name}
    \cup {<<Node(List(<<Normalizer, Root>>)), Impl>>}

MCArgs ==
  BoundedSeq({Text("preset", "arc_dashmap"), Text("preset", "arc_hash_sorted"),
              Text("table_type", "T"), Text("tableshared_type", "S")}, 3)
    \cup BoundedSeq({Root, Normalizer, Text("reference_type", "R"),
                     Text("reference_weak_type", "Foo("), Text("table_type", "Foo("),
                     Text("preset", "arc_hash"), Flag("preset"),
                     Argument("preset", TRUE, "other", ""), Argument("root", TRUE, "ident", "")}, 2)

MCInputs ==
  ({<<>>} \X MCModules) \cup (MCArgs \X {<<Leaf(<<Part("x", "u32")>>, List(<<Root>>))>>})
=============================================================================
