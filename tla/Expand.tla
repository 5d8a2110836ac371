------------------------------- MODULE Expand -------------------------------
(***************************************************************************)
(* The expansion of #[hirpdag_module] (hirpdag_derive/src/lib.rs), for the *)
(* builds of a program as it changes: an archive is written by one build   *)
(* and read by another.                                                    *)
(*                                                                         *)
(* An item is a struct, an enum or something else, with its `hirpdag'      *)
(* attributes and its parts: the fields of a struct (without serde         *)
(* attributes) or the variants of an enum, each with its type as written;  *)
(* or with the names it defines.  Generated code is the set of the names   *)
(* it defines and of those it uses; the text of a definition is a record,  *)
(* and its FNV-1a hash is taken to be injective.                           *)
(*                                                                         *)
(* Init, Next, Spec and vars have names of their own here: a module about  *)
(* archives and the builds that exchange them extends Serialize as well.   *)
(***************************************************************************)
EXTENDS Config, Naturals, FiniteSets

CONSTANTS
  Inputs,       (* the <<arguments, items>> of #[hirpdag_module]           *)
  MaxBuilds     (* bound: builds that are remembered                       *)

(* The arguments of an attribute are in the order they are written in.     *)
ASSUME ExpandAssumption == \A input \in Inputs : input[1] \in Seq(Range(input[1]))

VARIABLES
  pc,           (* "idle", or "items" in expansion                         *)
  attr,         (* the arguments of the attribute                          *)
  config,       (* HirpdagConfig                                           *)
  items,        (* items not expanded yet                                  *)
  types,        (* the DataTypeEntry sequence                              *)
  defines, uses,(* the names the generated code defines, and uses          *)
  builds        (* the modules that expanded                               *)

expand_vars == <<pc, attr, config, items, types, defines, uses, builds>>

ExpandInit ==
  /\ pc = "idle"
  /\ attr = <<>> /\ config = default
  /\ items = <<>> /\ types = <<>>
  /\ defines = {} /\ uses = {}
  /\ builds = {}

(* A compile error, or a panic of the macro: nothing is built.             *)
Fails ==
  /\ pc' = "idle"
  /\ attr' = <<>> /\ config' = default
  /\ items' = <<>> /\ types' = <<>>
  /\ defines' = {} /\ uses' = {}
  /\ UNCHANGED builds
-----------------------------------------------------------------------------
(* The attribute's own arguments are parsed first.                         *)
Begin(args, module) ==
  /\ pc = "idle"
  /\ Cardinality(builds) < MaxBuilds
  /\ ParsesAll(args)
  /\ pc' = "items"
  /\ attr' = args /\ config' = From(args)
  /\ items' = module
  /\ UNCHANGED <<types, defines, uses, builds>>

Rejected(args) ==
  /\ pc = "idle"
  /\ ~ParsesAll(args)
  /\ Fails
-----------------------------------------------------------------------------
(* An item is expanded when it has a hirpdag attribute, on a struct or an  *)
(* enum; only the first is taken.                                          *)
Item == Head(items)
Marked == Item.kind \in {"struct", "enum"} /\ Item.attrs # <<>>
Taken == Head(Item.attrs)

PassThrough ==
  /\ pc = "items"
  /\ items # <<>>
  /\ ~Marked
  /\ items' = Tail(items)
  /\ defines' = defines \cup Item.defines
  /\ UNCHANGED <<pc, attr, config, types, uses, builds>>

(* #[hirpdag] or #[hirpdag(...)].                                          *)
ArgsOf(attribute) == IF attribute.form = "path" THEN <<>> ELSE attribute.args
Accepts(attribute) == attribute.form # "nameValue" /\ ParsesAll(ArgsOf(attribute))
TypeConfig == From(ArgsOf(Taken))

(* parse_hirpdag_args fails; a struct is not a struct with named fields;   *)
(* an enum is marked as a root.                                            *)
ItemFails ==
  /\ pc = "items"
  /\ items # <<>>
  /\ Marked
  /\ \/ ~Accepts(Taken)
     \/ Accepts(Taken) /\ Item.kind = "struct" /\ ~Item.named
     \/ Accepts(Taken) /\ Item.kind = "enum" /\ TypeConfig.root
  /\ Fails

(* The canonical description of a type: its kind, name, root marker, and   *)
(* parts with their types, in order.                                       *)
WithoutRoot(item, root) == [root |-> FALSE, kind |-> item.kind, name |-> item.name, parts |-> item.parts]
Definition(item, root) == [root |-> root, kind |-> item.kind, name |-> item.name, parts |-> item.parts]

Entry(item, root) ==
  [name |-> item.name, is_struct |-> item.kind = "struct", is_root |-> root,
   definition |-> Definition(item, root), parts |-> item.parts]

(* What the code of a type needs from the rest of the module.              *)
Session == {<<"HirpdagNodeRef">>, <<"HIRPDAG_SER_SESSION">>, <<"HIRPDAG_DE_SESSION">>}
Aliases == {<<"ImplRef">>, <<"ImplTableShared">>, <<"ImplBuildTableShared">>}
OfType(item) ==
  {<<"HirpdagRewriter">>, <<"rewrite", item.name>>, <<"HirpdagCollectCtx">>}
    \cup IF item.kind = "enum" THEN {}
         ELSE Session \cup Aliases \cup {<<"new", item.name>>, <<"HirpdagArchiveNode">>}

(* A struct's constructor `new' is generated unless the user normalizes    *)
(* (and writes it).                                                        *)
ExpandItem ==
  /\ pc = "items"
  /\ items # <<>>
  /\ Marked
  /\ Accepts(Taken)
  /\ Item.kind = "struct" => Item.named
  /\ Item.kind = "enum" => ~TypeConfig.root
  /\ items' = Tail(items)
  /\ types' = Append(types, Entry(Item, TypeConfig.root))
  /\ defines' = defines \cup {<<"type", Item.name>>}
                  \cup {n \in {<<"new", Item.name>>} : Item.kind = "struct" /\ ~TypeConfig.normalizer}
  /\ uses' = uses \cup OfType(Item)
  /\ UNCHANGED <<pc, attr, config, builds>>
-----------------------------------------------------------------------------
(* expand_hirpdag_end: from here on the arguments of the module count, and *)
(* only their types.                                                       *)
struct_types == SelectSeq(types, LAMBDA entry : entry.is_struct)
root_types == SelectSeq(struct_types, LAMBDA entry : entry.is_root)

schema_hash == [i \in DOMAIN types |-> types[i].definition]

(* How the archive is laid out: the variants of HirpdagArchiveNode, in     *)
(* order, with the fields of each; the vectors of HirpdagArchiveRoots; and *)
(* the enums that fields hold inline.                                      *)
Layout(entry) == [name |-> entry.name, parts |-> entry.parts]
Wire ==
  [nodes |-> [i \in DOMAIN struct_types |-> Layout(struct_types[i])],
   roots |-> [i \in DOMAIN root_types |-> root_types[i].name],
   inline |-> {Layout(types[i]) : i \in {j \in DOMAIN types : ~types[j].is_struct}}]

(* Nothing to serialize without structs, no entry points without roots.    *)
Serialization ==
  (IF struct_types = <<>> THEN {}
   ELSE Session \cup {<<"HirpdagArchiveNode">>, <<"HirpdagCollectCtx">>})
    \cup (IF root_types = <<>> THEN {}
          ELSE {<<"HirpdagArchiveRoots">>, <<"serialize">>, <<"deserialize">>})

Rewriting == {<<"HirpdagRewriter">>, <<"HirpdagRewriteMemoized">>}
               \cup {<<"rewrite", types[i].name>> : i \in DOMAIN types}

ExpandEnd ==
  /\ pc = "items"
  /\ items = <<>>
  /\ Usable(config.types)
  /\ builds' = builds \cup
       {[args |-> attr, selects |-> config.types, wire |-> Wire, schema |-> schema_hash,
         types |-> Len(types),
         uses |-> uses,
         defines |-> defines \cup Rewriting \cup Serialization \cup Aliases]}
  /\ pc' = "idle"
  /\ attr' = <<>> /\ config' = default /\ types' = <<>>
  /\ defines' = {} /\ uses' = {}
  /\ UNCHANGED items

EndFails ==
  /\ pc = "items"
  /\ items = <<>>
  /\ ~Usable(config.types)
  /\ Fails
-----------------------------------------------------------------------------
ExpandNext ==
  \/ \E input \in Inputs : Begin(input[1], input[2]) \/ Rejected(input[1])
  \/ PassThrough
  \/ ItemFails
  \/ ExpandItem
  \/ ExpandEnd
  \/ EndFails

ExpandSpec == ExpandInit /\ [][ExpandNext]_expand_vars
-----------------------------------------------------------------------------
(* The types a build uses: each is the last one set after the last preset, *)
(* or that preset's; so a type set before a preset has no effect.          *)
ConfigExact ==
  \A b \in builds :
    LET last(name) == Max({0} \cup {i \in DOMAIN b.args : b.args[i].name = name})
        preset == IF last("preset") = 0 THEN DEFAULT_PRESET ELSE b.args[last("preset")].value
        overridden(name) == last(name) > last("preset")
    IN  /\ \A name \in TypeArguments \ {"table_type"} :
              b.selects[name] = IF overridden(name) THEN b.args[last(name)].value
                                ELSE preset_types[preset][name]
        /\ b.selects.aliases =
              IF overridden("table_type")
              THEN <<[name |-> "ImplTable", rhs |-> b.args[last("table_type")].value]>>
              ELSE preset_types[preset].aliases

(* Two builds whose fingerprints agree lay out archives alike: one never   *)
(* misparses what the other wrote, however the module has changed.         *)
SchemaFixesWire ==
  \A writer, reader \in builds : writer.schema = reader.schema => writer.wire = reader.wire

(* "Generated code uses absolute paths (the module needs no imports)": in  *)
(* a module with hirpdag types, every name of its own that the generated   *)
(* code uses is generated too, or defined by an item (a user's `new').     *)
SelfContained == \A b \in builds : b.types > 0 => b.uses \subseteq b.defines
=============================================================================
