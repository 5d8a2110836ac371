------------------------------- MODULE Config -------------------------------
(***************************************************************************)
(* The arguments of #[hirpdag_module(...)] and #[hirpdag(...)], and the    *)
(* configuration they select (hirpdag_derive/src/config.rs).               *)
(*                                                                         *)
(* An argument is what the parser finds before the next comma: a name,     *)
(* whether `=' follows, and a literal: none, a string, or another literal  *)
(* (`false', a number).  What is not a literal stays in the input and ends *)
(* the list with an error ("ident").  A type is a string; "Foo(" stands    *)
(* for one that is not a token stream.                                     *)
(***************************************************************************)
EXTENDS Sequences, SequencesExt

Argument(name, eq, kind, value) == [name |-> name, eq |-> eq, kind |-> kind, value |-> value]
Flag(name) == Argument(name, FALSE, "none", "")
Text(name, value) == Argument(name, TRUE, "string", value)
-----------------------------------------------------------------------------
(* The types a preset selects.  The aliases are the helper types that the  *)
(* shared table is generic over.                                           *)
hashmap_fallback(inner_table) == "TableHashmapFallbackWeak of " \o inner_table

sharded(base, inner_table) ==
  [reference_type |-> base, reference_weak_type |-> base \o "Weak",
   aliases |-> <<[name |-> "ImplTable", rhs |-> inner_table]>>,
   tableshared_type |-> "TableSharedSharded of ImplTable",
   build_tableshared_type |-> "BuildTableSharedSharded of ImplTable"]

concurrent(base, shared_base) ==
  [reference_type |-> base, reference_weak_type |-> base \o "Weak",
   aliases |-> <<>>,
   tableshared_type |-> "TableShared" \o shared_base,
   build_tableshared_type |-> "BuildTableShared" \o shared_base]

DEFAULT_PRESET == "arc_hash_linear"

linear == hashmap_fallback("TableVecLinearWeak")

preset_types ==
  [arc_hash_linear    |-> sharded("RefArc", linear),
   arc_hash_sorted    |-> sharded("RefArc", hashmap_fallback("TableVecSortedWeak")),
   leak_hash_linear   |-> sharded("RefLeak", linear),
   sep_hash_linear    |-> sharded("RefSep", linear),
   seppad_hash_linear |-> sharded("RefSepPad", linear),
   sepu32_hash_linear |-> sharded("RefSepU32", linear),
   tlc_hash_linear    |-> sharded("RefTlc", linear),
   arc_tovweaktable   |-> sharded("RefArc", "TableTovWeakTable"),
   arc_dashmap        |-> concurrent("RefArc", "DashMap"),
   arc_flurry         |-> concurrent("RefArc", "Flurry"),
   arc_skipmap        |-> concurrent("RefArc", "SkipMap"),
   arc_arcswap        |-> concurrent("RefArc", "ArcSwap")]
PRESETS == DOMAIN preset_types
-----------------------------------------------------------------------------
(* The parser.  A flag takes any literal, or none: `root = false' is the   *)
(* flag.  A preset must be known, so that looking it up later cannot fail. *)
Flags == {"normalizer", "root"}
TypeArguments == {"reference_type", "reference_weak_type", "table_type", "tableshared_type",
                  "build_tableshared_type"}
StringArguments == TypeArguments \cup {"preset"}

Parses(a) ==
  /\ a.name \in Flags \cup StringArguments
  /\ a.kind # "ident"
  /\ a.name \in StringArguments => a.eq /\ a.kind = "string"
  /\ a.name = "preset" => a.value \in PRESETS

ParsesAll(args) == \A i \in DOMAIN args : Parses(args[i])
-----------------------------------------------------------------------------
(* HirpdagConfig::from: the arguments in order, the last one wins.  A      *)
(* preset replaces every type, also those set before it.                   *)
default == [normalizer |-> FALSE, root |-> FALSE, types |-> preset_types[DEFAULT_PRESET]]

set_alias(types, name, rhs) ==
  LET at == {i \in DOMAIN types.aliases : types.aliases[i].name = name}
      entry == [name |-> name, rhs |-> rhs]
  IN  [types EXCEPT !.aliases =
         IF at = {} THEN Append(@, entry)
         ELSE [i \in DOMAIN @ |-> IF i \in at THEN entry ELSE @[i]]]

PresetKeepsAliases(types, name) == [preset_types[name] EXCEPT !.aliases = types.aliases]
Selected(types, name) == preset_types[name]

Override(config, a) ==
  CASE a.name \in Flags -> [config EXCEPT ![a.name] = TRUE]
    [] a.name = "table_type" -> [config EXCEPT !.types = set_alias(@, "ImplTable", a.value)]
    [] a.name = "preset" -> [config EXCEPT !.types = Selected(@, a.value)]
    [] OTHER -> [config EXCEPT !.types[a.name] = a.value]

From(args) == FoldLeft(Override, default, args)

(* The accessors parse the types into tokens, and panic where they cannot. *)
Tokenizes(type) == type # "Foo("
Usable(types) ==
  /\ \A name \in TypeArguments \ {"table_type"} : Tokenizes(types[name])
  /\ \A i \in DOMAIN types.aliases : Tokenizes(types.aliases[i].rhs)
=============================================================================
