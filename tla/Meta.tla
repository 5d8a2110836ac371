-------------------------------- MODULE Meta --------------------------------
(***************************************************************************)
(* HirpdagMeta (src/hirpdag/src/base/meta.rs): the counters and flags that *)
(* every interned node caches.  The counters saturate at the top of their  *)
(* types (u32 and u16); flags are a set of bits.                           *)
(***************************************************************************)
EXTENDS Naturals

CONSTANTS
  CountMax,     (* HirpdagMetaCountType::MAX                               *)
  HeightMax,    (* HirpdagMetaHeightType::MAX                              *)
  Flags         (* the bits of HirpdagMetaFlagType                         *)

ASSUME MetaAssumption == CountMax \in Nat /\ HeightMax \in Nat

HirpdagMeta == [count : 0 .. CountMax, height : 0 .. HeightMax, flags : SUBSET Flags]

(* saturating_add, and what an unchecked addition would do instead.        *)
WrappingAdd(a, b, top) == (a + b) % (top + 1)
SaturatingAdd(a, b, top) == IF a + b > top THEN top ELSE a + b

Higher(a, b) == IF a >= b THEN a ELSE b

zero == [count |-> 0, height |-> 0, flags |-> {}]

increment(x) ==
  [x EXCEPT !.count = SaturatingAdd(@, 1, CountMax),
            !.height = SaturatingAdd(@, 1, HeightMax)]

add_flags(x, f) == [x EXCEPT !.flags = @ \cup f]

(* fold and fold_ref: two siblings.                                        *)
fold(x, y) ==
  [count |-> SaturatingAdd(x.count, y.count, CountMax),
   height |-> Higher(x.height, y.height),
   flags |-> x.flags \cup y.flags]
=============================================================================
