------------------------------- MODULE MCDag -------------------------------
(***************************************************************************)
(* Two types: leaves (a), and inner nodes with two children (f), on three  *)
(* addresses, so that addresses are reused.  Counters saturate at 4 nodes  *)
(* and height 2.                                                           *)
(***************************************************************************)
EXTENDS Dag, TLC

CONSTANTS t1, t2, n1, n2, n3, a, f, leaf, inner, flag, c1

MCThreads == {t1, t2}
MCThread == {t1}
MCNodes == {n1, n2, n3}
MCFlags == {flag}
MCLabels == {a, f}
MCArity == a :> 0 @@ f :> 2
MCTypeOf == a :> leaf @@ f :> inner
MCTypeOrder == <<inner, leaf>>
MCCalls == {c1}
MCNoCalls == {}

(* Hashes spread by the id of the last child, if there is one.             *)
MCShard(h) == IF h[2] = <<>> THEN 0 ELSE h[2][Len(h[2])] % 2

MCFlagsOf == a :> {flag} @@ f :> {}

(* Threads are alike, and so are addresses.                                *)
MCSymmetry == Permutations(MCThreads) \cup Permutations(MCNodes)
=============================================================================
