------------------------------ MODULE MCTables ------------------------------
(***************************************************************************)
(* Two threads and three contents: u and w collide and x hashes below      *)
(* them, so that a scan runs into the end of the vector on one side and    *)
(* into another hash on the other.                                         *)
(***************************************************************************)
EXTENDS Tables, TLC

CONSTANTS t1, t2, u, w, x

MCThreads == {t1, t2}
MCValues == {u, w, x}
MCHashOf == u :> 1 @@ w :> 1 @@ x :> 0

(* Threads are alike, and so are the contents that collide.                *)
MCSymmetry == Permutations(MCThreads) \cup Permutations({u, w})

(* Bound: the vector grows to three entries, two of which collide, or is   *)
(* reset while it has one; every race of the other tables, which hash for  *)
(* themselves, needs two objects and two contents.                         *)
MCBound ==
  IF InVector THEN made <= Len(vec) + 1 \/ made <= 1
  ELSE made <= 2 /\ \A t \in Threads : arg[t] # x
=============================================================================
