---------------------------- MODULE MCWeakTable ----------------------------
(***************************************************************************)
(* Two threads and three contents: u and v collide, w has another hash.    *)
(* The purge limit starts at one entry, so that the second entry of a      *)
(* shard already purges.                                                   *)
(***************************************************************************)
EXTENDS WeakTable, TLC

CONSTANTS t1, t2, u, v, w

MCThreads == {t1, t2}
MCValues == {u, v, w}
MCHashOf == u :> 0 @@ v :> 0 @@ w :> 2

(* One shard for two hashes, or a shard for each.                          *)
MCHashOfShards == u :> 0 @@ v :> 0 @@ w :> 1

(* Threads are alike, and so are the contents that collide.                *)
MCSymmetry == Permutations(MCThreads) \cup Permutations({u, v})
=============================================================================
