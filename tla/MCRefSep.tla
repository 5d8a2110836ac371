------------------------------ MODULE MCRefSep ------------------------------
(***************************************************************************)
(* Two threads, three handles, two objects over a pool of at most two      *)
(* one-slot chunks: the second object either recycles the first one's slot *)
(* or makes the pool grow.                                                 *)
(***************************************************************************)
EXTENDS RefSep

CONSTANTS t1, t2, o1, o2, h1, h2, h3

MCThreads == {t1, t2}
MCObjects == {o1, o2}
MCHandles == {h1, h2, h3}
=============================================================================
