------------------------------ MODULE MCRefTlc ------------------------------
(***************************************************************************)
(* Two threads, three handles and two objects, which can be chained        *)
(* through their data.  A buffer is flushed by its third operation or its  *)
(* second entry, so both thresholds are met, also from inside a flush that *)
(* is under way.                                                           *)
(***************************************************************************)
EXTENDS RefTlc, TLC

CONSTANTS t1, t2, o1, o2, h1, h2, h3

MCThreads == {t1, t2}
MCObjects == {o1, o2}
MCHandles == {h1, h2, h3}
=============================================================================
