----------------------------- MODULE MCRewrite -----------------------------
(***************************************************************************)
(* Expressions: leaves a and b, and f with a plain field and an enum field *)
(* of two variants.  The rewriter turns a into b.                          *)
(***************************************************************************)
EXTENDS Rewrite, TLC

CONSTANTS t1, t2

MCLabels == {"a", "b", "f"}
MCTypeOf == [l \in MCLabels |-> "Expr"]
MCShape ==
  "a" :> <<>> @@ "b" :> <<>> @@
  "f" :> <<{<<"Ref", "Expr">>}, {<<"Pos", "Expr">>, <<"Neg", "Expr">>}>>
MCRelabel == "a" :> "b" @@ "b" :> "b" @@ "f" :> "f"
=============================================================================
