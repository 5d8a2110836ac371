---------------------------- MODULE MCSerialize ----------------------------
(***************************************************************************)
(* Two root types: N, whose data m and n have no references, and P, whose  *)
(* data p refers to an N and q to an N and, inside an enum, to a P.        *)
(***************************************************************************)
EXTENDS Serialize, TLC

CONSTANTS t1, t2

MCRootOrder == <<"N", "P">>

MCLabels == {"m", "n", "p", "q"}
MCTypeOf == "m" :> "N" @@ "n" :> "N" @@ "p" :> "P" @@ "q" :> "P"
MCShape ==
  "m" :> <<>> @@ "n" :> <<>> @@ "p" :> <<{<<"Ref", "N">>}>> @@
  "q" :> <<{<<"Ref", "N">>}, {<<"Pos", "P">>, <<"Neg", "P">>}>>

Ref(i) == [variant |-> "Ref", index |-> i]
Pos(i) == [variant |-> "Pos", index |-> i]
Enc(l, fs) == [label |-> l, fields |-> fs]
Roots(ns, ps) == "N" :> ns @@ "P" :> ps

Part(name, content) == [name |-> name, content |-> content]
Json(parts) == [format |-> "json", magic |-> FALSE, schema |-> "none", parts |-> parts]
Binary(schema, parts) == [format |-> "binary", magic |-> TRUE, schema |-> schema, parts |-> parts]

V(k) == Part("version", k)
Good == Part("nodes", <<Enc("m", <<>>), Enc("p", <<Ref(0)>>)>>)
Rs(ns, ps) == Part("roots", Roots(ns, ps))
Note == Part("comment", "by hand")
Rest == Part("rest", "bytes")
Text == Part(Junk, "text")

(* Archives of people and other programs: of another schema or version,    *)
(* cut off, with references forward, out of range or to another type, with *)
(* an entry twice, with the fields of the JSON object in any order, with   *)
(* fields of other names, and with more text or bytes at the end.          *)
MCForeign ==
  {Binary("other", <<V(1), Good, Rs(<<>>, <<1>>)>>),
   Binary("own", <<V(1), Good>>),
   Binary("own", <<V(1), Good, Rs(<<0>>, <<1>>), Rest>>),
   Json(<<Note, V(1), Good, Note, Rs(<<0>>, <<1>>)>>),
   Json(<<V(1), Good, Rs(<<>>, <<1>>), Text>>),
   Json(<<V(1), Note, Rs(<<>>, <<>>)>>),
   Json(<<V(1), Good, Rs(<<0>>, <<1>>)>>),
   Json(<<Good, V(2), Rs(<<>>, <<1>>)>>),
   Json(<<Good, Rs(<<>>, <<1>>), V(1)>>),
   Json(<<V(1), Rs(<<>>, <<1>>), Good>>),
   Json(<<V(1), Good, Rs(<<>>, <<2>>)>>),
   Json(<<V(1), Good, Rs(<<1>>, <<>>)>>),
   Json(<<V(1), Good, Good, Rs(<<>>, <<>>)>>),
   Json(<<V(1), Part("nodes", <<Enc("p", <<Ref(1)>>), Enc("m", <<>>)>>), Rs(<<>>, <<0>>)>>),
   Json(<<V(1), Part("nodes", <<Enc("n", <<>>), Enc("q", <<Ref(0), Pos(0)>>)>>), Rs(<<0>>, <<>>)>>),
   Json(<<V(1), Part("nodes", <<Enc("n", <<>>), Enc("n", <<>>), Enc("p", <<Ref(1)>>)>>), Rs(<<0>>, <<2>>)>>)}
=============================================================================
