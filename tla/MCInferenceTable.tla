--------------------------- MODULE MCInferenceTable ---------------------------
(* Instances of InferenceTable for TLC: small arenas of types. *)
EXTENDS InferenceTable, TLC

V(n) == [con |-> "Var", var |-> n, args |-> << >>]
T(con, args) == [con |-> con, args |-> args]

(* Three variables, a generic T, the type Never, and types with none, one and *)
(* two parts, some of them functions that differ in how many parameters they  *)
(* have.                                                                      *)
Arena ==
  ("v1" :> V(1)) @@ ("v2" :> V(2)) @@ ("v3" :> V(3)) @@ ("int" :> T("Int", << >>))
    @@ ("!" :> T("Never", << >>)) @@ ("T" :> T("Generic T", << >>))
    @@ ("S<v1>" :> T("Struct S", <<"v1">>)) @@ ("S<v2>" :> T("Struct S", <<"v2">>))
    @@ ("Fn(v1)->v3" :> T("Fn", <<"v1", "v3">>)) @@ ("Fn()->int" :> T("Fn", <<"int">>))

(* With or without a reason: variables and types they agree with, cycles made  *)
(* in several steps, and functions that differ in what they take.              *)
Reasons ==
  {<<"v1", "int", TRUE>>, <<"S<v2>", "S<v1>", FALSE>>, <<"v3", "!", FALSE>>, <<"S<v1>", "v3", TRUE>>,
   <<"v2", "T", FALSE>>, <<"Fn(v1)->v3", "Fn()->int", TRUE>>, <<"v2", "Fn(v1)->v3", TRUE>>}
ImplCalls == {<<"v2", "v3">>, <<"v2", "Fn(v1)->v3">>}

Leaf(con) == <<con, << >> >>
GroundTypes ==
  LET int == Leaf("Int")
      s == <<"Struct S", <<int>> >>
  IN  {int, Leaf("Generic T"), Leaf("Never"), s, <<"Struct S", <<Leaf("Generic T")>> >>,
       <<"Fn", <<int>> >>, <<"Fn", <<s, s>> >>, <<"Fn", <<s, int>> >>}
=============================================================================
