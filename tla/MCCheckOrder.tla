----------------------------- MODULE MCCheckOrder -----------------------------
(* Instances of CheckOrder for TLC. *)
EXTENDS CheckOrder, TLC

CONSTANTS a, b, c, d, e   \* functions

(* Functions that enclose nothing. *)
FlatEnclosing == [f \in Fn |-> << >>]

(* a is a method that declares b in its body, c a second method; d and e are  *)
(* free functions.                                                            *)
ImplEnclosing ==
  (a :> << >>) @@ (b :> <<a>>) @@ (c :> << >>) @@ (d :> << >>) @@ (e :> << >>)

(* a declares b and c in its body, and d stands beside a. *)
SiblingEnclosing == (a :> << >>) @@ (b :> <<a>>) @@ (c :> <<a>>) @@ (d :> << >>)
=============================================================================
