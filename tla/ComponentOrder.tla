---------------------------- MODULE ComponentOrder ----------------------------
(***************************************************************************)
(* What the order of checking promises, whatever search finds it: a graph  *)
(* of references becomes known edge by edge, and functions are generalised *)
(* one strongly connected component at a time, never before what they      *)
(* refer to (module docs of recursion.rs and call_graph.rs).               *)
(***************************************************************************)
CONSTANT Fn
VARIABLES
  links,        \* the references known so far
  generalized   \* the functions whose types have been generalised

vars == <<links, generalized>>

Closed(S, E) == \A e \in E : e[1] \in S => e[2] \in S

(* g is reachable from f: it is in every closed set that f is in.             *)
Reaches(f, g, E) == \A S \in SUBSET Fn : f \in S /\ Closed(S, E) => g \in S

StronglyConnected(C, E) == \A f, g \in C : Reaches(f, g, E)

Init == links = {} /\ generalized = {}

(* A generalised body is not looked at again: its references are all known.   *)
Learn(f, g) ==
  /\ f \notin generalized
  /\ links' = links \cup {<<f, g>>}
  /\ UNCHANGED generalized

Generalize(C) ==
  /\ C # {}
  /\ C \cap generalized = {}
  /\ StronglyConnected(C, links)
  /\ Closed(generalized \cup C, links)
  /\ generalized' = generalized \cup C
  /\ UNCHANGED links

Next ==
  \/ \E f, g \in Fn : Learn(f, g)
  \/ \E C \in SUBSET Fn : Generalize(C)

Spec == Init /\ [][Next]_vars
=============================================================================
