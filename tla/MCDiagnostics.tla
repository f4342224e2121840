----------------------------- MODULE MCDiagnostics -----------------------------
(* Types of up to three levels over three names, one of them a word of the   *)
(* message, one a name that begins like another.                             *)
EXTENDS Diagnostics

Named(name) == [k |-> "Name", name |-> name, args |-> <<>>]
Tuple(args) == [k |-> "Tuple", name |-> <<>>, args |-> args]
Fn(args) == [k |-> "Fn", name |-> <<>>, args |-> args]
Leaves == {Named(<<"e">>), Named(<<"i">>), Named(<<"i", "e">>)}
Flat == Leaves \cup {Tuple(<<s, t>>) : s, t \in Leaves} \cup {Fn(<<s, t>>) : s, t \in Leaves}
Deep == Flat \cup {Tuple(<<s, t>>) : s \in Leaves, t \in Flat} \cup {Fn(<<t, s>>) : s \in {Named(<<"i">>)}, t \in Flat}
ThreeLevels == <<Leaves, Flat, Deep>>
=============================================================================
