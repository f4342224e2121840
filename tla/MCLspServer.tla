----------------------------- MODULE MCLspServer -----------------------------
(* Instances of LspServer for TLC. *)
EXTENDS LspServer, TLC

(* A letter, a line feed, two bytes in one unit, four bytes in two units.      *)
MCUtf8 == ("a" :> 1) @@ ("lf" :> 1) @@ ("e" :> 2) @@ ("w" :> 4)
MCUtf16 == ("a" :> 1) @@ ("lf" :> 1) @@ ("e" :> 1) @@ ("w" :> 2)

(* The front end: a text that starts with a line feed does not lex, one of a   *)
(* single character makes the checker panic, an "e" does not parse, two "w"    *)
(* side by side are a literal without a value, and otherwise each "w" is an    *)
(* error of the checker.                                                       *)
MCOutcome(text) ==
  IF text # << >> /\ text[1] = "lf" THEN "Unlexable"
  ELSE IF \E i \in DOMAIN text : text[i] = "e" THEN "Unparsable"
  ELSE IF \E i \in 1..Len(text) - 1 : text[i] = "w" /\ text[i + 1] = "w" THEN "Valueless"
  ELSE IF Len(text) = 1 THEN "Panics" ELSE "Checked"
MCSpans(text) ==
  LET wrong == IF MCOutcome(text) = "Unparsable" THEN "e" ELSE "w"
  IN  {[start |-> Bytes(text, i - 1), end |-> Bytes(text, i)] : i \in {k \in DOMAIN text : text[k] = wrong}}

MCOpenings == {<<"w", "lf", "e">>, <<"w", "lf">>, <<"w", "w">>}
MCInsertions == {<< >>, <<"w">>}
=============================================================================
