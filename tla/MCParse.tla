------------------------------- MODULE MCParse -------------------------------
(* Instances of ParseCheck.                                                  *)
EXTENDS ParseCheck

OneOfEach == {"*", "+", "<<", "&", "^", "|", "==", "&&", "||"}

(* Operators of every level around one another; the other forms of            *)
(* expressions, control flow, statements and patterns; types and items.       *)
MCFamilies ==
  {[constructs |-> {"operator", "postfix", "range"}, ops |-> OneOfEach, most |-> 2],
   [constructs |-> {"operator", "range", "jump", "atom", "control", "statement", "pattern"},
    ops |-> {"+"}, most |-> 2],
   [constructs |-> {"type", "item", "statement"}, ops |-> {}, most |-> 3]}
=============================================================================
