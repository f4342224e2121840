------------------------------ MODULE ParseCheck ------------------------------
(***************************************************************************)
(* What the parser owes its reader.  A program is built outwards from a    *)
(* leaf, one construct at a time, as a pair: the syntax tree that is meant *)
(* and the tokens it is written with.  Parentheses go wherever the syntax  *)
(* tree's own account of operators (BinOpKind::precedence and fixity) asks *)
(* for them, and around what could run into the token that follows.  Read  *)
(* back, the tokens must give the tree that was meant: the parts of the    *)
(* grammar, each tested with stand-ins for the others, must agree when     *)
(* they are put together.                                                  *)
(***************************************************************************)
EXTENDS Grammar, SequencesExt

CONSTANT Families  \* what programs are written with: constructs, by name,
                   \* binary operators, and how many constructs, a bound

VARIABLES
  family,     \* what the program is written with
  form,       \* the program so far
  depth

vars == <<family, form, depth>>

(* A program: what it is (sort), its tokens and its tree, how tightly its     *)
(* outermost operator binds, whether it may run on into what follows (open),  *)
(* and whether it holds a struct literal (lit).                               *)
Form(sort, words, tree) ==
  [sort |-> sort, words |-> words, tree |-> tree, level |-> Precedence.Unambiguous + 1,
   open |-> FALSE, lit |-> FALSE]
Atom == Precedence.Unambiguous + 1
Text(parts) == FlattenSeq(parts)

No == <<"-">>
Some(t) == <<"?", t>>
List(ts) == <<"*">> \o ts
Name == <<"id">>
OnePath(args) == <<"Path", List(<<<<"Segment", Name, args>>>>)>>
NamePath == OnePath(No)
Variable == Form("Expr", Name, <<"PathExpr", No, NamePath>>)
Number == Form("Expr", <<"int">>, <<"Lit", <<"int">>>>)
NameTy == Form("Ty", Name, NamePath)
NamePat == Form("Pat", Name, <<"Binding", Name, No>>)
EmptyBlock == Form("Block", <<"{", "}">>, <<"Block", List(<< >>)>>)
NoGenerics == <<No, No>>

Grouped(f, tag) == [f EXCEPT !.words = Text(<< <<"(">>, @, <<")">> >>), !.tree = <<tag, @>>,
                             !.level = Atom, !.open = FALSE]
Left(f, p)  == IF f.level >= p /\ ~f.open THEN f ELSE Grouped(f, "Paren")
Right(f, p) == IF f.level >= p THEN f ELSE Grouped(f, "Paren")
Closed(f)   == IF f.open THEN Grouped(f, "Paren") ELSE f

Leaves == {Variable, Number, NameTy, NamePat,
           Form("Expr", <<"_">>, <<"Underscore">>), Form("Ty", <<"_">>, <<"Infer">>),
           Form("Ty", <<"!">>, <<"Never">>), Form("Pat", <<"_">>, <<"Wild">>),
           Form("Pat", <<"!">>, <<"NeverPat">>),
           Form("Expr", <<"continue", "id">>, <<"Continue", Some(Name)>>),
           Form("UseTree", Name, <<"UseTree", NamePath, <<"Simple", No>>>>),
           Form("UseTree", <<"id", "as", "id">>, <<"UseTree", NamePath, <<"Simple", Some(Name)>>>>),
           Form("UseTree", <<"id", "::", "*">>, <<"UseTree", NamePath, <<"Glob">>>>)}

-----------------------------------------------------------------------------
(* What may be put around a program f.  New(f, words, tree) is a closed atom  *)
(* of sort s that holds f.                                                    *)
New(s, f, parts, tree) == [Form(s, Text(parts), tree) EXCEPT !.lit = f.lit]
At(g, level, open) == [g EXCEPT !.level = level, !.open = open]

(* The syntax tree's account: BinOpKind::precedence and BinOpKind::fixity.    *)
Comparisons == {"==", "<", "<=", "!=", ">=", ">"}
Level(op) == Precedence[CHOOSE l \in DOMAIN BinOps : op \in BinOps[l]]
Operand(op) == IF op \in Comparisons THEN Level(op) + 1 ELSE Level(op)

Binary(f) ==
  {LET l == Left(x[1], Operand(op))
       r == Right(x[2], Level(op) + 1)
   IN  At(New("Expr", f, <<l.words, <<op>>, r.words>>, <<"Binary", <<op>>, l.tree, r.tree>>),
          Level(op), r.open)
     : op \in family.ops, x \in {<<f, Variable>>, <<Variable, f>>}}

Assign(f) ==
  {LET l == Left(x[1], Precedence.Assign + 1)
       r == Right(x[2], Precedence.Assign)
       op == IF x[3] = "=" THEN <<"Assign">> ELSE <<"AssignOp", <<x[3]>>>>
   IN  At(New("Expr", f, <<l.words, <<x[3]>>, r.words>>, op \o <<l.tree, r.tree>>),
          Precedence.Assign, r.open)
     : x \in {<<f, Variable, "=">>, <<Variable, f, "=">>, <<Variable, f, "+=">>}}

Unary(f) ==
  LET r == Right(f, Precedence.Prefix)
  IN  {At(New("Expr", f, << <<"-">>, r.words >>, <<"Unary", <<"-">>, r.tree>>), Precedence.Prefix, r.open)}
Cast(f) ==
  LET l == Left(f, Precedence.Cast)
  IN  {At(New("Expr", f, <<l.words, <<"as", "id">> >>, <<"Cast", l.tree, NamePath>>), Precedence.Cast, FALSE)}

Postfix1(f) ==
  LET l == Left(f, Precedence.Unambiguous) IN
  {At(New("Expr", f, <<l.words, x[1]>>, x[2]), Precedence.Unambiguous, FALSE)
     : x \in {<< <<"(", "id", ",", ")">>, <<"Call", l.tree, List(<<Variable.tree>>)>> >>,
              << <<".", "id", "(", ")">>, <<"MethodCall", l.tree, <<"Segment", Name, No>>, List(<< >>)>> >>,
              << <<".", "int">>, <<"Member", l.tree, <<"int">> >> >>,
              << <<"[", "int", "]">>, <<"Index", l.tree, Number.tree>> >>,
              << <<"?">>, <<"Try", l.tree>> >>}}
Argument(f) ==
  {At(New("Expr", f, << <<"id">>, x[1], f.words, x[2]>>, x[3]), Precedence.Unambiguous, FALSE)
     : x \in {<< <<"(", "id", ",">>, <<")">>, <<"Call", Variable.tree, List(<<Variable.tree, f.tree>>)>> >>,
              << <<".", "id", "(">>, <<")">>,
                 <<"MethodCall", Variable.tree, <<"Segment", Name, No>>, List(<<f.tree>>)>> >>,
              << <<"[">>, <<"]">>, <<"Index", Variable.tree, f.tree>> >>}}

Range1(f) ==
  LET l == Left(f, Precedence.Range + 1) IN
  {At(New("Expr", f, <<l.words, <<"..">> >>, <<"RangeFrom", l.tree, <<"HalfOpen">>, No>>), Precedence.Range, TRUE),
   At(New("Expr", f, << <<"id", "..=">>, f.words>>, <<"RangeFrom", Variable.tree, <<"Closed">>, Some(f.tree)>>),
      Precedence.Range, TRUE),
   At(New("Expr", f, << <<"..">>, f.words>>, <<"RangeTo", <<"HalfOpen">>, Some(f.tree)>>), Atom, TRUE)}

(* After break an identifier is a label, so a value that begins with one is   *)
(* put in parentheses.                                                        *)
Jump(f) ==
  LET v == IF Head(f.words) = "id" THEN Grouped(f, "Paren") ELSE f IN
  {At(x, Atom, TRUE) : x \in
     {New("Expr", f, << <<"return">>, f.words>>, <<"Ret", Some(f.tree)>>),
      New("Expr", f, << <<"break">>, v.words>>, <<"Break", No, Some(v.tree)>>),
      New("Expr", f, << <<"break", "id">>, f.words>>, <<"Break", Some(Name), Some(f.tree)>>)}}

Collect(f) ==
  {Grouped(f, "Paren"),
   New("Expr", f, << <<"[">>, f.words, <<",", "id", "]">> >>, <<"Array", List(<<f.tree, Variable.tree>>)>>),
   New("Expr", f, << <<"(">>, f.words, <<",", ")">> >>, <<"Tup", List(<<f.tree>>)>>)}
Literal1(f) ==
  {[New("Expr", f, << <<"id", "{", "id", ":">>, f.words, <<"}">> >>,
        <<"Struct", No, NamePath, List(<<<<"Field", Name, f.tree>>>>), No>>) EXCEPT !.lit = TRUE],
   [New("Expr", f, << <<"id", "{", "id", ",", "..">>, f.words, <<"}">> >>,
        <<"Struct", No, NamePath, List(<<<<"Shorthand", Name>>>>), Some(f.tree)>>) EXCEPT !.lit = TRUE]}
Annotate(f) ==
  IF f.level # Atom \/ f.tree[1] = "Annotated" THEN {}
  ELSE {[f EXCEPT !.words = <<"#", "[", "id", "(", "int", ")", "]">> \o @,
                  !.tree = <<"Annotated", List(<< <<"Outer">>,
                             <<"Meta", NamePath, <<"List", List(<<Number.tree>>)>>>> >>), @>>]}

Lambda(f, parts, params, returns, body, open) ==
  At(New("Expr", f, parts, <<"Closure", List(params), returns, body>>), Atom, open)
ClosureBody(f) ==
  {Lambda(f, << <<"|", "id", "|">>, f.words>>, <<<<"Typed", NamePat.tree, No>>>>, <<"Default">>, f.tree, TRUE)}
-----------------------------------------------------------------------------
(* Conditions and scrutinees hold no struct literal and do not run on.        *)
If1(f) ==
  LET c == Closed(f) IN
  IF f.lit THEN {} ELSE
  {New("Expr", f, << <<"if">>, c.words, <<"{", "}">> >>, <<"If", c.tree, EmptyBlock.tree, No>>),
   New("Expr", f, << <<"while">>, c.words, <<"{", "}">> >>, <<"While", No, c.tree, EmptyBlock.tree>>),
   New("Expr", f, << <<"id", ":", "for", "id", "in">>, c.words, <<"{", "}">> >>,
       <<"ForLoop", Some(<<"Label", Name>>), NamePat.tree, c.tree, EmptyBlock.tree>>),
   New("Expr", f, << <<"match">>, c.words, <<"{", "}">> >>, <<"Match", c.tree, List(<< >>)>>),
   New("Expr", f, << <<"if", "let", "id", "=">>, c.words, <<"{", "}">> >>,
       <<"If", <<"Let", NamePat.tree, c.tree>>, EmptyBlock.tree, No>>)}
Arms(f) ==
  {New("Expr", f, << <<"match", "id", "{", "_", "if">>, f.words, <<"=>", "}">> >>,
       <<"Match", Variable.tree, List(<<<<"Arm", <<"Wild">>, Some(f.tree), No>>>>)>>),
   New("Expr", f, << <<"match", "id", "{", "id", "=>">>, f.words, <<",", "_", "=>", "id", "}">> >>,
       <<"Match", Variable.tree, List(<<<<"Arm", NamePat.tree, No, Some(f.tree)>>,
                                        <<"Arm", <<"Wild">>, No, Some(Variable.tree)>>>>)>>)}

Body(f, parts, stmts) == New("Block", f, << <<"{">> >> \o parts \o << <<"}">> >>, <<"Block", List(stmts)>>)
Stmt1(f) ==
  LET whole == IF f.level = Atom /\ ~f.open /\ f.tree[1] # "If" THEN f ELSE Grouped(f, "Paren") IN
  {Body(f, <<f.words>>, <<<<"Stmt", f.tree, No>>>>),
   Body(f, <<f.words, <<";", "id", ";">> >>, <<<<"Stmt", f.tree, <<"?">>>>, <<"Stmt", Variable.tree, <<"?">>>>>>),
   Body(f, << <<"let", "id", "=">>, f.words, <<";">> >>,
        <<<<"Local", NamePat.tree, No, <<"?", f.tree, No>>>>>>),
   Body(f, << <<"let", "id", ":", "id", "=">>, whole.words, <<"else", "{", "}", ";">> >>,
        <<<<"Local", NamePat.tree, Some(NamePath), <<"?", whole.tree, Some(EmptyBlock.tree)>>>>>>)}
UseBlock(b) ==
  {New("Expr", b, <<b.words>>, <<"BlockExpr", No, b.tree>>),
   New("Expr", b, << <<"id", ":">>, b.words>>, <<"BlockExpr", Some(<<"Label", Name>>), b.tree>>),
   New("Expr", b, << <<"id", ":", "loop">>, b.words>>, <<"Loop", Some(<<"Label", Name>>), b.tree>>),
   New("Expr", b, << <<"while", "id">>, b.words>>, <<"While", No, Variable.tree, b.tree>>),
   New("Expr", b, << <<"if", "id">>, b.words, <<"else", "if", "id">>, b.words >>,
       <<"If", Variable.tree, b.tree, Some(<<"If", Variable.tree, b.tree, No>>)>>),
   New("Expr", b, << <<"if", "id", "{", "}", "else">>, b.words >>,
       <<"If", Variable.tree, EmptyBlock.tree, Some(<<"BlockExpr", b.tree>>)>>),
   New("ItemKind", b, << <<"fn", "id", "(", "self", ")">>, b.words>>,
       <<"FnItem", Name>> \o NoGenerics \o <<List(<<<<"SelfParam">>>>), <<"Default">>, b.tree>>)}
-----------------------------------------------------------------------------
(* Patterns.  One that ends in an expression, or binds a whole alternation,   *)
(* may run on.                                                                *)
Pat1(f) ==
  {New("Pat", f, << <<"[">>, f.words, <<",", "_", "]">> >>, <<"PatArray", List(<<f.tree, <<"Wild">>>>)>>),
   New("Pat", f, << <<"(">>, f.words, <<",", ")">> >>, <<"PatTuple", List(<<f.tree>>)>>),
   New("Pat", f, << <<"id", "::", "id", "(">>, f.words, <<")">> >>,
       <<"TupleStruct", No, <<"Path", List(<<<<"Segment", Name, No>>, <<"Segment", Name, No>>>>)>>, List(<<f.tree>>)>>),
   New("Pat", f, << <<"id", "{", "id", ":">>, f.words, <<",", "id", ",", "..", "}">> >>,
       <<"PatStruct", No, NamePath, List(<<<<"PatField", Name, f.tree>>, <<"Shorthand", Name>>>>), <<"?">>>>),
   At(New("Pat", f, << <<"id", "@">>, f.words>>, <<"Binding", Name, Some(f.tree)>>), Atom, TRUE)}
(* An alternation within an alternation is grouped.                           *)
Or1(f) ==
  LET l == IF f.tree[1] = "Or" THEN Grouped(f, "Paren") ELSE Closed(f)
      r == IF f.tree[1] = "Or" THEN Grouped(f, "Paren") ELSE f
  IN  {New("Pat", f, <<l.words, <<"|", "id">> >>, <<"Or", List(<<l.tree, NamePat.tree>>)>>),
       At(New("Pat", f, << <<"id", "|">>, r.words>>, <<"Or", List(<<NamePat.tree, r.tree>>)>>), Atom, f.open)}
(* An expression can be a pattern when it begins like no other pattern.       *)
ExprPat(f) ==
  IF Head(f.words) \notin {"int", "-"} THEN {}
  ELSE {At([f EXCEPT !.sort = "Pat", !.tree = <<"PatExpr", @>>], Atom, TRUE),
        At(New("Pat", f, << <<"..=">>, f.words>>, <<"PatTo", <<"Included">>, f.tree>>), Atom, TRUE)}
UsePat(f) ==
  LET p == IF f.tree[1] = "Or" THEN f ELSE Closed(f)
      q == IF f.tree[1] = "Or" THEN Grouped(f, "Paren") ELSE p
      whole == Closed(f)
  IN
  {New("Expr", f, << <<"match", "id", "{">>, f.words, <<"=>", "id", "}">> >>,
       <<"Match", Variable.tree, List(<<<<"Arm", f.tree, No, Some(Variable.tree)>>>>)>>),
   New("Expr", f, << <<"for">>, whole.words, <<"in", "id", "{", "}">> >>,
       <<"ForLoop", No, whole.tree, Variable.tree, EmptyBlock.tree>>),
   New("Expr", f, << <<"while", "let">>, whole.words, <<"=", "id", "{", "}">> >>,
       <<"While", No, <<"Let", whole.tree, Variable.tree>>, EmptyBlock.tree>>),
   Body(f, << <<"let">>, whole.words, <<"=", "id", ";">> >>,
        <<<<"Local", whole.tree, No, <<"?", Variable.tree, No>>>>>>),
   Lambda(f, << <<"|">>, Closed(q).words, <<":", "id", "|", "id">> >>,
          <<<<"Typed", Closed(q).tree, Some(NamePath)>>>>, <<"Default">>, Variable.tree, TRUE)}
-----------------------------------------------------------------------------
(* Types. *)
Ty1(f) ==
  {New("Ty", f, << <<"[">>, f.words, <<"]">> >>, <<"ArrayTy", f.tree>>),
   New("Ty", f, << <<"(">>, f.words, <<",", "_", ")">> >>, <<"TupTy", List(<<f.tree, <<"Infer">>>>)>>),
   New("Ty", f, << <<"Fn", "(">>, f.words, <<")">> >>, <<"FnTy", List(<<f.tree>>), <<"Default">>>>),
   New("Ty", f, << <<"Fn", "(", ")", "->">>, f.words>>, <<"FnTy", List(<< >>), <<"Returns", f.tree>>>>),
   New("Ty", f, << <<"id", "<">>, f.words, <<">">> >>, OnePath(Some(List(<<f.tree>>)))),
   New("Ty", f, << <<"id", "<", "id", "=">>, f.words, <<">">> >>,
       OnePath(Some(List(<<<<"Constraint", Name, No, f.tree>>>>))))}
UseTy(f) ==
  {At(New("Expr", f, << <<"id", "as">>, f.words>>, <<"Cast", Variable.tree, f.tree>>), Precedence.Cast, FALSE),
   New("Expr", f, << <<"id", "::", "<">>, f.words, <<">">> >>, <<"PathExpr", No, OnePath(Some(List(<<f.tree>>)))>>),
   New("Expr", f, << <<"<">>, f.words, <<"as", "id", ">", "::", "id">> >>,
       <<"PathExpr", Some(<<"QSelf", f.tree, NamePath>>), NamePath>>),
   Lambda(f, << <<"|", "|", "->">>, f.words, <<"id">> >>, << >>, <<"Returns", f.tree>>, Variable.tree, TRUE),
   Body(f, << <<"let", "id", ":">>, f.words, <<";">> >>, <<<<"Local", NamePat.tree, Some(f.tree), No>>>>),
   New("ItemKind", f, << <<"fn", "id", "<", "id", ":">>, f.words, <<"+", "id", ">", "(", "id", ":">>, f.words,
                         <<")", "->">>, f.words, <<";">> >>,
       <<"FnItem", Name, Some(List(<<<<"Param", Name, Some(List(<<f.tree, NamePath>>)), No>>>>)), No,
         List(<<<<"Typed", NamePat.tree, Some(f.tree)>>>>), <<"Returns", f.tree>>, <<"NoBody">>>>),
   New("ItemKind", f, << <<"struct", "id", "<", "id", "=">>, f.words, <<">", "{", "pub", "id", ":">>, f.words,
                         <<"}">> >>,
       <<"StructItem", Name, Some(List(<<<<"Param", Name, No, Some(f.tree)>>>>)), No,
         <<"StructData", List(<<<<"NamedField", <<"Public">>, Name, Some(f.tree)>>>>)>>>>),
   New("ItemKind", f, << <<"struct", "id", "(">>, f.words, <<")", ";">> >>,
       <<"StructItem", Name>> \o NoGenerics \o
         << <<"TupleData", List(<<<<"TupleField", <<"Inherited">>, f.tree>>>>)>> >>),
   New("ItemKind", f, << <<"enum", "id", "where">>, f.words, <<":", "id", "{", "id", "(">>, f.words,
                         <<")", ",", "id", "}">> >>,
       <<"Enum", Name, No, Some(List(<<<<"Predicate", f.tree, List(<<NamePath>>)>>>>)),
         List(<<<<"Variant", Name, <<"TupleData", List(<<<<"VariantField", f.tree>>>>)>>>>,
                <<"Variant", Name, <<"UnitData">>>>>>)>>),
   New("ItemKind", f, << <<"type", "id", ":", "id", "=">>, f.words, <<";">> >>,
       <<"TyAlias", Name, No, Some(List(<<NamePath>>)), No, Some(f.tree), No>>),
   New("ItemKind", f, << <<"impl", "id", "for">>, f.words, <<"{", "}">> >>,
       <<"Impl">> \o NoGenerics \o <<<<"OfTrait", NamePath, f.tree>>, List(<< >>)>>),
   New("ItemKind", f, << <<"impl">>, f.words, <<"{", "}">> >>,
       <<"Impl">> \o NoGenerics \o <<<<"Inherent", f.tree>>, List(<< >>)>>)}
-----------------------------------------------------------------------------
(* Items. *)
Shown(k, words, visibility) ==
  New("Item", k, <<words, k.words>>, <<"Item", visibility, k.tree>>)
Show(k) == {Shown(k, <<"pub">>, <<"Public">>), Shown(k, << >>, <<"Inherited">>)}
UseUse(u) ==
  {New("UseTree", u, << <<"id", "::", "{">>, u.words, <<",", "id", "}">> >>,
       <<"UseTree", NamePath, <<"Nested", List(<<u.tree, <<"UseTree", NamePath, <<"Simple", No>>>>>>)>>>>),
   New("ItemKind", u, << <<"use">>, u.words, <<";">> >>, u.tree)}
Member1(k) ==
  IF k.tree[1] \notin {"FnItem", "TyAlias"} THEN {}
  ELSE {New("ItemKind", k, << <<"trait", "id", ":", "id", "{", "pub">>, k.words, <<"}">> >>,
            <<"Trait", Name>> \o NoGenerics \o
              <<Some(List(<<NamePath>>)), List(<<<<"Assoc", <<"Public">>, k.tree>>>>)>>),
        New("ItemKind", k, << <<"impl", "id", "{">>, k.words, <<"}">> >>,
            <<"Impl">> \o NoGenerics \o <<<<"Inherent", NamePath>>, List(<<<<"Assoc", <<"Inherited">>, k.tree>>>>)>>)}
UseItem(i) ==
  {New("ItemKind", i, << <<"mod", "id", "{", "//!">>, i.words, i.words, <<"}">> >>,
       <<"Mod", Name, <<"Loaded", List(<< >>), List(<<i.tree, i.tree>>)>>>>),
   Body(i, <<i.words, <<"id">> >>, <<i.tree, <<"Stmt", Variable.tree, No>>>>),
   New("Module", i, <<i.words, i.words>>, <<"Module", List(<< >>), List(<<i.tree, i.tree>>)>>)}
-----------------------------------------------------------------------------
Init == family \in Families /\ form \in Leaves /\ depth = 0

(* The steps: one construct of the kind named is put around the program.      *)
Grow(sort, name, options) ==
  /\ depth < family.most /\ form.sort = sort /\ name \in family.constructs
  /\ form' \in options
  /\ depth' = depth + 1
  /\ UNCHANGED family

GrowOperator ==
  Grow("Expr", "operator", Binary(form) \cup Assign(form) \cup Unary(form) \cup Cast(form))
GrowPostfix == Grow("Expr", "postfix", Postfix1(form) \cup Argument(form))
GrowRange   == Grow("Expr", "range", Range1(form))
GrowJump    == Grow("Expr", "jump", Jump(form) \cup ClosureBody(form))
GrowAtom    == Grow("Expr", "atom", Collect(form) \cup Literal1(form) \cup Annotate(form))
GrowControl == Grow("Expr", "control", If1(form) \cup Arms(form))
GrowStmt    == Grow("Expr", "statement", Stmt1(form))
GrowBlock   == Grow("Block", "statement", UseBlock(form))
GrowExprPat == Grow("Expr", "pattern", ExprPat(form))
GrowPat     == Grow("Pat", "pattern", Pat1(form) \cup Or1(form) \cup UsePat(form) \cup {Grouped(form, "Paren")})
GrowTy      == Grow("Ty", "type", Ty1(form) \cup UseTy(form) \cup {Grouped(form, "Paren")})
GrowUse     == Grow("UseTree", "item", UseUse(form))
GrowKind    == Grow("ItemKind", "item", Show(form) \cup Member1(form))
GrowItem    == Grow("Item", "item", UseItem(form) \cup Annotate(form))

Next ==
  \/ GrowOperator \/ GrowPostfix \/ GrowRange \/ GrowJump \/ GrowAtom \/ GrowControl \/ GrowStmt
  \/ GrowBlock \/ GrowExprPat \/ GrowPat \/ GrowTy \/ GrowUse \/ GrowKind \/ GrowItem

Spec == Init /\ [][Next]_vars
-----------------------------------------------------------------------------
(* Kinds that no rule reads by itself are read within the least thing that    *)
(* holds them.                                                                *)
Parsed(f) == IF f.sort = "ItemKind" THEN Parse("Item", f.words) ELSE Parse(f.sort, f.words)
Meant(f)  == <<"Ok", IF f.sort = "ItemKind" THEN <<"Item", <<"Inherited">>, f.tree>> ELSE f.tree>>

(* Where a condition may not hold a struct literal the rest of the expression *)
(* is read the same (expr.rs expr_no_struct_lit against expr).                *)
WithoutLiterals ==
  form.sort \in {"Expr", "Pat"} /\ ~form.lit =>
    Parse(IF form.sort = "Expr" THEN "ExprNoStructLit" ELSE "PatNoStructLit", form.words) = Meant(form)

(* What is written is read back as what was meant: operators nest as          *)
(* BinOpKind::precedence and fixity say, no choice of the grammar hides a     *)
(* later alternative, and no part swallows what belongs to the part around it *)
(* (expr.rs expr_pratt, primary_expr; pat.rs pat_kind; stmt.rs stmt), also    *)
(* where struct literals are not allowed.                                     *)
RoundTrip == Parsed(form) = Meant(form) /\ WithoutLiterals
=============================================================================
