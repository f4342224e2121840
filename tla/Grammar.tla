------------------------------- MODULE Grammar -------------------------------
(***************************************************************************)
(* The grammar, one definition for each parser of the source that has a    *)
(* shape of its own.  A parser that takes another as an argument takes the *)
(* name of a recursive one here: e is "Expr" or "ExprNoStructLit".         *)
(*                                                                         *)
(* A token is a string: "id" is any identifier but "_" and "Fn".  Trees    *)
(* keep what the syntax tree keeps, spans apart; annotations are wrapped   *)
(* around what they annotate.                                              *)
(***************************************************************************)
EXTENDS Peg

Ident   == Select({"id", "Fn"})
Literal == Node("Lit", Select({"str", "rawstr", "int", "float", "true", "false"}))
Label   == Node("Label", Then(<<Ident, Token(":")>>))
Comma(p) == Trailing(p, ",")
Parens(p) == Between("(", p, ")")
Braces(p) == Between("{", p, "}")

(* One element without a comma is the element in parentheses.                *)
TupleOrParen(tag, p) == Choice(<<Node("Paren", Parens(p)), Node(tag, Parens(Comma(p)))>>)
-----------------------------------------------------------------------------
(* Annotations *)
MetaItem ==
  Node("Meta", Then(<<Ref("Path"),
    Choice(<<Node("List", Parens(Comma(Choice(<<Ref("MetaItem"), Literal>>)))),
             Node("NameValue", Then(<<Token("="), Literal>>)), Node("Word", Nothing)>>)>>))
Annotation ==
  Then(<<Token("#"), Choice(<<Node("Inner", Token("!")), Node("Outer", Nothing)>>),
         Between("[", Ref("MetaItem"), "]")>>)
Annotated(p) ==
  Choice(<<Node("Annotated", Then(<<[Repeated(Annotation) EXCEPT !.least = 1], p>>)), p>>)
-----------------------------------------------------------------------------
(* Types and paths *)
FnRetTy(ty) == Choice(<<Node("Returns", Then(<<Token("->"), ty>>)), Node("Default", Nothing)>>)
FnTy == Node("FnTy", Then(<<Token("Fn"), Parens(Separated(Ref("Ty"), ",", 0)), FnRetTy(Ref("Ty"))>>))

(* A path of a single segment Fn is reached only when FnTy failed.           *)
Ty ==
  Choice(<<Node("Never", Token("!")), Node("Infer", Token("_")), FnTy, Ref("Path"),
           Node("ArrayTy", Between("[", Ref("Ty"), "]")), TupleOrParen("TupTy", Ref("Ty"))>>)

GenericArgs == Between("<", Separated(Ref("GenericArg"), ",", 1), ">")
GenericArg ==
  Choice(<<Node("Constraint", Then(<<Ident, OrNot(GenericArgs), Token("="), Ref("Ty")>>)), Ref("Ty")>>)
TurbofishGenericArgs == Then(<<Token("::"), GenericArgs>>)

SegmentIdent == Choice(<<Ident, Select({"self", "Self", "super"})>>)
PathSegment(args) == Node("Segment", Then(<<SegmentIdent, OrNot(args)>>))
PathOf(segment, least) == Node("Path", Separated(segment, "::", least))
Path == PathOf(PathSegment(GenericArgs), 1)
PathTurbofish == PathOf(PathSegment(TurbofishGenericArgs), 1)
QSelf == Between("<", Node("QSelf", Then(<<Ref("Ty"), Token("as"), Path>>)), ">")

GenericBounds == Separated(Ref("Ty"), "+", 0)
GenericParam ==
  Annotated(Node("Param", Then(<<Ident, OrNot(Then(<<Token(":"), GenericBounds>>)),
                                 OrNot(Then(<<Token("="), Ref("Ty")>>))>>)))
WhereClause ==
  OrNot(Then(<<Token("where"),
    Separated(Node("Predicate", Then(<<Ref("Ty"), Token(":"), GenericBounds>>)), ",", 0)>>))
GenericParams == OrNot(Between("<", Comma(GenericParam), ">"))
Generics == Then(<<GenericParams, WhereClause>>)

UseTree ==
  Node("UseTree", Then(<<Path,
    Choice(<<Node("Nested", Then(<<Token("::"), Braces(Comma(Ref("UseTree")))>>)),
             Node("Glob", Then(<<Token("::"), Token("*")>>)),
             Node("Simple", OrNot(Then(<<Token("as"), Ident>>)))>>)>>))

(* The first alternative leaves nothing for the second.                      *)
Visibility ==
  Choice(<<Node("Public", Token("pub")),
           Node("Restricted", Then(<<Token("pub"), Parens(Path)>>)),
           Node("Inherited", Nothing)>>)
-----------------------------------------------------------------------------
(* Patterns *)
PatName(e) == IF e = "Expr" THEN "Pat" ELSE "PatNoStructLit"
BlockName(e) == IF e = "Expr" THEN "Block" ELSE "BlockNoStructLit"

PatField(p) ==
  Annotated(Choice(<<Node("PatField", Then(<<Ident, Token(":"), p>>)), Node("Shorthand", Ident)>>))
PatStruct(p) ==
  Node("PatStruct", Then(<<OrNot(QSelf), Path,
    Braces(Then(<<Comma(PatField(p)), OrNot(Token(".."))>>))>>))
PatTupleStruct(p) == Node("TupleStruct", Then(<<OrNot(QSelf), Path, Parens(Comma(p))>>))

(* A path of one segment is left to PatIdent.                                *)
PatPath ==
  Node("PatPath", Choice(<<Then(<<QSelf, Path>>), PathOf(PathSegment(GenericArgs), 2)>>))
PatIdent(p) == Node("Binding", Then(<<Ident, OrNot(Then(<<Token("@"), p>>))>>))

RangeEnd == Choice(<<Node("Included", Token("..=")), Node("Excluded", Token(".."))>>)
PatExprOrRange(e) ==
  Choice(<<Node("PatTo", Then(<<RangeEnd, Ref(e)>>)),
           Node("PatFrom", Then(<<Ref(e), RangeEnd, OrNot(Ref(e))>>)),
           Node("PatExpr", Ref(e))>>)

PatKind(e) ==
  LET p == Ref(PatName(e)) IN
  Choice(<<Node("Wild", Token("_")), Node("NeverPat", Token("!")),
           PatTupleStruct(p), PatStruct(p), TupleOrParen("PatTuple", p),
           Node("PatArray", Between("[", Comma(p), "]")), PatPath, PatIdent(p),
           PatExprOrRange(e), Node("Rest", Token(".."))>>)
Pat(e) == Unwrap("Or", Separated(PatKind(e), "|", 1))
-----------------------------------------------------------------------------
(* Statements *)
Local(e) ==
  Annotated(Node("Local", Then(<<Token("let"), Ref(PatName(e)), OrNot(Then(<<Token(":"), Ref("Ty")>>)),
    OrNot(Then(<<Token("="), Ref(e), OrNot(Then(<<Token("else"), Ref(BlockName(e))>>))>>)), Token(";")>>)))
Stmt(e) ==
  Choice(<<Ref(IF e = "Expr" THEN "Item" ELSE "ItemNoStructLit"), Local(e),
           Node("Stmt", Then(<<Ref(e), OrNot(Token(";"))>>))>>)
Block(e) == Node("Block", Braces(Repeated(Stmt(e))))
Arm(e, pat) ==
  Annotated(Node("Arm", Then(<<pat, OrNot(Then(<<Token("if"), Ref(e)>>)), Token("=>"), OrNot(Ref(e)),
                               Choice(<<Token(","), Nothing>>)>>)))
-----------------------------------------------------------------------------
(* Expressions *)
ExprField(e) ==
  Annotated(Choice(<<Node("Field", Then(<<Ident, Token(":"), Ref(e)>>)), Node("Shorthand", Ident)>>))
StructExpr(e) ==
  Node("Struct", Then(<<OrNot(QSelf), PathTurbofish,
    Braces(Then(<<Separated(ExprField(e), ",", 0), Choice(<<Token(","), Nothing>>),
                  OrNot(Then(<<Token(".."), Ref(e)>>))>>))>>))
Param(e) ==
  Annotated(Node("Typed", Then(<<PatKind(e), OrNot(Then(<<Token(":"), Ref("Ty")>>))>>)))
Closure(e) ==
  Node("Closure", Then(<<Between("|", Comma(Param(e)), "|"), FnRetTy(Ref("Ty")), Ref(e)>>))
RangeLimits == Choice(<<Node("Closed", Token("..=")), Node("HalfOpen", Token(".."))>>)

Condition(e, c) ==
  Choice(<<Node("Let", Then(<<Token("let"), Ref(PatName(e)), Token("="), Ref(c)>>)), Ref(c)>>)
If(e, c) ==
  Node("If", Then(<<Token("if"), Condition(e, c), Ref(BlockName(e)),
    OrNot(Then(<<Token("else"), Choice(<<Ref(IF e = "Expr" THEN "If" ELSE "IfNoStructLit"),
                                         Node("BlockExpr", Ref(BlockName(e)))>>)>>))>>))
While(e, c) == Node("While", Then(<<OrNot(Label), Token("while"), Condition(e, c), Ref(BlockName(e))>>))
For(e, c) ==
  Node("ForLoop", Then(<<OrNot(Label), Token("for"), Ref(PatName(e)), Token("in"), Ref(c), Ref(BlockName(e))>>))
Loop(e) == Node("Loop", Then(<<OrNot(Label), Token("loop"), Ref(BlockName(e))>>))
Match(e, c) ==
  Node("Match", Then(<<Token("match"), Ref(c), Braces(Repeated(Arm(e, Ref(PatName(e)))))>>))

Break(e) == Node("Break", Then(<<Token("break"), OrNot(Ident), OrNot(Ref(e))>>))
Continue == Node("Continue", Then(<<Token("continue"), OrNot(Ident)>>))
Ret(e)   == Node("Ret", Then(<<Token("return"), OrNot(Ref(e))>>))
RangeNoStart(e) == Node("RangeTo", Then(<<RangeLimits, OrNot(Ref(e))>>))
ExprPath == Node("PathExpr", Then(<<OrNot(Then(<<QSelf, Token("::")>>)), PathTurbofish>>))

(* Conditions and scrutinees (c) are free of struct literals.                *)
StructLits(e) == IF e = "Expr" THEN <<StructExpr(e)>> ELSE << >>
Primary(e) ==
  LET c == "ExprNoStructLit" IN
  Choice(<<Literal, Node("Array", Between("[", Comma(Ref(e)), "]")), TupleOrParen("Tup", Ref(e))>>
         \o StructLits(e) \o
         <<Closure(e), If(e, c), While(e, c), For(e, c), Loop(e), Match(e, c),
           Node("BlockExpr", Then(<<OrNot(Label), Ref(BlockName(e))>>)),
           Break(e), Continue, Ret(e), RangeNoStart(e), Node("Underscore", Token("_")), ExprPath>>)

(* ExprPrecedence, loosest first: the place is the binding power.             *)
Precedence ==
  LET order == <<"Jump", "Assign", "Range", "LOr", "LAnd", "Compare", "BitOr", "BitXor", "BitAnd",
                 "Shift", "Sum", "Product", "Cast", "Prefix", "Unambiguous">>
  IN  [p \in {order[k] : k \in 1..15} |-> CHOOSE k \in 0..14 : order[k + 1] = p]

BinOps ==
  [Product |-> {"*", "/", "%"}, Sum |-> {"+", "-"}, Shift |-> {"<<", ">>"}, BitAnd |-> {"&"},
   BitXor |-> {"^"}, BitOr |-> {"|"}, Compare |-> {"==", "<", "<=", "!=", ">=", ">"},
   LAnd |-> {"&&"}, LOr |-> {"||"}]
AssignOps == {"+=", "-=", "*=", "/=", "%=", "&=", "|=", "^=", "<<=", ">>="}
SideAlwaysRight(level) == "right"
Side(level) == IF level = "Compare" THEN "non" ELSE "left"

Args(e) == Parens(Comma(Ref(e)))
Operators(e) ==
  <<Prefix("Unary", Precedence.Prefix, Select({"!", "-"})),
    Postfix("Cast", Precedence.Cast, Then(<<Token("as"), Ref("Ty")>>)),
    Infix("Assign", "right", Precedence.Assign, Token("=")),
    Infix("AssignOp", "right", Precedence.Assign, Select(AssignOps))>>
  \o [k \in 1..9 |->
        LET level == <<"Product", "Sum", "Shift", "BitAnd", "BitXor", "BitOr", "Compare", "LAnd", "LOr">>[k]
        IN  Infix("Binary", Side(level), Precedence[level], Select(BinOps[level]))]
  \o <<Postfix("MethodCall", Precedence.Unambiguous + 1,
               Then(<<Token("."), PathSegment(TurbofishGenericArgs), Args(e)>>)),
       Postfix("Call", Precedence.Unambiguous + 1, Args(e)),
       Postfix("Member", Precedence.Unambiguous + 1, Then(<<Token("."), Choice(<<Ident, Select({"int"})>>)>>)),
       Postfix("Index", Precedence.Unambiguous + 1, Between("[", Ref(e), "]")),
       Postfix("Try", Precedence.Unambiguous, Token("?")),
       Postfix("RangeFrom", Precedence.Range, Then(<<RangeLimits, OrNot(Ref(e))>>))>>
Expr(e) == Pratt(Annotated(Primary(e)), Operators(e))
-----------------------------------------------------------------------------
(* Items *)
NamedField(ty) ==
  Annotated(Node("NamedField", Then(<<Visibility, Ident, OrNot(Then(<<Token(":"), ty>>))>>)))
TupleField(ty) == Annotated(Node("TupleField", Then(<<Visibility, ty>>)))
EnumTupleField(ty) == Annotated(Node("VariantField", ty))
StructBody ==
  Choice(<<Node("StructData", Braces(Comma(NamedField(Ref("Ty"))))),
           Node("TupleData", Then(<<Parens(Comma(TupleField(Ref("Ty")))), Token(";")>>)),
           Node("UnitData", Token(";"))>>)
EnumVariantData ==
  Choice(<<Node("StructData", Braces(Comma(NamedField(Ref("Ty"))))),
           Node("TupleData", Parens(Comma(EnumTupleField(Ref("Ty"))))), Node("UnitData", Nothing)>>)
EnumDef == Braces(Comma(Annotated(Node("Variant", Then(<<Ident, EnumVariantData>>)))))
TyAlias ==
  Node("TyAlias", Then(<<Token("type"), Ident, GenericParams,
    OrNot(Then(<<Token(":"), GenericBounds>>)), WhereClause,
    OrNot(Then(<<Token("="), Ref("Ty")>>)), WhereClause, Token(";")>>))
FnParam(e) == Choice(<<Node("SelfParam", Token("self")), Param(e)>>)
FnItem(e) ==
  Node("FnItem", Then(<<Token("fn"), Ident, Generics, Parens(Comma(FnParam(e))), FnRetTy(Ref("Ty")),
    Choice(<<Ref(BlockName(e)), Node("NoBody", Token(";"))>>)>>))
AssocItem(e) ==
  Annotated(Node("Assoc", Then(<<Visibility, Choice(<<FnItem(e), TyAlias>>)>>)))
TraitDef(e) ==
  Node("Trait", Then(<<Token("trait"), Ident, Generics, OrNot(Then(<<Token(":"), GenericBounds>>)),
                       Braces(Repeated(AssocItem(e)))>>))
ImplDef(e) ==
  Node("Impl", Then(<<Token("impl"), Generics,
    Choice(<<Node("OfTrait", Then(<<Path, Token("for"), Ref("Ty")>>)), Node("Inherent", Ref("Ty"))>>),
    Braces(Repeated(AssocItem(e)))>>))

ModuleBody(item) == Then(<<Repeated(Token("//!")), Repeated(item)>>)
ModKind(item) ==
  Choice(<<Node("Unloaded", Token(";")), Node("Loaded", Braces(ModuleBody(item)))>>)
ItemKind(e, item) ==
  Choice(<<Then(<<Token("use"), UseTree, Token(";")>>), FnItem(e),
           Node("Mod", Then(<<Token("mod"), Ident, ModKind(item)>>)), TyAlias,
           Node("Enum", Then(<<Token("enum"), Ident, Generics, EnumDef>>)),
           Node("StructItem", Then(<<Token("struct"), Ident, Generics, StructBody>>)),
           TraitDef(e), ImplDef(e)>>)
Item(e, item) == Annotated(Node("Item", Then(<<Visibility, ItemKind(e, item)>>)))

RuleOf(name) ==
  CASE name = "Expr" -> Expr("Expr")
    [] name = "ExprNoStructLit" -> Expr("ExprNoStructLit")
    [] name = "Block" -> Block("Expr")
    [] name = "BlockNoStructLit" -> Block("ExprNoStructLit")
    [] name = "If" -> If("Expr", "ExprNoStructLit")
    [] name = "IfNoStructLit" -> If("ExprNoStructLit", "ExprNoStructLit")
    [] name = "Pat" -> Pat("Expr")
    [] name = "PatNoStructLit" -> Pat("ExprNoStructLit")
    [] name = "Item" -> Item("Expr", Ref("Item"))
    [] name = "ItemNoStructLit" -> Item("ExprNoStructLit", Ref("ItemNoStructLit"))
    [] name = "Module" -> Node("Module", ModuleBody(Ref("Item")))
    [] name = "Ty" -> Ty
    [] name = "GenericArg" -> GenericArg
    [] name = "Path" -> Path
    [] name = "UseTree" -> UseTree
    [] name = "MetaItem" -> MetaItem
=============================================================================
