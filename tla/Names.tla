------------------------------- MODULE Names -------------------------------
(***************************************************************************)
(* Definitions, scopes and names of the type checker: the three walks over *)
(* the items of a program (scope.rs, resolve.rs, lower_signatures.rs, the  *)
(* lookups of lib.rs and the item handlers of check.rs).                   *)
(*                                                                         *)
(* Resolution declares every item in the scope of the item it is in,       *)
(* lowering fills the definitions in, one item at a time and in the order  *)
(* of the text, and checking visits the bodies.  Neither of the last two   *)
(* remembers which definition an item got: each looks the item up again by *)
(* name, in scopes that imports change in the meantime.                    *)
(*                                                                         *)
(* The program is written during resolution, item by item in the order of  *)
(* the text (an item comes before the items inside it), from the forms of  *)
(* one of Forms.  The state of the checker is one record, cx, as in the    *)
(* code.                                                                   *)
(* Types are reduced to what names need: the definition a type names, the  *)
(* variable of an alias whose right side is not lowered yet, or an error.  *)
(* Primitive types, generic arguments and aliases with parameters are left *)
(* out.                                                                    *)
(***************************************************************************)
EXTENDS Integers, Sequences, SequencesExt, FiniteSets

CONSTANTS
  Symbols,    \* the names of items, generic parameters and variants
  Forms,      \* items that a program may be written from, and how many
              \* of them, a bound for each such set
  MaxItems    \* bound on the items of a program

Root == 1     \* the root scope
NoDef == 0
NoScope == 0
NoItem == 0
SELF_TYPE == "Self"
NoName == ""

(***************************************************************************)
(* An item.  up is the item it stands in, 0 at the top, and around all the *)
(* items it is inside of; generics are [name, bound] with a bound path     *)
(* that may be empty; path is the return type of a fn, the right side of   *)
(* an alias or the self type of an impl; trait the path of the trait of an *)
(* impl; shape a struct's kind, or "self" for a fn with a self parameter.  *)
(* The tree of a use is flattened into its branches, in the order of the   *)
(* walk: group is the branch whose group a branch is in, 0 for the first.  *)
(***************************************************************************)
Kinds == {"fn", "alias", "enum", "struct", "trait", "mod", "impl", "use"}
Spaces == {"types", "values"}

Item(kind, name) ==
  [kind |-> kind, name |-> name, up |-> NoItem, around |-> {}, generics |-> <<>>, shape |-> "",
   path |-> <<>>, trait |-> <<>>, trees |-> <<>>, variants |-> <<>>]

Paths == Seq(Symbols \cup {SELF_TYPE})
Generics == [name : Symbols, bound : Paths]
Trees == [path : Seq(Symbols), shape : {"simple", "glob", "nested"}, name : Symbols \cup {NoName}, group : Nat]
Items ==
  [kind : Kinds, name : Symbols \cup {NoName}, up : Nat, around : SUBSET Nat, generics : Seq(Generics),
   shape : STRING, path : Paths, trait : Paths, trees : Seq(Trees), variants : Seq(Symbols)]

\* Self is a word of the language: no item has it for a name.
IsForm(f) ==
  /\ f \in Items /\ f.up = NoItem /\ f.around = {}
  /\ f.kind \notin {"impl", "use"} => f.name # NoName
  /\ f.kind = "impl" => f.path # <<>>
  /\ f.kind # "enum" => f.variants = <<>>
  /\ f.kind \in {"mod", "use"} => f.generics = <<>>
  /\ \A n \in DOMAIN f.trees : f.trees[n].path # <<>> /\ f.trees[n].group < n

ASSUME NamesAssumption == {SELF_TYPE, NoName} \cap Symbols = {} /\ MaxItems \in Nat
ASSUME FormsAssumption == \A forms \in Forms : \A f \in forms.items : IsForm(f)

VARIABLES
  prog,      \* the items written so far
  open,      \* the items the walk is inside of, outermost first
  pass,      \* "resolve", "lower", "collect", "check" or "done"
  next,      \* the item the walk is at
  impls,     \* impls whose items are being lowered, innermost last
  cx         \* the TypeCheckContext

vars == <<prog, open, pass, next, impls, cx>>

\* The impl an item is written in: the resolver stops at impls.
ImplOver(i) ==
  LET over == {a \in prog[i].around : prog[a].kind = "impl"}
  IN  IF over = {} THEN NoItem ELSE CHOOSE a \in over : \A b \in over : b <= a

Inside(i) == {j \in DOMAIN prog : i \in prog[j].around}

\* A definition keeps only what names need of it.  of is the type of an alias.
TheVar(d) == [tag |-> "var", def |-> d]
TheDef(d) == [tag |-> "def", def |-> d]
ErrTy == [tag |-> "err", def |-> NoDef]

(***************************************************************************)
(* Scopes.                                                                 *)
(***************************************************************************)
Entries == (Symbols \cup {SELF_TYPE}) \X Spaces
NoEntries == [e \in Entries |-> NoDef]

NewScope(c, parent) == [c EXCEPT !.scopes = Append(@, [parent |-> parent, entries |-> NoEntries])]

Lookup(c, s, symbol, ns) == c.scopes[s].entries[<<symbol, ns>>]

\* A scope is younger than its parent.
LookupUpChain(c, s, symbol, ns) ==
  LET found[t \in 0..Len(c.scopes)] ==
        IF t = NoScope THEN NoDef
        ELSE IF Lookup(c, t, symbol, ns) # NoDef THEN Lookup(c, t, symbol, ns)
        ELSE found[c.scopes[t].parent]
  IN  found[s]

Insert(c, s, symbol, d, ns) == [c EXCEPT !.scopes[s].entries[<<symbol, ns>>] = d]

Namespace(kind) == IF kind \in {"variant", "fn", "local", "param"} THEN "values" ELSE "types"

Diagnose(c, what, i) == [c EXCEPT !.diags = @ \cup {<<what, i>>}]

\* An item with the name of another hides it and says nothing.
CheckNothing(c, s, symbol, ns, i) == c

CheckRedeclaration(c, s, symbol, ns, i) ==
  IF Lookup(c, s, symbol, ns) = NoDef THEN c ELSE Diagnose(c, "AlreadyDefined", i)

\* Adds a definition for symbol and enters it in scope s.
Add(c, s, symbol, def) ==
  Insert([c EXCEPT !.defs = Append(@, def)], s, symbol, Len(c.defs) + 1, Namespace(def.kind))

DefFor(kind, symbol, i, scope) ==
  [kind |-> kind, symbol |-> symbol, item |-> i, scope |-> scope, of |-> ErrTy,
   bounds |-> <<>>, record |-> FALSE, self |-> FALSE, collected |-> NoItem, checked |-> NoItem]

Declare(c, s, symbol, i, def) ==
  Add(CheckRedeclaration(c, s, symbol, Namespace(def.kind), i), s, symbol, def)

(***************************************************************************)
(* Paths.                                                                  *)
(***************************************************************************)
KindOf(c, d) == c.defs[d].kind

\* The end of a chain of aliases; a variable that is not bound is its own type.
ResolveTy(c, ty) ==
  LET end[n \in 0..MaxItems] ==
        IF n = 0 THEN ty
        ELSE IF end[n - 1].tag = "var" THEN c.defs[end[n - 1].def].of ELSE end[n - 1]
  IN  end[MaxItems]

\* The definition impls are filed under for a type, or NoDef.
ImplTargetOf(c, ty) ==
  LET t == ResolveTy(c, ty)
  IN  IF t.tag = "def" /\ KindOf(c, t.def) \in {"struct", "enum"} THEN t.def ELSE NoDef

ImplTargetOfDef(c, d) ==
  CASE KindOf(c, d) \in {"struct", "enum"} -> d
    [] KindOf(c, d) = "alias" -> ImplTargetOf(c, c.defs[d].of)
    [] OTHER -> NoDef

ResolveInDefScope(c, d, symbol, ns) ==
  IF KindOf(c, d) \in {"mod", "enum"} THEN Lookup(c, c.defs[d].scope, symbol, ns) ELSE NoDef

\* The one impl of the target, or for every type, that defines the symbol.
ResolveInImpls(c, target, symbol, ns) ==
  LET found == {k \in DOMAIN c.impls : /\ c.impls[k].target \in {target, NoDef}
                                       /\ Lookup(c, c.impls[k].scope, symbol, ns) # NoDef}
  IN  IF \E k \in DOMAIN c.impls : found = {k}
      THEN Lookup(c, c.impls[CHOOSE k \in found : TRUE].scope, symbol, ns) ELSE NoDef

\* In the impls of a target, if there is one.
ResolveInTarget(c, target, symbol, ns) ==
  IF target = NoDef THEN NoDef ELSE ResolveInImpls(c, target, symbol, ns)

OrElse(d, e) == IF d # NoDef THEN d ELSE e

ResolvePathSegment(c, d, symbol, ns) ==
  OrElse(ResolveInDefScope(c, d, symbol, ns), ResolveInTarget(c, ImplTargetOfDef(c, d), symbol, ns))

\* Only the last segment of a path is in the namespace asked for.
SegmentNamespace(path, k, ns) == IF k = Len(path) THEN ns ELSE "types"

\* Each segment in what the ones before it named.
ResolvePath(c, s, path, ns) ==
  LET named[k \in 0..(Len(path) - 1)] ==
        LET In == SegmentNamespace(path, k + 1, ns)
        IN  IF k = 0 THEN LookupUpChain(c, s, path[1], In)
            ELSE IF named[k - 1] = NoDef THEN NoDef
            ELSE ResolvePathSegment(c, named[k - 1], path[k + 1], In)
  IN  named[Len(path) - 1]

\* A path inside the group of a use: modules only.
ResolvePathFrom(c, d, path, ns) ==
  LET named[k \in 0..Len(path)] ==
        IF k = 0 THEN d
        ELSE IF named[k - 1] = NoDef \/ KindOf(c, named[k - 1]) # "mod" THEN NoDef
        ELSE Lookup(c, c.defs[named[k - 1]].scope, path[k], SegmentNamespace(path, k, ns))
  IN  named[Len(path)]

\* The type of what a path named, with the context after the lookup.  A
\* module has no type to instantiate: asking for one panics.
InstantiateDefTy(c, d, i) ==
  CASE d = NoDef -> [cx |-> Diagnose(c, "UnresolvedType", i), ty |-> ErrTy]
    [] d # NoDef /\ KindOf(c, d) = "mod" -> [cx |-> [c EXCEPT !.panicked = TRUE], ty |-> ErrTy]
    [] d # NoDef /\ KindOf(c, d) = "alias" -> [cx |-> c, ty |-> c.defs[d].of]
    [] OTHER -> [cx |-> c, ty |-> TheDef(d)]

LowerPathTy(c, s, path, i) == InstantiateDefTy(c, ResolvePath(c, s, path, "types"), i)

(***************************************************************************)
(* Resolution.                                                             *)
(***************************************************************************)
\* What n steps in a row make of a context.
After(c, n, Step(_, _)) ==
  LET cxs[k \in 0..n] == IF k = 0 THEN c ELSE Step(cxs[k - 1], k)
  IN  cxs[n]

\* A generic parameter of an item, in its scope.  It is not checked for
\* redeclaration, and its bounds are lowered here, before the items below
\* have been declared.
AddBounded(lowered, s, def) ==
  Add(lowered.cx, s, def.symbol, [def EXCEPT !.bounds = <<lowered.ty>>])

DeclareGeneric(c, s, g, i) ==
  LET def == DefFor("generic", g.name, i, s)
  IN  IF g.bound = <<>> THEN Add(c, s, g.name, def)
      ELSE AddBounded(LowerPathTy(c, s, g.bound, i), s, def)

DeclareGenericParams(c, s, generics, i) ==
  After(c, Len(generics), LAMBDA acc, k : DeclareGeneric(acc, s, generics[k], i))

\* The scope and the definition an item got are the newest ones.
Own(c, i) == [c EXCEPT !.own[i] = Len(c.scopes), !.def[i] = Len(c.defs)]

\* An item with its scope, declared in the scope around it.
DeclareItem(c, s, f, i, def) == Own(Declare(c, s, f.name, i, def), i)

\* The scope that is opened next.
Inner(c) == Len(c.scopes) + 1

ResolveFn(c, s, i, f) ==
  DeclareGenericParams(DeclareItem(NewScope(c, s), s, f, i, DefFor("fn", f.name, i, Inner(c))),
                       Inner(c), f.generics, i)

ResolveTyAlias(c, s, i, f) ==
  LET def == [DefFor("alias", f.name, i, Inner(c)) EXCEPT !.of = TheVar(Len(c.defs) + 1)]
  IN  DeclareGenericParams(DeclareItem(NewScope(c, s), s, f, i, def), Inner(c), f.generics, i)

DeclareVariants(c, s, variants, i) ==
  After(c, Len(variants),
        LAMBDA acc, k : Declare(acc, s, variants[k], i, DefFor("variant", variants[k], i, NoScope)))

ResolveEnum(c, s, i, f) ==
  DeclareVariants(DeclareItem(DeclareGenericParams(NewScope(c, s), Inner(c), f.generics, i),
                              s, f, i, DefFor("enum", f.name, i, Inner(c))),
                  Inner(c), f.variants, i)

\* The newest definition is a value as well.
AlsoValue(c, s, symbol, i) ==
  Insert(CheckRedeclaration(c, s, symbol, "values", i), s, symbol, Len(c.defs), "values")

\* A struct with no named fields is its own constructor.
ResolveStruct(c, s, i, f) ==
  LET def == [DefFor("struct", f.name, i, Inner(c)) EXCEPT !.record = (f.shape = "record")]
      Declared == DeclareItem(DeclareGenericParams(NewScope(c, s), Inner(c), f.generics, i), s, f, i, def)
  IN  IF f.shape = "record" THEN Declared ELSE AlsoValue(Declared, s, f.name, i)

ResolveTrait(c, s, i, f) ==
  LET self == DefFor("generic", SELF_TYPE, i, Inner(c))
  IN  DeclareItem(DeclareGenericParams(Add(NewScope(c, s), Inner(c), SELF_TYPE, self), Inner(c), f.generics, i),
                  s, f, i, DefFor("trait", f.name, i, Inner(c)))

ResolveMod(c, s, i, f) == DeclareItem(NewScope(c, s), s, f, i, DefFor("mod", f.name, i, Inner(c)))

ResolveItem(c, i, f) ==
  LET s == IF f.up = 0 THEN Root ELSE c.own[f.up]
  IN  CASE f.kind = "fn" -> ResolveFn(c, s, i, f)
        [] f.kind = "alias" -> ResolveTyAlias(c, s, i, f)
        [] f.kind = "enum" -> ResolveEnum(c, s, i, f)
        [] f.kind = "struct" -> ResolveStruct(c, s, i, f)
        [] f.kind = "trait" -> ResolveTrait(c, s, i, f)
        [] f.kind = "mod" -> ResolveMod(c, s, i, f)
        [] OTHER -> c

\* Which items may stand in which.
MayHold(kind, inner) ==
  \/ kind \in {"fn", "mod"}
  \/ kind \in {"trait", "impl"} /\ inner \in {"fn", "alias"}

Init ==
  /\ prog = <<>> /\ open = <<>> /\ pass = "resolve" /\ next = 1 /\ impls = <<>>
  /\ cx = [scopes |-> <<[parent |-> NoScope, entries |-> NoEntries]>>,
           defs |-> <<>>, diags |-> {}, impls |-> <<>>, panicked |-> FALSE,
           own |-> [i \in 1..MaxItems |-> NoScope],    \* the scope an item opened
           def |-> [i \in 1..MaxItems |-> NoDef],      \* the definition made for it
           at |-> [i \in 1..MaxItems |-> NoScope],     \* where its items are looked up
           fill |-> [i \in 1..MaxItems |-> NoDef],     \* the definition it was lowered into
           taken |-> FALSE,          \* whether a use has replaced an entry of a scope
           globs |-> {}]             \* <<item, scope, definition>> of globs

\* Nothing inside an impl is resolved before the impl is.
Write(form) ==
  LET f == [form EXCEPT !.up = IF open = <<>> THEN NoItem ELSE Last(open), !.around = ToSet(open)]
      i == Len(prog) + 1
      hidden == \E a \in f.around : prog[a].kind = "impl"
  IN  /\ pass = "resolve" /\ Len(prog) < MaxItems /\ ~cx.panicked
      /\ open # <<>> => MayHold(prog[f.up].kind, f.kind)
      /\ prog' = Append(prog, f)
      /\ open' = Append(open, i)
      /\ cx' = IF hidden THEN cx ELSE ResolveItem(cx, i, f)
      /\ UNCHANGED <<pass, next, impls>>

Leave ==
  /\ pass = "resolve" /\ open # <<>> /\ ~cx.panicked
  /\ open' = Front(open)
  /\ UNCHANGED <<prog, pass, next, impls, cx>>

ResolveDone ==
  /\ pass = "resolve" /\ open = <<>> /\ prog # <<>> /\ ~cx.panicked
  /\ pass' = "lower"
  /\ UNCHANGED <<prog, open, next, impls, cx>>

(***************************************************************************)
(* Lowering.                                                               *)
(***************************************************************************)
\* Where the walk looks the item at next up.
Here(c, i) == IF prog[i].up = 0 THEN Root ELSE c.at[prog[i].up]

\* The definition the walk takes for an item of this kind and name, if there
\* is one: whatever has the name in the current scope, were it of that kind.
FoundAs(c, s, kind, name) ==
  LET d == IF s = NoScope THEN NoDef ELSE Lookup(c, s, name, Namespace(kind))
  IN  IF d # NoDef /\ KindOf(c, d) = kind THEN d ELSE NoDef

\* Without entering the scope of the item.
FillInPlace(c, i, d) == [c EXCEPT !.fill[i] = d, !.at[i] = c.scopes[c.defs[d].scope].parent]

Fill(c, i, d) == [c EXCEPT !.fill[i] = d, !.at[i] = c.defs[d].scope]

\* Unifies the variable of alias d with the type of its right side.
BindAlias(c, d, ty) ==
  LET a == ResolveTy(c, TheVar(d))
      b == ResolveTy(c, ty)
  IN  CASE a = b -> c
        [] a # b /\ a.tag = "var" -> [c EXCEPT !.defs[a.def].of = b]
        [] a # b /\ a.tag # "var" /\ b.tag = "var" -> [c EXCEPT !.defs[b.def].of = a]
        [] OTHER -> c

LowerFn(c, s, i, f) ==
  LET d == FoundAs(c, s, "fn", f.name)
      c1 == IF f.path = <<>> THEN c ELSE LowerPathTy(c, c.defs[d].scope, f.path, i).cx
  IN  IF d = NoDef THEN c ELSE Fill([c1 EXCEPT !.defs[d].self = (f.shape = "self")], i, d)

LowerTyAlias(c, s, i, f) ==
  LET d == FoundAs(c, s, "alias", f.name)
      right == LowerPathTy(c, c.defs[d].scope, f.path, i)
  IN  IF d = NoDef \/ f.path = <<>> THEN c
      ELSE Fill(BindAlias(right.cx, d, right.ty), i, d)

\* struct, enum, trait and mod: found, and entered for the items inside.
LowerNamed(c, s, i, f) ==
  LET d == FoundAs(c, s, f.kind, f.name)
  IN  IF d = NoDef THEN c ELSE Fill(c, i, d)

(***************************************************************************)
(* use.                                                                    *)
(***************************************************************************)
\* The entries brought into scope s, names with their definitions.  taken
\* remembers whether one took the place of another definition.
Import(c, s, brought) ==
  LET had == c.scopes[s].entries
  IN  [c EXCEPT !.scopes[s].entries =
                  [e \in Entries |-> IF e \in DOMAIN brought THEN brought[e] ELSE had[e]],
                !.taken = @ \/ \E e \in DOMAIN brought : had[e] \notin {NoDef, brought[e]}]

\* Under the namespace its kind is in, whichever the path was looked up in.
UseSimple(c, s, tree, d) ==
  LET name == IF tree.name = NoName THEN Last(tree.path) ELSE tree.name
  IN  Import(c, s, [e \in {<<name, Namespace(KindOf(c, d))>>} |-> d])

\* What a scope has, without its generic parameters.
Offered(c, s) ==
  LET from == c.scopes[s].entries
  IN  [e \in {e \in Entries : from[e] # NoDef /\ KindOf(c, from[e]) # "generic"} |-> from[e]]

\* The types only.
UseGlobTypes(c, s, d, i) ==
  IF KindOf(c, d) \notin {"mod", "enum"} THEN Diagnose(c, "InvalidGlobTarget", i)
  ELSE LET all == Offered(c, c.defs[d].scope)
       IN  Import([c EXCEPT !.globs = @ \cup {<<i, s, d>>}], s,
                  [e \in {e \in DOMAIN all : e[2] = "types"} |-> all[e]])

UseGlob(c, s, d, i) ==
  IF KindOf(c, d) \notin {"mod", "enum"} THEN Diagnose(c, "InvalidGlobTarget", i)
  ELSE Import([c EXCEPT !.globs = @ \cup {<<i, s, d>>}], s, Offered(c, c.defs[d].scope))

\* No import names a generic parameter.
NoGeneric(c, d) == IF d # NoDef /\ KindOf(c, d) = "generic" THEN NoDef ELSE d

\* The path names a type first, a value only for a name imported alone.
UsePath(c, s, tree, prefix) ==
  LET In(ns) == IF prefix = NoDef THEN ResolvePath(c, s, tree.path, ns)
                ELSE ResolvePathFrom(c, prefix, tree.path, ns)
  IN  NoGeneric(c, OrElse(In("types"), IF tree.shape = "simple" THEN In("values") ELSE NoDef))

\* A branch whose path names d.
LowerUseTree(c, s, i, tree, d) ==
  CASE d = NoDef -> Diagnose(c, "UnresolvedImport", i)
    [] d # NoDef /\ tree.shape = "simple" -> UseSimple(c, s, tree, d)
    [] d # NoDef /\ tree.shape = "glob" -> UseGlob(c, s, d, i)
    [] d # NoDef /\ tree.shape = "nested" -> c

\* The branches in their order, each in what the branch over its group named;
\* a group whose path names nothing is left out.
Branched(w, s, i, tree, d) == [cx |-> LowerUseTree(w.cx, s, i, tree, d), named |-> Append(w.named, d)]

LowerBranch(w, s, i, tree) ==
  LET prefix == IF tree.group = 0 THEN NoDef ELSE w.named[tree.group]
  IN  IF tree.group # 0 /\ prefix = NoDef THEN [w EXCEPT !.named = Append(@, NoDef)]
      ELSE Branched(w, s, i, tree, UsePath(w.cx, s, tree, prefix))

LowerUse(c, s, i, f) ==
  After([cx |-> c, named |-> <<>>], Len(f.trees), LAMBDA w, n : LowerBranch(w, s, i, f.trees[n])).cx

(***************************************************************************)
(* impl.                                                                   *)
(***************************************************************************)
\* The items of an impl, in the scope it opened.
ResolveWithin(c, i) ==
  After(c, Len(prog), LAMBDA acc, j : IF ImplOver(j) = i THEN ResolveItem(acc, j, prog[j]) ELSE acc)

DeclareSelf(self, scope, i) ==
  Declare(self.cx, scope, SELF_TYPE, i,
          [DefFor("alias", SELF_TYPE, i, scope) EXCEPT !.of = self.ty])

\* Opens an impl: its scope, its generics, its items, its self type and Self.
OpenImpl(c, s, i, f) ==
  LET scope == Inner(c)
      With(c1) == [c1 EXCEPT !.own[i] = scope, !.at[i] = scope]
      items == ResolveWithin(With(DeclareGenericParams(NewScope(c, s), scope, f.generics, i)), i)
  IN  DeclareSelf(LowerPathTy(items, scope, f.path, i), scope, i)

TraitOf(c, i, f) ==
  LET d == IF f.trait = <<>> THEN NoDef ELSE ResolvePath(c, c.own[i], f.trait, "types")
  IN  IF d # NoDef /\ KindOf(c, d) = "trait" THEN d ELSE NoDef

\* The items of the trait that the scope of the impl has no entry for.
MissingItems(c, i, trait) ==
  IF trait = NoDef THEN {}
  ELSE LET from == c.scopes[c.defs[trait].scope]
           Lacks(ns, kind) ==
             {n \in Symbols : /\ from.entries[<<n, ns>>] # NoDef /\ KindOf(c, from.entries[<<n, ns>>]) = kind
                              /\ Lookup(c, c.own[i], n, ns) = NoDef}
       IN  Lacks("values", "fn") \cup Lacks("types", "alias")

\* Whether a function has self is known of a definition once it is lowered.
SelfParam(c, d) == KindOf(c, d) = "fn" /\ c.defs[d].self

\* The two diagnostics the other way round.
SelfSwapped(c, i, trait, what) ==
  /\ trait # NoDef
  /\ \E n \in Symbols :
       LET from == Lookup(c, c.defs[trait].scope, n, "values")
           to == Lookup(c, c.own[i], n, "values")
       IN  /\ from # NoDef /\ to # NoDef
           /\ CASE what = "UnexpectedSelfParam" -> SelfParam(c, from) /\ ~SelfParam(c, to)
                [] what = "MissingSelfParam" -> ~SelfParam(c, from) /\ SelfParam(c, to)

\* A function with self in only one of the trait and the impl.
SelfDiffers(c, i, trait, what) ==
  /\ trait # NoDef
  /\ \E n \in Symbols :
       LET from == Lookup(c, c.defs[trait].scope, n, "values")
           to == Lookup(c, c.own[i], n, "values")
       IN  /\ from # NoDef /\ to # NoDef
           /\ CASE what = "MissingSelfParam" -> SelfParam(c, from) /\ ~SelfParam(c, to)
                [] what = "UnexpectedSelfParam" -> ~SelfParam(c, from) /\ SelfParam(c, to)

\* The type after the last item is lowered: an impl is filed under the type
\* that is known by then.
FileImpl(c, i, trait) ==
  LET self == c.defs[Lookup(c, c.own[i], SELF_TYPE, "types")].of
  IN  [c EXCEPT !.impls = Append(@, [target |-> ImplTargetOf(c, self), scope |-> c.own[i],
                                     trait |-> trait, item |-> i])]

\* What is said of an impl of a trait.
Shortcomings(c, i, trait) ==
  {<<what, i>> : what \in {w \in {"MissingSelfParam", "UnexpectedSelfParam"} : SelfDiffers(c, i, trait, w)}}
  \cup (IF MissingItems(c, i, trait) = {} THEN {} ELSE {<<"MissingTraitItem", i>>})

FileUnder(c, i, trait) == FileImpl([c EXCEPT !.diags = @ \cup Shortcomings(c, i, trait)], i, trait)

\* Closes an impl once its items are lowered: the trait is looked up, its
\* items compared with the ones written, and the impl filed under its type.
CloseImpl(c, i, f) == FileUnder(c, i, TraitOf(c, i, f))

\* The items of the innermost open impl are lowered before it is closed.
ImplDone == impls # <<>> /\ next \notin Inside(Last(impls))

LowerItem(c, s, i, f) ==
  CASE f.kind = "fn" -> LowerFn(c, s, i, f)
    [] f.kind = "alias" -> LowerTyAlias(c, s, i, f)
    [] f.kind = "use" -> LowerUse(c, s, i, f)
    [] f.kind = "impl" -> OpenImpl(c, s, i, f)
    [] OTHER -> LowerNamed(c, s, i, f)

Lower ==
  /\ pass = "lower" /\ next <= Len(prog) /\ ~ImplDone /\ ~cx.panicked
  /\ LET scope == Here(cx, next) IN
       /\ cx' = IF scope = NoScope THEN cx ELSE LowerItem(cx, scope, next, prog[next])
       /\ impls' = IF prog[next].kind = "impl" /\ scope # NoScope THEN Append(impls, next) ELSE impls
  /\ next' = next + 1
  /\ UNCHANGED <<prog, open, pass>>

EndImpl ==
  /\ pass = "lower" /\ ImplDone /\ ~cx.panicked
  /\ cx' = CloseImpl(cx, Last(impls), prog[Last(impls)])
  /\ impls' = Front(impls)
  /\ UNCHANGED <<prog, open, pass, next>>

\* A pass ends, the next starts at the first item.
Turn(from, to) ==
  /\ pass = from /\ next > Len(prog) /\ impls = <<>> /\ ~cx.panicked
  /\ pass' = to /\ next' = 1
  /\ cx' = [cx EXCEPT !.at = [i \in 1..MaxItems |-> NoScope]]
  /\ UNCHANGED <<prog, open, impls>>

(***************************************************************************)
(* Checking.  collect_fn_mod_items notes the item of each function and     *)
(* module; a body is then checked under the definition its item is found   *)
(* under, when the walk comes to it or when a reference does first.        *)
(***************************************************************************)
Collect(c, i, f) ==
  LET d == FoundAs(c, Here(c, i), f.kind, f.name)
  IN  IF f.kind \notin {"fn", "mod"} \/ d = NoDef THEN c
      ELSE [c EXCEPT !.defs[d].collected = i, !.at[i] = c.defs[d].scope]

CollectItem ==
  /\ pass = "collect" /\ next <= Len(prog) /\ ~cx.panicked
  /\ cx' = Collect(cx, next, prog[next])
  /\ next' = next + 1
  /\ UNCHANGED <<prog, open, pass, impls>>

CheckBody(c, d, i) ==
  IF c.defs[d].checked # NoItem THEN c ELSE [c EXCEPT !.defs[d].checked = i]

\* A function in an impl is found by the place of its name, every other by name.
FnDefOf(c, i, f) ==
  IF f.up # 0 /\ prog[f.up].kind = "impl"
  THEN IF c.at[f.up] = NoScope THEN NoDef
       ELSE c.def[i]
  ELSE FoundAs(c, Here(c, i), "fn", f.name)

\* A module inside a function is not walked, nor an impl, nor a trait.
Walked(i, f) == f.up = 0 \/ prog[f.up].kind # "fn"

Check(c, i, f) ==
  CASE f.kind = "fn" /\ FnDefOf(c, i, f) # NoDef ->
         LET c1 == CheckBody(c, FnDefOf(c, i, f), i)
         IN  IF c1.defs[FnDefOf(c, i, f)].checked = i
             THEN [c1 EXCEPT !.at[i] = c.defs[FnDefOf(c, i, f)].scope] ELSE c1
    [] f.kind \in {"mod", "trait"} /\ Walked(i, f) /\ FoundAs(c, Here(c, i), f.kind, f.name) # NoDef ->
         [c EXCEPT !.at[i] = c.defs[FoundAs(c, Here(c, i), f.kind, f.name)].scope]
    [] f.kind = "impl" /\ Walked(i, f) -> [c EXCEPT !.at[i] = c.own[i]]
    [] OTHER -> c

CheckItem ==
  /\ pass = "check" /\ next <= Len(prog) /\ ~cx.panicked
  /\ cx' = Check(cx, next, prog[next])
  /\ next' = next + 1
  /\ UNCHANGED <<prog, open, pass, impls>>

\* A body refers to a function not checked yet.
CheckReferenced(d) ==
  /\ pass = "check" /\ cx.defs[d].collected # NoItem /\ cx.defs[d].checked = NoItem
  /\ KindOf(cx, d) = "fn" /\ ~cx.panicked
  /\ cx' = CheckBody(cx, d, cx.defs[d].collected)
  /\ UNCHANGED <<prog, open, pass, next, impls>>

Done == (pass = "done" \/ cx.panicked) /\ UNCHANGED vars

Next ==
  \/ \E forms \in Forms :
       /\ {[item EXCEPT !.up = NoItem, !.around = {}] : item \in ToSet(prog)} \subseteq forms.items
       /\ Len(prog) < forms.most
       /\ \E f \in forms.items : Write(f)
  \/ Leave
  \/ ResolveDone
  \/ Lower
  \/ EndImpl
  \/ Turn("lower", "collect")
  \/ CollectItem
  \/ Turn("collect", "check")
  \/ CheckItem
  \/ \E d \in DOMAIN cx.defs : CheckReferenced(d)
  \/ Turn("check", "done")
  \/ Done

Spec == Init /\ [][Next]_vars

(***************************************************************************)
(* Properties.                                                             *)
(***************************************************************************)
Defs == 1..Len(cx.defs)
Scopes == 1..Len(cx.scopes)

\* What an item declares in the scope around it.
NamesOf(f) ==
  CASE f.kind \in {"fn"} -> {<<f.name, "values">>}
    [] f.kind = "struct" /\ f.shape # "record" -> {<<f.name, "types">>, <<f.name, "values">>}
    [] f.kind \in {"impl", "use"} -> {}
    [] OTHER -> {<<f.name, "types">>}

Repeats(i) ==
  \/ \E j \in 1..(i - 1) : prog[j].up = prog[i].up /\ NamesOf(prog[j]) \cap NamesOf(prog[i]) # {}
  \/ /\ prog[i].up # 0
     /\ \E g \in ToSet(prog[prog[i].up].generics) : <<g.name, "types">> \in NamesOf(prog[i])
  \/ \E v, w \in DOMAIN prog[i].variants : v # w /\ prog[i].variants[v] = prog[i].variants[w]

\* An item is reported as already defined exactly when the text gives its name,
\* in the same namespace, to an earlier item of the same place, to a generic
\* parameter of the item it is in, or to two of its variants (declare and
\* check_redeclaration, and the second entry of a struct with a constructor).
RepeatsReported ==
  \A i \in DOMAIN prog :
    cx.own[i] # NoScope => (<<"AlreadyDefined", i>> \in cx.diags <=> Repeats(i))

\* A generic parameter is named only in the scope of the item that declares
\* it: no import carries it out (lower_use_tree and its glob).
GenericsStayHome ==
  \A s \in Scopes : \A n \in Symbols :
    LET d == Lookup(cx, s, n, "types")
    IN  d # NoDef /\ KindOf(cx, d) = "generic" => cx.defs[d].scope = s

\* Whatever declarations and imports do, a name in the namespace of values is
\* one: a function, a variant, or a struct that is its own constructor.
EntriesOfTheirKind ==
  \A s \in Scopes : \A n \in Symbols :
    LET v == Lookup(cx, s, n, "values")
        ty == Lookup(cx, s, n, "types")
    IN  /\ v # NoDef => \/ KindOf(cx, v) \in {"fn", "variant"}
                        \/ KindOf(cx, v) = "struct" /\ ~cx.defs[v].record
        /\ ty # NoDef => KindOf(cx, ty) \notin {"fn", "variant"}

Named == {i \in DOMAIN prog : prog[i].kind \notin {"impl", "use"}}

\* The items whose bodies checking comes to: not those of a module, an impl or
\* a trait written inside a function.
BodyWalked(i) ==
  /\ prog[i].kind = "fn"
  /\ \A a \in prog[i].around : prog[a].kind # "fn" => Walked(a, prog[a])

FilledAsOwn(i) ==
  cx.fill[i] = cx.def[i] \/ (prog[i].kind = "alias" /\ prog[i].path = <<>>)

\* A program without diagnostics, and in which no import takes a name from
\* something else, is seen the same by every pass: each item is lowered into
\* the definition it was declared as, each function and module is collected
\* under it, and each body is checked under the definition of its own function.
SameInEveryPass ==
  (pass = "done" /\ cx.diags = {} /\ ~cx.taken) =>
    \A i \in Named :
      /\ FilledAsOwn(i)
      /\ BodyWalked(i) => cx.defs[cx.def[i]].checked = i
      /\ (prog[i].kind \in {"fn", "mod"} /\ \A a \in prog[i].around : prog[a].kind \in {"fn", "mod"})
           => cx.defs[cx.def[i]].collected = i

\* In a program whose names are unique, what a glob brings is complete in the
\* end, unless a use that comes after it stands in the module it names: a glob
\* copies what is there at the time.
GlobsComplete ==
  (pass \in {"check", "done"} /\ ~cx.taken /\ "AlreadyDefined" \notin {r[1] : r \in cx.diags}) =>
    \A g \in cx.globs :
      LET from == cx.defs[g[3]]
      IN  \/ \E j \in (g[1] + 1)..Len(prog) : prog[j].kind = "use" /\ prog[j].up = from.item
          \/ \A e \in DOMAIN Offered(cx, from.scope) :
               cx.scopes[g[2]].entries[e] = cx.scopes[from.scope].entries[e]

\* Once signatures are lowered, an impl is filed under the struct or enum its
\* self type turns out to be; only an impl that goes through an alias of a
\* later item is taken for one of every type.
ImplsFiled ==
  \A k \in DOMAIN cx.impls :
    LET m == cx.impls[k]
        self == cx.defs[Lookup(cx, m.scope, SELF_TYPE, "types")].of
    IN  \/ m.target = ImplTargetOf(cx, self)
        \/ m.target = NoDef /\ \E j \in (m.item + 1)..Len(prog) : prog[j].kind = "alias"

Written(i, kind) == {prog[j].name : j \in {j \in DOMAIN prog : prog[j].up = i /\ prog[j].kind = kind}}

\* An impl of a trait is reported exactly when the text of the impl lacks a
\* function the text of the trait has, or an associated type that is not a
\* generic parameter of the impl either.
ImplsComplete ==
  \A k \in DOMAIN cx.impls :
    LET m == cx.impls[k]
        of == cx.defs[m.trait].item
        given == {g.name : g \in ToSet(prog[m.item].generics)}
    IN  m.trait # NoDef =>
          (<<"MissingTraitItem", m.item>> \in cx.diags
             <=> \/ ~(Written(of, "fn") \subseteq Written(m.item, "fn"))
                 \/ ~(Written(of, "alias") \subseteq Written(m.item, "alias") \cup given))

SelfOf(i, name) == \E j \in DOMAIN prog : /\ prog[j].up = i /\ prog[j].kind = "fn"
                                          /\ prog[j].name = name /\ prog[j].shape = "self"

SelfReported(m) ==
  LET of == cx.defs[m.trait].item
      both == Written(of, "fn") \cap Written(m.item, "fn")
  IN  /\ <<"MissingSelfParam", m.item>> \in cx.diags
            <=> \E n \in both : SelfOf(of, n) /\ ~SelfOf(m.item, n)
      /\ <<"UnexpectedSelfParam", m.item>> \in cx.diags
            <=> \E n \in both : ~SelfOf(of, n) /\ SelfOf(m.item, n)

\* An impl after its trait and not inside it, in a program whose names are
\* unique and taken by no import, is told of a self parameter too many or
\* missing exactly when the texts of the two disagree on one.
SelfReportedAfterTrait ==
  \A k \in DOMAIN cx.impls :
    LET m == cx.impls[k]
        of == cx.defs[m.trait].item
    IN  (/\ m.trait # NoDef /\ of < m.item /\ of \notin prog[m.item].around
         /\ ~cx.taken /\ "AlreadyDefined" \notin {r[1] : r \in cx.diags})
          => SelfReported(m)

\* Names that come from elsewhere: what imports bring is all there, is what
\* its namespace says, and is nobody's generic parameter.
ImportsRight == GlobsComplete /\ GenericsStayHome /\ EntriesOfTheirKind

\* Impls are found under their types and told what they lack.
ImplsRight == ImplsFiled /\ ImplsComplete /\ SelfReportedAfterTrait
=============================================================================
