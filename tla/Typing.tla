-------------------------------- MODULE Typing --------------------------------
(***************************************************************************)
(* Inference, generalisation and instantiation: what checking a program    *)
(* makes of the types of its functions.  A type is a head k, an id and     *)
(* arguments (the last one of a function is its result); a variable's id   *)
(* is its place in the table of bindings, a generic's its place in the     *)
(* list of generics.  InferenceTable has the table in detail and           *)
(* CheckOrder the order of checking; here one term stands for an           *)
(* equivalence class and one step checks one item with all it reaches.     *)
(*                                                                         *)
(* cx is the checker's context, threaded through the operators.  Programs  *)
(* have one struct, enum or trait at most, impls of the trait without      *)
(* items, and names that are unique but for locals.                        *)
(***************************************************************************)
EXTENDS Integers, Sequences, FiniteSets, SequencesExt, FiniteSetsExt, Functions, TLC

CONSTANTS Programs,   \* what is checked: [fns, order, adt, impls]
          None

Ty(k, id, args) == [k |-> k, id |-> id, args |-> args]
Err == Ty("Err", 0, <<>>)
Never == Ty("Never", 0, <<>>)
Unit == Ty("Tuple", 0, <<>>)
BoolTy == Ty("Bool", 0, <<>>)
FnTy(params, ret) == Ty("Fn", 0, Append(params, ret))
Generics(ids) == [n \in DOMAIN ids |-> Ty("Generic", ids[n], <<>>)]
-----------------------------------------------------------------------------
(* The table *)
Fresh(cx) == [cx |-> [cx EXCEPT !.bind = Append(@, None)], ty |-> Ty("Var", Len(cx.bind) + 1, <<>>)]
RECURSIVE Resolve(_, _)
Resolve(cx, t) == IF t.k = "Var" /\ cx.bind[t.id] # None THEN Resolve(cx, cx.bind[t.id]) ELSE t
RECURSIVE Whole(_, _)   \* with every bound variable replaced
Whole(cx, t) == LET r == Resolve(cx, t) IN [r EXCEPT !.args = [n \in DOMAIN @ |-> Whole(cx, @[n])]]
RECURSIVE Leaves(_, _)  \* the ids of the leaves with head k, in order
Leaves(t, k) == IF t.k = k THEN <<t.id>> ELSE FlattenSeq([n \in DOMAIN t.args |-> Leaves(t.args[n], k)])
Distinct(s) == FoldLeft(LAMBDA out, v : IF v \in ToSet(out) THEN out ELSE Append(out, v), <<>>, s)
free_vars(cx, t) == Distinct(Leaves(Whole(cx, t), "Var"))
GenericsIn(cx, t) == ToSet(Leaves(Whole(cx, t), "Generic"))

Bind(cx, v, t) == [cx EXCEPT !.bind[v] = t]
RECURSIVE Unify(_, _, _)
UnifyAll(cx, as, bs) ==   \* up to the first that fails
  FoldLeft(LAMBDA acc, n : IF acc.error = "none" THEN Unify(acc.cx, as[n], bs[n]) ELSE acc,
           [cx |-> cx, error |-> "none"], [n \in DOMAIN as |-> n])
Unify(cx, t1, t2) ==
  LET a == Resolve(cx, t1)
      b == Resolve(cx, t2)
      BindTo(v, t) == IF v.id \in ToSet(free_vars(cx, t)) THEN [cx |-> cx, error |-> "Cyclic"]
                      ELSE [cx |-> Bind(cx, v.id, t), error |-> "none"]
  IN  CASE a = b \/ (a.k # "Var" /\ b.k # "Var" /\ {a.k, b.k} \cap {"Err", "Never"} # {}) -> [cx |-> cx, error |-> "none"]
        [] a # b /\ a.k = "Var" -> BindTo(a, b)
        [] a # b /\ a.k # "Var" /\ b.k = "Var" -> BindTo(b, a)
        [] OTHER -> IF a.k # b.k \/ a.id # b.id \/ Len(a.args) # Len(b.args)
                      THEN [cx |-> cx, error |-> "Mismatch"] ELSE UnifyAll(cx, a.args, b.args)
Bound(cx, t1, t2) == Unify(cx, t1, t2).cx   \* where the code drops the result

Report(cx, error) == [cx EXCEPT !.errors = @ \cup {error}]
UnifySilently(cx, expected, found) == [cx |-> Bound(cx, expected, found), ok |-> TRUE]   \* mutant of UnifyReporting
Reported(r) == [cx |-> IF r.error = "none" THEN r.cx ELSE Report(r.cx, r.error), ok |-> r.error = "none"]
UnifyReporting(cx, expected, found) == Reported(Unify(cx, expected, found))
-----------------------------------------------------------------------------
(* Names of synthesised generics *)
Name(n) == <<"T", "U", "V", "W", "X", "Y", "Z">>[(n % 7) + 1] \o (IF n < 7 THEN "" ELSE ToString((n \div 7) + 1))
FirstFree(taken, counter) == CHOOSE n \in counter..(counter + Cardinality(taken)) :
                               Name(n) \notin taken /\ \A m \in counter..(n - 1) : Name(m) \in taken
NewGeneric(cx, name) == [cx |-> [cx EXCEPT !.generics = Append(@, name)], id |-> Len(cx.generics) + 1]
NamesOf(cx, ids) == {cx.generics[g] : g \in ToSet(ids)}

(* A new generic with the next name of this scope; names is [taken, counter].*)
Synthesize(cx, names) ==
  LET n == FirstFree(names.taken, names.counter)
      new == NewGeneric(cx, Name(n))
  IN  [cx |-> new.cx, id |-> new.id, names |-> [taken |-> names.taken \cup {Name(n)}, counter |-> n + 1]]

NoneEnclosing(cx) == {}   \* mutant of enclosing_free_vars
enclosing_free_vars(cx) == UNION {ToSet(free_vars(cx, cx.ty[f])) : f \in ToSet(cx.stack)}

generalize_group(cx, members) ==
  LET enclosing == enclosing_free_vars(cx)
      vars == [f \in ToSet(members) |-> SelectSeq(free_vars(cx, cx.ty[f]), LAMBDA v : v \notin enclosing)]
      all == Distinct(FlattenSeq([n \in DOMAIN members |-> vars[members[n]]]))
      reserved == UNION {NamesOf(cx, cx.own[f]) : f \in ToSet(members \o cx.stack)}
      assigned == FoldLeft(LAMBDA acc, v :
                             LET new == Synthesize(acc.cx, acc.names)
                             IN  [cx |-> Bind(new.cx, v, Ty("Generic", new.id, <<>>)), names |-> new.names,
                                  ids |-> acc.ids @@ (v :> new.id)],
                           [cx |-> cx, names |-> [taken |-> reserved, counter |-> 0], ids |-> <<>>], all)
  IN  [assigned.cx EXCEPT !.own = [f \in DOMAIN @ |->
         IF f \in ToSet(members) THEN @[f] \o [n \in DOMAIN vars[f] |-> assigned.ids[vars[f][n]]] ELSE @[f]]]
-----------------------------------------------------------------------------
(* Instantiation.  subst maps the generics met so far; map_children leaves   *)
(* the arguments of a trait object as they are.                              *)
RECURSIVE instantiate_ty(_, _, _)
ForgetSubst(cx, args, subst) ==   \* mutant of InstantiateAll: every argument starts with the same map
  FoldLeft(LAMBDA acc, arg : LET one == instantiate_ty(acc.cx, arg, subst) IN [one EXCEPT !.ty = Append(acc.ty, one.ty)],
           [cx |-> cx, ty |-> <<>>, subst |-> subst], args)
InstantiateAll(cx, args, subst) ==
  FoldLeft(LAMBDA acc, arg : LET one == instantiate_ty(acc.cx, arg, acc.subst) IN [one EXCEPT !.ty = Append(acc.ty, one.ty)],
           [cx |-> cx, ty |-> <<>>, subst |-> subst], args)
instantiate_ty(cx, t, subst) ==
  LET r == Resolve(cx, t)
      fresh == Fresh(cx)
      mapped == InstantiateAll(cx, r.args, subst)
  IN  CASE r.k = "Generic" /\ r.id \in DOMAIN subst -> [cx |-> cx, ty |-> subst[r.id], subst |-> subst]
        [] r.k = "Generic" /\ r.id \notin DOMAIN subst ->
             [cx |-> fresh.cx, ty |-> fresh.ty, subst |-> subst @@ (r.id :> fresh.ty)]
        [] r.k \in {"Var", "Dyn"} -> [cx |-> cx, ty |-> r, subst |-> subst]
        [] OTHER -> [mapped EXCEPT !.ty = Ty(r.k, r.id, mapped.ty)]

build_subst(cx, generics, explicit) ==
  FoldLeft(LAMBDA acc, n : LET fresh == Fresh(acc.cx)
                           IN  [cx |-> Bound(fresh.cx, fresh.ty, explicit[n]),
                                subst |-> acc.subst @@ (generics[n] :> fresh.ty)],
           [cx |-> cx, subst |-> <<>>], [n \in 1..Min({Len(generics), Len(explicit)}) |-> n])

instantiate_with(s, ty) == instantiate_ty(s.cx, ty, s.subst)
args_from_subst(s, generics) == instantiate_with(s, Ty("Tuple", 0, Generics(generics)))

(* Types as they are written: "Name" is a generic in scope, "Adt" and "Dyn"  *)
(* the program's struct or enum and its trait, with or without arguments.    *)
RECURSIVE Ancestors(_, _)
Ancestors(cx, f) == IF f = "root" THEN <<>> ELSE <<f>> \o Ancestors(cx, cx.fn[f].parent)
GenericNamed(cx, f, name) ==
  LET found == SelectSeq(FlattenSeq([n \in DOMAIN Ancestors(cx, f) |-> cx.own[Ancestors(cx, f)[n]]]) \o cx.adt.own,
                         LAMBDA g : cx.generics[g] = name)
  IN  Ty("Generic", found[1], <<>>)

RECURSIVE lower_ty(_, _, _), LowerAll(_, _, _)
Grown(acc, one) == [cx |-> one.cx, tys |-> Append(acc.tys, one.ty)]
LowerAll(cx, f, ts) ==
  FoldLeft(LAMBDA acc, t : Grown(acc, lower_ty(acc.cx, f, t)), [cx |-> cx, tys |-> <<>>], ts)
explicit_subst(explicit, generics, written) ==
  LET wrong == written # None /\ Len(explicit.tys) # Len(generics)
  IN  build_subst(IF wrong THEN Report(explicit.cx, "GenericArgumentCount") ELSE explicit.cx, generics, explicit.tys)
subst_for(cx, f, generics, written) ==
  explicit_subst(LowerAll(cx, f, IF written = None \/ generics = <<>> THEN <<>> ELSE written), generics, written)
Applied(k, id, r, args) == [cx |-> r.cx, ty |-> Ty(k, id, args)]
lower_ty(cx, f, t) ==
  LET OfAdt(r) == Applied(t.k, 1, r, r.ty.args)
      OfParts(r) == Applied(t.k, 0, r, r.tys)
  IN  CASE t.k = "Infer" -> Fresh(cx)
        [] t.k = "Name" -> [cx |-> cx, ty |-> GenericNamed(cx, f, t.id)]
        [] t.k \in {"Adt", "Dyn"} ->
             OfAdt(args_from_subst(subst_for(cx, f, cx.adt.own, IF t.args = <<>> THEN None ELSE t.args), cx.adt.own))
        [] OTHER -> OfParts(LowerAll(cx, f, t.args))
OrInfer(t) == IF t = None THEN Ty("Infer", 0, <<>>) ELSE t
-----------------------------------------------------------------------------
(* Values: what a name is in a function, in its scope or an enclosing one.   *)
RECURSIVE Lookup(_, _, _)
Lookup(cx, f, name) ==
  IF f # "root" /\ name \in DOMAIN cx.locals[f] THEN [k |-> "Local", ty |-> cx.locals[f][name]]
  ELSE IF name \in DOMAIN cx.fn /\ cx.fn[name].parent = f THEN [k |-> "Fn", ty |-> cx.ty[name]]
  ELSE IF f = "root" THEN [k |-> "None", ty |-> Err] ELSE Lookup(cx, cx.fn[f].parent, name)
Current(cx) == Last(cx.stack)

instantiate_path(cx, ty, generics, written) ==
  IF generics = <<>> THEN [cx |-> cx, ty |-> ty]
  ELSE instantiate_with(subst_for(cx, Current(cx), generics, written), ty)
Noted(r, sig, own) == [r EXCEPT !.cx.uses = @ \cup {[sig |-> sig, own |-> ToSet(own), ty |-> r.ty]}]
Use(cx, sig, own, written) == Noted(instantiate_path(cx, sig, own, written), sig, own)

(* Tarjan's algorithm, as CheckOrder has it step by step.                    *)
Visited(cx, f) == cx.index[f] # 0
Enter(cx, f) ==
  LET n == Max({cx.index[g] : g \in DOMAIN cx.index}) + 1
  IN  [cx EXCEPT !.index[f] = n, !.low[f] = n, !.pending = Append(@, f), !.stack = Append(@, f)]
Exit(cx, f) ==
  LET from == CHOOSE n \in DOMAIN cx.pending : cx.pending[n] = f
      left == [cx EXCEPT !.stack = Front(@)]
  IN  IF cx.low[f] # cx.index[f] THEN [cx |-> left, scc |-> <<>>]
      ELSE [cx |-> [left EXCEPT !.pending = SubSeq(@, 1, from - 1)],
            scc |-> Reverse(SubSeq(cx.pending, from, Len(cx.pending)))]
finish_scc(r) == IF r.scc = <<>> THEN r.cx ELSE generalize_group(r.cx, r.scc)
-----------------------------------------------------------------------------
(* Coercion to a trait object: the first impl that matches, those of the     *)
(* head of the type before those of no particular one; what matching it has  *)
(* bound stays bound, a failed match leaves no trace.                        *)
impl_target_of(t) ==
  CASE t.k \in {"Adt", "Int", "Bool", "Array"} -> <<t.k>> [] t.k = "Tuple" -> <<t.k, Len(t.args)>> [] OTHER -> None
SelfOnly(cx, imp, t, args) ==   \* mutant of impl_matches: the arguments of the trait are not compared
  LET self == instantiate_ty(cx, imp.self, <<>>)
      met == Unify(self.cx, self.ty, t)
  IN  [cx |-> IF met.error = "none" THEN met.cx ELSE cx, ok |-> met.error = "none"]
impl_matches(cx, imp, t, args) ==
  LET Tried(met) == IF met.error = "none" THEN [cx |-> met.cx, ok |-> TRUE] ELSE [cx |-> cx, ok |-> FALSE]
      Met(inst) == Tried(UnifyAll(inst.cx, inst.ty, <<t>> \o args))
  IN  IF Len(imp.args) # Len(args) THEN [cx |-> cx, ok |-> FALSE]
      ELSE Met(InstantiateAll(cx, <<imp.self>> \o imp.args, <<>>))
target_implements(cx, t, args) ==
  LET target == impl_target_of(Resolve(cx, t))
      bucketed == SelectSeq(cx.impls, LAMBDA imp : imp.target # None /\ imp.target = target)
      blanket == SelectSeq(cx.impls, LAMBDA imp : imp.target = None)
  IN  FoldLeft(LAMBDA acc, imp : IF acc.ok THEN acc ELSE impl_matches(cx, imp, t, args),
               [cx |-> cx, ok |-> FALSE], bucketed \o blanket)
coerce(cx, actual, expected) ==
  LET dyn == Resolve(cx, expected)
      Noting(found) == [found EXCEPT !.cx.coerced = IF found.ok THEN @ \cup {<<actual, dyn>>} ELSE @]
  IN  IF dyn.k # "Dyn" THEN [cx |-> cx, ok |-> FALSE] ELSE Noting(target_implements(cx, actual, dyn.args))
-----------------------------------------------------------------------------
RECURSIVE check_expr(_, _, _), check_expr_kind(_, _, _), CheckAll(_, _, _), check_block(_, _, _),
          check_fn_body(_, _), check_pat(_, _, _)

UseUnchecked(cx, from, to) ==   \* mutant of record_edge: what is used is not checked first
  IF to \in ToSet(cx.pending) THEN [cx EXCEPT !.low[from] = Min({@, cx.index[to]})] ELSE cx
pull_lowlink(r, from, to) == [r EXCEPT !.cx.low[from] = Min({@, r.cx.low[to]})]
record_edge(cx, from, to) ==
  IF ~Visited(cx, to) THEN finish_scc(pull_lowlink(check_fn_body(cx, to), from, to))
  ELSE IF to \in ToSet(cx.pending) THEN [cx EXCEPT !.low[from] = Min({@, cx.index[to]})]
  ELSE cx

(* What an expression turns out to be against what is expected of it.        *)
Expected(r, expected) ==
  LET Met(met) == [cx |-> met.cx, ty |-> IF met.ok THEN r.ty ELSE Err]
      Coerced(c) == IF c.ok THEN [cx |-> c.cx, ty |-> expected] ELSE Met(UnifyReporting(r.cx, expected, r.ty))
  IN  IF expected = None THEN r ELSE Coerced(coerce(r.cx, r.ty, expected))
check_expr(cx, e, expected) == Expected(check_expr_kind(cx, e, expected), expected)

(* Expressions one after the other, each with its own expectation or None.   *)
CheckAll(cx, es, expected) ==
  FoldLeft(LAMBDA acc, n : Grown(acc, check_expr(acc.cx, es[n], IF n \in DOMAIN expected THEN expected[n] ELSE None)),
           [cx |-> cx, tys |-> <<>>], [n \in DOMAIN es |-> n])

PartsOf(cx, t, k) ==   \* the parts of an expected tuple or array, if it is one
  IF t = None THEN <<>> ELSE LET r == Resolve(cx, t) IN IF r.k = k THEN r.args ELSE <<>>

check_path_expr(cx, e) ==
  LET found == Lookup(cx, Current(cx), e.name)
      Instance(known) == Use(known, found.ty, known.own[e.name], e.args)
  IN  CASE found.k = "None"  -> [cx |-> Report(cx, "Unresolved"), ty |-> Err]
        [] found.k = "Local" -> [cx |-> cx, ty |-> found.ty]
        [] found.k = "Fn"    -> Instance(record_edge(cx, Current(cx), e.name))

(* The callee is what it was before its arguments were checked.              *)
HeadOf(r) == Resolve(r.cx, r.ty)
Called(callee, args) ==
  LET head == HeadOf(callee)
      ret == Fresh(args.cx)
      meanwhile == head.k = "Var" /\ Resolve(args.cx, head).k # "Var"   \* its arguments bound it
      Known(c) == [c EXCEPT !.calls = @ \cup {[callee |-> callee.ty, args |-> args.tys, meanwhile |-> meanwhile]}]
      Unified(met) == Known(IF met.error = "Cyclic" THEN Report(met.cx, "Cyclic") ELSE met.cx)
  IN  CASE head.k = "Fn" -> [cx |-> Known(args.cx), ty |-> Last(head.args)]
        [] head.k = "Var" -> [cx |-> Unified(Unify(ret.cx, FnTy(args.tys, ret.ty), callee.ty)), ty |-> ret.ty]
        [] OTHER -> [cx |-> Report(args.cx, "NotCallable"), ty |-> Err]
Arguments(callee, es) ==
  LET head == HeadOf(callee)
      wrong == head.k = "Fn" /\ Len(head.args) - 1 # Len(es)
  IN  Called(callee, CheckAll(IF wrong THEN Report(callee.cx, "ArgumentCount") ELSE callee.cx, es,
                              IF head.k = "Fn" THEN Front(head.args) ELSE <<>>))
check_call_expr(cx, e) == Arguments(check_expr(cx, e.callee, None), e.es)

check_array_expr(cx, es, expected) ==
  LET elem == PartsOf(cx, expected, "Array")
      Rest(first) == [cx |-> CheckAll(first.cx, Tail(es), [n \in 1..Len(es) |-> first.tys[1]]).cx,
                      ty |-> Ty("Array", 0, first.tys)]
  IN  IF es # <<>> THEN Rest(CheckAll(cx, SubSeq(es, 1, 1), elem))
      ELSE IF elem # <<>> THEN [cx |-> cx, ty |-> Ty("Array", 0, elem)]
      ELSE [Fresh(cx) EXCEPT !.ty = Ty("Array", 0, <<@>>)]

Agreed(cx, body, els) == [cx |-> cx, ty |-> IF Resolve(cx, body).k = "Never" THEN els ELSE body]
check_if_expr(cx, e, expected) ==
  LET Joined(body, els) == Agreed(UnifyReporting(els.cx, body.ty, els.ty).cx, body.ty, els.ty)
      Else(body) == Joined(body, IF e.els = None THEN [cx |-> body.cx, ty |-> Unit] ELSE check_expr(body.cx, e.els, expected))
  IN  Else(check_block(check_expr(cx, e.cond, BoolTy).cx, e.body, expected))

(* Fields of a struct have the struct's arguments for its generics; those of *)
(* a tuple are its parts.                                                    *)
FieldOf(whole, index) ==
  LET head == HeadOf(whole)
      adt == whole.cx.adt
      fields == adt.variants[1]
      subst == [g \in ToSet(adt.own) |-> head.args[CHOOSE n \in DOMAIN adt.own : adt.own[n] = g]]
      Wrong(error) == [cx |-> Report(whole.cx, error), ty |-> Err]
  IN  CASE head.k = "Adt" /\ adt.k = "Struct" ->
             IF index \in DOMAIN fields THEN instantiate_ty(whole.cx, fields[index], subst) ELSE Wrong("UnknownField")
        [] head.k = "Tuple" ->
             IF index \in DOMAIN head.args THEN [cx |-> whole.cx, ty |-> head.args[index]] ELSE Wrong("OutOfBounds")
        [] OTHER -> Wrong("InvalidFieldAccess")
check_field_expr(cx, e) == FieldOf(check_expr(cx, e.of, None), e.index)

check_struct_expr(cx, e) ==
  LET fields == cx.adt.variants[e.variant]
      names == {e.fields[n].index : n \in DOMAIN e.fields}
      wrong == (IF names \subseteq DOMAIN fields THEN {} ELSE {"UnknownField"})
               \cup (IF DOMAIN fields \subseteq names THEN {} ELSE {"MissingField"})
      Given(inst, args) ==
        [cx |-> [CheckAll(args.cx, [n \in DOMAIN e.fields |-> e.fields[n].e],
                          [n \in DOMAIN e.fields |->
                             IF e.fields[n].index \in DOMAIN fields THEN inst.ty.args[e.fields[n].index] ELSE None]).cx
                   EXCEPT !.errors = @ \cup wrong],
         ty |-> Ty("Adt", 1, args.ty.args)]
      Made(inst) == Given(inst, args_from_subst(inst, cx.adt.own))
  IN  Made(instantiate_with(subst_for(cx, Current(cx), cx.adt.own, e.args), Ty("Tuple", 0, fields)))

check_expr_kind(cx, e, expected) ==
  CASE e.k = "Lit" -> [cx |-> cx, ty |-> e.ty]
    [] e.k = "Path" -> check_path_expr(cx, e)
    [] e.k = "Ctor" -> Use(cx, cx.adt.ctors[e.variant], cx.adt.own, e.args)
    [] e.k = "Call" -> check_call_expr(cx, e)
    [] e.k = "Tup" ->
         LET parts == PartsOf(cx, expected, "Tuple")
             Tuple(r) == Applied("Tuple", 0, r, r.tys)
         IN  Tuple(CheckAll(cx, e.es, IF Len(parts) = Len(e.es) THEN parts ELSE <<>>))
    [] e.k = "Array" -> check_array_expr(cx, e.es, expected)
    [] e.k = "If" -> check_if_expr(cx, e, expected)
    [] e.k = "Block" -> check_block(cx, e.stmts, expected)
    [] e.k = "Ret" -> [cx |-> CheckAll(cx, e.es, <<Last(cx.ty[Current(cx)].args)>>).cx, ty |-> Never]
    [] e.k = "Assign" -> LET Right(lhs) == [cx |-> check_expr(lhs.cx, e.rhs, lhs.ty).cx, ty |-> Unit]
                         IN  Right(check_expr(cx, e.lhs, None))
    [] e.k = "Field" -> check_field_expr(cx, e)
    [] e.k = "Struct" -> check_struct_expr(cx, e)
-----------------------------------------------------------------------------
(* Patterns, locals, blocks and bodies *)
check_pat(cx, pat, expected) ==
  LET fresh == Fresh(cx)
      declared == [fresh.cx EXCEPT !.locals[Current(cx)] = (pat.name :> fresh.ty) @@ @]
      known == PartsOf(cx, expected, "Tuple")
      parts == FoldLeft(LAMBDA acc, n :
                          LET part == IF Len(known) = Len(pat.parts) THEN [cx |-> acc.cx, ty |-> known[n]] ELSE Fresh(acc.cx)
                          IN  [cx |-> check_pat(part.cx, pat.parts[n], part.ty), tys |-> Append(acc.tys, part.ty)],
                        [cx |-> cx, tys |-> <<>>], [n \in DOMAIN pat.parts |-> n])
  IN  CASE pat.k = "Wild" -> cx
        [] pat.k = "Ident" -> Bound(declared, fresh.ty, expected)
        [] pat.k = "TuplePat" -> Bound(parts.cx, Ty("Tuple", 0, parts.tys), expected)

Initialised(ty, init, els) ==
  [cx |-> IF els = None THEN init.cx ELSE check_block(init.cx, els, None).cx,
   ty |-> IF ty = None THEN init.ty ELSE ty]
Ascribed(r, s) ==
  IF s.init # None THEN Initialised(r.ty, check_expr(r.cx, s.init, r.ty), s.els)
  ELSE IF r.ty = None THEN Fresh(r.cx) ELSE r
Declared(r, pat) == check_pat(r.cx, pat, r.ty)
check_local(cx, s) ==
  Declared(Ascribed(IF s.ty = None THEN [cx |-> cx, ty |-> None] ELSE lower_ty(cx, Current(cx), s.ty), s), s.pat)

Valued(acc, r) == [acc EXCEPT !.cx = r.cx, !.ty = r.ty]
Thrown(acc, r) == [acc EXCEPT !.cx = r.cx, !.diverges = @ \/ HeadOf(r).k = "Never"]
check_stmt(acc, s, last, expected) ==
  LET value == s.k = "Expr" /\ last
      Done(r) == IF value THEN Valued(acc, r) ELSE Thrown(acc, r)
  IN  IF s.k = "Let" THEN [acc EXCEPT !.cx = check_local(@, s)]
      ELSE Done(check_expr(acc.cx, s.e, IF value THEN expected ELSE None))
BlockOf(acc) == [cx |-> acc.cx, ty |-> IF acc.diverges THEN Never ELSE acc.ty]
check_block(cx, stmts, expected) ==
  BlockOf(FoldLeft(LAMBDA acc, n : check_stmt(acc, stmts[n], n = Len(stmts), expected),
                   [cx |-> cx, ty |-> Unit, diverges |-> FALSE], [n \in DOMAIN stmts |-> n]))

check_fn_body(cx, f) ==
  LET fn == cx.fn[f]
      sig == cx.ty[f].args
      Params == FoldLeft(LAMBDA acc, n : check_pat(acc, fn.params[n].pat, sig[n]), Enter(cx, f), [n \in DOMAIN fn.params |-> n])
      Nested(body) == FoldLeft(LAMBDA acc, g : record_edge(acc, f, g), body, fn.nested)
  IN  IF Visited(cx, f) THEN [cx |-> cx, scc |-> <<>>]
      ELSE Exit(Nested(check_block(Params, fn.body, Last(sig)).cx), f)
check_function(cx, f) == finish_scc(check_fn_body(cx, f))
-----------------------------------------------------------------------------
(* Signatures: the struct or enum first, then each function in order, its    *)
(* generics declared before its types are lowered.                           *)
DeclareGenerics(cx, names) ==
  FoldLeft(LAMBDA acc, name : LET new == NewGeneric(acc.cx, name) IN [cx |-> new.cx, ids |-> Append(acc.ids, new.id)],
           [cx |-> cx, ids |-> <<>>], names)

(* One source of names for all variants; a field without a type gets a new   *)
(* generic.                                                                  *)
lower_variant_data_field_tys(acc, fields) ==
  LET Untyped(a, new) == [a EXCEPT !.cx = new.cx, !.names = new.names, !.own = Append(@, new.id),
                                   !.tys = Append(@, Ty("Generic", new.id, <<>>))]
      Typed(a, low) == [a EXCEPT !.cx = low.cx, !.tys = Append(@, low.ty)]
  IN  FoldLeft(LAMBDA a, t : IF t = None THEN Untyped(a, Synthesize(a.cx, a.names)) ELSE Typed(a, lower_ty(a.cx, "root", t)),
               [acc EXCEPT !.tys = <<>>], fields)
lower_adt(cx, adt) ==
  LET Variant(acc) == [acc EXCEPT !.variants = Append(@, acc.tys)]
      Ctors(variants, self) == [v \in DOMAIN variants |-> IF variants[v] = <<>> THEN self ELSE FnTy(variants[v], self)]
      Filled(r) == [r.cx EXCEPT !.adt = [k |-> adt.k, own |-> r.own, variants |-> r.variants,
                                       ctors |-> Ctors(r.variants, Ty("Adt", 1, Generics(r.own)))]]
      Started(r) == [cx |-> [r.cx EXCEPT !.adt = [k |-> adt.k, own |-> r.ids, variants |-> <<>>, ctors |-> <<>>]],
                     names |-> [taken |-> ToSet(adt.generics), counter |-> 0],
                     own |-> r.ids, tys |-> <<>>, variants |-> <<>>]
  IN  Filled(FoldLeft(LAMBDA acc, fields : Variant(lower_variant_data_field_tys(acc, fields)),
                    Started(DeclareGenerics(cx, adt.generics)), adt.variants))
lower_impl_item(cx, imp) ==
  LET declared == DeclareGenerics(cx, imp.generics)
      Filed(self, args) ==
        [args.cx EXCEPT !.impls = Append(@, [target |-> impl_target_of(Resolve(args.cx, self)), self |-> self,
                                             generics |-> ToSet(declared.ids), args |-> args.ty.args])]
      For(self) == Filed(self.ty, args_from_subst(subst_for(self.cx, "impl", cx.adt.own, imp.args), cx.adt.own))
  IN  For(lower_ty([declared.cx EXCEPT !.own["impl"] = declared.ids], "impl", imp.self))
lower_fn_item(cx, f) ==
  LET declared == DeclareGenerics(cx, cx.fn[f].generics)
      named == [declared.cx EXCEPT !.own[f] = declared.ids]
      sig == LowerAll(named, f, [n \in DOMAIN cx.fn[f].params |-> OrInfer(cx.fn[f].params[n].ty)] \o <<OrInfer(cx.fn[f].ret)>>)
  IN  [sig.cx EXCEPT !.ty[f] = Ty("Fn", 0, sig.tys)]

Lowered(p) ==
  LET zero == [f \in DOMAIN p.fns |-> 0]
      empty == [f \in DOMAIN p.fns \cup {"impl"} |-> <<>>]
      start == [bind |-> <<>>, generics |-> <<>>, errors |-> {}, uses |-> {}, calls |-> {}, impls |-> <<>>, coerced |-> {},
                fn |-> p.fns @@ ("impl" :> [parent |-> "root"]),
                ty |-> [f \in DOMAIN p.fns |-> Unit], own |-> empty, locals |-> empty,
                adt |-> [k |-> "Struct", own |-> <<>>, variants |-> <<>>, ctors |-> <<>>],
                index |-> zero, low |-> zero, pending |-> <<>>, stack |-> <<>>]
  IN  FoldLeft(lower_fn_item, FoldLeft(lower_impl_item, lower_adt(start, p.adt), p.impls), p.order)
TopLevel(p) == SelectSeq(p.order, LAMBDA f : p.fns[f].parent = "root")
-----------------------------------------------------------------------------
VARIABLES program,   \* the program
          checked,   \* how many of its top-level functions are checked
          cx         \* the context of the checker

vars == <<program, checked, cx>>

Init == program \in Programs /\ checked = 0 /\ cx = Lowered(program)

CheckNext ==
  /\ checked < Len(TopLevel(program))
  /\ checked' = checked + 1
  /\ cx' = check_function(cx, TopLevel(program)[checked'])
  /\ UNCHANGED program

Next == CheckNext
Spec == Init /\ [][Next]_vars
-----------------------------------------------------------------------------
(* Properties *)
Finished == checked = Len(TopLevel(program))
Accepted == Finished /\ cx.errors = {}
Functions == DOMAIN program.fns
Signature(c, f) == Whole(c, c.ty[f])

RECURSIVE Subterms(_), Pairs(_, _)
Subterms(t) == {t} \cup UNION {Subterms(t.args[n]) : n \in DOMAIN t.args}
(* What stands in t where s has a leaf, or where the two differ.             *)
Pairs(s, t) ==
  IF s.args = <<>> \/ s.k # t.k \/ s.id # t.id \/ Len(s.args) # Len(t.args) THEN {<<s, t>>}
  ELSE UNION {Pairs(s.args[n], t.args[n]) : n \in DOMAIN s.args}

(* When checking ends, no signature has a variable left that a later use      *)
(* could bind: everything not known was generalised (generalize_group).       *)
NoVariableLeft == Finished => \A f \in Functions : free_vars(cx, cx.ty[f]) = <<>>

(* A call of a function of as many parameters as there are arguments, each of *)
(* the argument's type.                                                       *)
Meets(c, call) ==
  \E callee \in {Whole(c, call.callee)} :
    /\ callee.k = "Fn" /\ Len(callee.args) = Len(call.args) + 1
    /\ \A n \in DOMAIN call.args :
         \/ callee.args[n] = Whole(c, call.args[n])
         \/ {callee.args[n].k, Whole(c, call.args[n]).k} \cap {"Err", "Never"} # {}

(* check.rs:821 drops a mismatch when the arguments have bound the callee.    *)
Slips(c) == \E call \in c.calls : call.meanwhile /\ ~Meets(c, call)

(* What the signatures are, and whether the program is accepted, does not     *)
(* depend on the order of the functions in the file: a function is checked    *)
(* before it is used, and with those it calls each other with, unless a call  *)
(* slips in one of the two orders.  Generics are compared by where they stand,*)
(* their names depend on the order.                                           *)
Numbered(c, f) ==
  LET sig == Signature(c, f)
      order == Distinct(Leaves(sig, "Generic"))
      Renumber[t \in {sig} \cup Subterms(sig)] ==
        IF t.k = "Generic" THEN [t EXCEPT !.id = CHOOSE n \in DOMAIN order : order[n] = t.id]
        ELSE [t EXCEPT !.args = [n \in DOMAIN @ |-> Renumber[@[n]]]]
  IN  Renumber[sig]
OrderDoesNotMatter ==
  Finished =>
    \E other \in {FoldLeft(check_function, Lowered(program), Reverse(TopLevel(program)))} :
      \/ Slips(cx) \/ Slips(other)
      \/ /\ (cx.errors = {}) <=> (other.errors = {})
         /\ cx.errors = {} => \A f \in Functions : Numbered(cx, f) = Numbered(other, f)

(* In a program without errors, what is called is a function of as many       *)
(* parameters as there are arguments, each of the argument's type, whatever   *)
(* was inferred of either after the call; but for slips.                      *)
CallsMeetTheirFunctions == Accepted => \A call \in cx.calls : call.meanwhile \/ Meets(cx, call)

(* In a program without errors, what each use of a function or a constructor  *)
(* was given is the signature with one type in place of each generic          *)
(* (instantiate_ty, build_subst).                                             *)
UsesAreInstances ==
  Accepted => \A u \in cx.uses :
    \E pairs \in {Pairs(Whole(cx, u.sig), Whole(cx, u.ty))} :
      \A p \in pairs : /\ p[1].k # "Generic" => p[1] = p[2]
                       /\ \A q \in pairs : p[1] = q[1] => p[2] = q[2]

(* In a program without errors, every value that was taken for a trait object *)
(* is of a type with an impl of the trait with the same arguments, whatever   *)
(* was inferred of either after the impl was chosen (target_implements).      *)
CoercionsHold ==
  Accepted => \A c \in cx.coerced : \E n \in DOMAIN cx.impls :
    LET imp == cx.impls[n]
        pairs == Pairs(Whole(cx, Ty("Tuple", 0, <<imp.self>> \o imp.args)), Whole(cx, Ty("Tuple", 0, <<c[1]>> \o c[2].args)))
    IN  \A p \in pairs : /\ (p[1].k # "Generic" \/ p[1].id \notin imp.generics) => p[1] = p[2]
                          /\ \A q \in pairs : p[1] = q[1] => p[2] = q[2]

(* The generics of a signature are those of the function and of the functions *)
(* it is nested in: none is a generic of a function it calls or contains.     *)
(* (Uses share the generics among the arguments of a trait object with the    *)
(* function they name, because map_children does not enter them.)             *)
SignatureGenericsInScope ==
  Finished /\ program.adt.k # "Trait" => \A f \in Functions :
    GenericsIn(cx, cx.ty[f]) \subseteq UNION {ToSet(cx.own[g]) : g \in ToSet(Ancestors(cx, f))}

(* A signature stands alone: what a caller makes of it no longer depends on    *)
(* variables, and its generics are at hand where it is.                       *)
SignaturesStandAlone == NoVariableLeft /\ SignatureGenericsInScope
=============================================================================
