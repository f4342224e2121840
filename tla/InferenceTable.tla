---------------------------- MODULE InferenceTable ----------------------------
(***************************************************************************)
(* Type inference variables, their bindings, and unification               *)
(* (inference.rs).                                                         *)
(*                                                                         *)
(* Types live in an arena and never change; what changes is what variables *)
(* stand for.  One action is one call of unify_impl: `work' holds the      *)
(* pairs its recursion has still to visit, in order.  Unification binds    *)
(* variables as it goes and leaves them bound when it fails; an impl is    *)
(* tried between a snapshot and, if it does not match, a rollback          *)
(* (lib.rs, speculatively).                                                *)
(***************************************************************************)
EXTENDS Integers, Sequences, FiniteSets

CONSTANTS
  Kind,       \* the arena: what each type is made of
  NoTy,       \* None, where the code holds an Option<TyId>
  NoSnapshot, \* no impl is being tried
  Vars,       \* how many variables may be created, a bound
  Generics,   \* types that are declared generic parameters
  Equations,  \* what the checker may ask to unify: two types, and whether
              \* it gives a reason
  Impls,      \* pairs of types it may ask to unify to see if an impl matches
  Ground      \* closed types to try as solutions, as the terms Val builds

Ty == DOMAIN Kind
Var == 1..Vars
SetOf(s) == {s[i] : i \in DOMAIN s}

(* A type is a variable or a constructor applied to older types.              *)
IsVar(t) == Kind[t].con = "Var"
Wildcards == {"Err", "Never"}
FixedArity == {"Tuple", "Fn"}

ASSUME VarsAssumption == Vars \in Nat
ASSUME ArenaAssumption ==
  /\ IsFiniteSet(Ty) /\ NoTy \notin Ty
  /\ \A t \in Ty : /\ Kind[t].con \in STRING
                   /\ Kind[t].args \in Seq(Ty)
                   /\ IsVar(t) => Kind[t].var \in Var /\ Kind[t].args = << >>
  /\ \A S \in SUBSET Ty : S # {} => \E t \in S : SetOf(Kind[t].args) \cap S = {}
ASSUME CallsAssumption ==
  /\ Generics \subseteq {t \in Ty : ~IsVar(t) /\ Kind[t].args = << >>}
  /\ Equations \subseteq Ty \X Ty \X BOOLEAN
  /\ Impls \subseteq Ty \X Ty

(* A closed type is a constructor and closed types, finitely many deep.       *)
ASSUME GroundAssumption ==
  /\ \A g \in Ground : SetOf(g[2]) \subseteq Ground
  /\ \A S \in SUBSET Ground : S # {} => \E g \in S : SetOf(g[2]) \cap S = {}

VARIABLES
  slots,       \* InferenceTable.var_slots: the key of each VarId ever issued
  varOf,       \* uf_key_to_var
  rep,         \* bindings: the representative of each key
  bound,       \* bindings: the Binding of each representative
  provenance,  \* InferenceTable.provenance: the variable of each entry
  work,        \* calls of unify_impl still to be made, the next one first
  equation,    \* arguments of the unify in progress
  because,     \* whether it was given a reason (unify_because)
  outcome,     \* result of the last unify: "none", "ok", "err"
  saved,       \* the Snapshot to go back to if the impl tried does not match
  silent,      \* history: variables bound or united without a reason
  agreed       \* history: the pairs of types unify has returned Ok for

vars == <<slots, varOf, rep, bound, provenance, work, equation, because, outcome,
          saved, silent, agreed>>
table == <<slots, varOf, rep, bound>>

Trying == saved # NoSnapshot
Idle == work = << >>
Live == SetOf(varOf)

(* The variables a type mentions: they are in every set of types that holds   *)
(* it and is closed under arguments.                                          *)
ArgsClosed(S) == \A t \in S : SetOf(Kind[t].args) \subseteq S
VarsOf == [t \in Ty |-> {v \in Var : \A S \in SUBSET Ty : t \in S /\ ArgsClosed(S) =>
                                       \E u \in S : IsVar(u) /\ Kind[u].var = v}]

(* A type is at hand once its variables are, and no longer than they are.     *)
Known == {t \in Ty : VarsOf[t] \subseteq Live}

(* find and binding: what a variable's class is, and is bound to.             *)
Key(v) == rep[slots[v]]
Binding(t) == bound[Key(Kind[t].var)]

(* A binding is never itself a variable (BoundToHeads): resolve recurs once.  *)
ResolveDropped(t) == t
Resolve(t) == IF IsVar(t) /\ Binding(t) # NoTy THEN Binding(t) ELSE t

(* What a type is made of, looking through bindings.                          *)
Parts(t) ==
  IF ~IsVar(t) THEN SetOf(Kind[t].args)
  ELSE IF Kind[t].var \in Live /\ Binding(t) # NoTy THEN {Binding(t)} ELSE {}
Closed(S) == \A t \in S : Parts(t) \subseteq S

(* The occurs check: v's class is met on the way down from t.                 *)
OccursNever(v, t) == FALSE
Occurs(v, t) ==
  \A S \in SUBSET Ty : t \in S /\ Closed(S) =>
    \E u \in S : IsVar(u) /\ Kind[u].var \in Live /\ Key(Kind[u].var) = Key(v)
-----------------------------------------------------------------------------
NoEquation == <<NoTy, NoTy>>
Init ==
  /\ slots = << >> /\ varOf = << >> /\ rep = << >> /\ bound = << >>
  /\ provenance = << >>
  /\ work = << >>
  /\ equation = NoEquation
  /\ because = FALSE
  /\ outcome = "none"
  /\ saved = NoSnapshot
  /\ silent = {}
  /\ agreed = {}

(* impl_matches returns as soon as one unify fails.                           *)
Proceeding == Idle /\ (Trying => outcome # "err")

FreshVar ==
  /\ Proceeding
  /\ Len(slots) < Vars
  /\ slots' = Append(slots, Len(rep) + 1)
  /\ varOf' = Append(varOf, Len(slots) + 1)
  /\ rep' = Append(rep, Len(rep) + 1)
  /\ bound' = Append(bound, NoTy)
  /\ UNCHANGED <<provenance, work, equation, because, outcome, saved, silent, agreed>>

(* unify and, with a reason, unify_because; impls are tried without one.      *)
Unify(t1, t2, reason) ==
  /\ Proceeding
  /\ IF Trying THEN <<t1, t2>> \in Impls /\ ~reason
                      ELSE <<t1, t2, reason>> \in Equations
  /\ {t1, t2} \subseteq Known
  /\ work' = << <<t1, t2>> >>
  /\ equation' = <<t1, t2>>
  /\ because' = reason
  /\ outcome' = "none"
  /\ UNCHANGED <<table, provenance, saved, silent, agreed>>

First == Resolve(Head(work)[1])
Second == Resolve(Head(work)[2])

Return(result) ==
  /\ work' = << >>
  /\ equation' = NoEquation /\ because' = FALSE
  /\ outcome' = result
Continue(pairs) ==
  IF pairs = << >> THEN Return("ok") /\ agreed' = agreed \cup {equation}
  ELSE work' = pairs /\ UNCHANGED <<equation, because, outcome, agreed>>

(* An error unwinds every call on the way (the ? operators).                  *)
Fail == Return("err") /\ UNCHANGED agreed

RecordDropped(v) ==
  /\ UNCHANGED provenance
  /\ silent' = IF because THEN silent ELSE silent \cup {v}
Record(v) ==
  /\ provenance' = IF because THEN Append(provenance, v) ELSE provenance
  /\ silent' = IF because THEN silent ELSE silent \cup {v}

(* union_vars, with Binding's Union: the side that is bound stays the root.   *)
UnionRoot(k1, k2) == IF bound[k1] # NoTy THEN k1 ELSE k2
United(k1, k2) ==
  [k \in DOMAIN rep |-> IF rep[k] \in {k1, k2} THEN UnionRoot(k1, k2) ELSE rep[k]]

UnifyVars ==
  /\ ~Idle
  /\ IsVar(First) /\ IsVar(Second)
  /\ LET v1 == Kind[First].var
         v2 == Kind[Second].var
     IN  IF Key(v1) # Key(v2)
         THEN rep' = United(Key(v1), Key(v2)) /\ Record(v1)
         ELSE UNCHANGED <<rep, provenance, silent>>
  /\ Continue(Tail(work))
  /\ UNCHANGED <<slots, varOf, bound, saved>>

(* The variable t meets the constructor u. *)
BindOrFail(t, u) ==
  /\ IsVar(t) /\ ~IsVar(u)
  /\ LET v == Kind[t].var
     IN  IF Occurs(v, u)
         THEN Fail /\ UNCHANGED <<bound, provenance, silent>>
         ELSE /\ bound' = [bound EXCEPT ![Key(v)] = u]
              /\ Record(v)
              /\ Continue(Tail(work))
  /\ UNCHANGED <<slots, varOf, rep, saved>>

BindVar ==
  /\ ~Idle
  /\ BindOrFail(First, Second) \/ BindOrFail(Second, First)

(* Which constructors match, and the pairs of arguments they leave to unify.  *)
Matches(k1, k2) ==
  k1.con = k2.con /\ (k1.con \in FixedArity => Len(k1.args) = Len(k2.args))
ZipShort(s1, s2) == [i \in 1..(Len(s1) - 1) |-> <<s1[i], s2[i]>>]
Zip(s1, s2) ==
  [i \in 1..(IF Len(s1) < Len(s2) THEN Len(s1) ELSE Len(s2)) |-> <<s1[i], s2[i]>>]

UnifyHeads ==
  /\ ~Idle
  /\ ~IsVar(First) /\ ~IsVar(Second)
  /\ LET k1 == Kind[First]
         k2 == Kind[Second]
     IN  IF {k1.con, k2.con} \cap Wildcards # {} THEN Continue(Tail(work))
         ELSE IF Matches(k1, k2) THEN Continue(Zip(k1.args, k2.args) \o Tail(work))
         ELSE Fail
  /\ UNCHANGED <<table, provenance, saved, silent>>

(* generalize_group binds a variable that is still free to a new generic.     *)
BindGenericAnew(v, g) ==
  /\ Idle /\ ~Trying
  /\ v \in Live
  /\ bound' = [bound EXCEPT ![Key(v)] = g]
  /\ silent' = silent \cup {v}
  /\ UNCHANGED <<slots, varOf, rep, provenance, work, equation, because, outcome, saved, agreed>>
BindGeneric(v, g) ==
  /\ Idle /\ ~Trying
  /\ v \in Live
  /\ bound[Key(v)] = NoTy
  /\ bound' = [bound EXCEPT ![Key(v)] = g]
  /\ silent' = silent \cup {v}
  /\ UNCHANGED <<slots, varOf, rep, provenance, work, equation, because, outcome, saved, agreed>>

(* speculatively: try an impl, and undo the attempt if it does not match.     *)
Snapshot ==
  /\ Idle /\ ~Trying
  /\ Impls # {}
  /\ saved' = [rep |-> rep, bound |-> bound,
               provenance |-> Len(provenance), keys |-> Len(varOf),
               silent |-> silent, agreed |-> agreed]
  /\ outcome' = "none"
  /\ UNCHANGED <<table, provenance, work, equation, because, silent, agreed>>

Commit ==
  /\ Proceeding
  /\ Trying
  /\ saved' = NoSnapshot
  /\ UNCHANGED <<table, provenance, work, equation, because, outcome, silent, agreed>>

(* It may fail though every unify succeeds: impl_matches also compares how    *)
(* many trait arguments there are.                                            *)
BoundAfterUnwritten(s) == SubSeq(bound, 1, s.keys)
BoundAfter(s) == s.bound
KeysAfterUnwritten(s) == varOf
KeysAfter(s) == SubSeq(varOf, 1, s.keys)
Rollback ==
  /\ Idle /\ Trying
  /\ rep' = saved.rep
  /\ bound' = BoundAfter(saved)
  /\ varOf' = KeysAfter(saved)
  /\ provenance' = SubSeq(provenance, 1, saved.provenance)
  /\ silent' = saved.silent
  /\ agreed' = saved.agreed
  /\ saved' = NoSnapshot
  /\ outcome' = "none"
  /\ UNCHANGED <<slots, work, equation, because>>

UnifyStep == UnifyVars \/ BindVar \/ UnifyHeads

Next ==
  \/ FreshVar
  \/ \E t1, t2 \in Ty, reason \in BOOLEAN : Unify(t1, t2, reason)
  \/ UnifyStep
  \/ \E v \in Var, g \in Generics : BindGeneric(v, g)
  \/ Snapshot \/ Commit \/ Rollback

Spec == Init /\ [][Next]_vars

(* The checker is one thread: a call of unify runs until it returns.          *)
FairSpec == Spec /\ WF_vars(UnifyStep)
-----------------------------------------------------------------------------
Snapshots == [rep : Seq(Nat), bound : Seq(Ty \cup {NoTy}),
              provenance : Nat, keys : Nat, silent : SUBSET Var, agreed : SUBSET (Ty \X Ty)]

(* The shape of the table and of a unification in progress.                   *)
CallOK ==
  IF Idle THEN equation = NoEquation ELSE equation \in Ty \X Ty /\ outcome = "none"
TypeOK ==
  /\ slots \in Seq(Nat \ {0}) /\ Len(slots) <= Vars
  /\ varOf \in Seq(Var)
  /\ rep \in Seq(Nat)
  /\ bound \in Seq(Ty \cup {NoTy}) /\ Len(bound) = Len(rep)
  /\ provenance \in Seq(Var)
  /\ work \in Seq(Ty \X Ty)
  /\ CallOK
  /\ because \in BOOLEAN
  /\ outcome \in {"none", "ok", "err"}
  /\ saved \in Snapshots \cup {NoSnapshot}
  /\ silent \subseteq Var
  /\ agreed \subseteq Ty \X Ty

(* Keys, variables and classes match, also when a rollback has taken keys     *)
(* back and fresh_var has issued them again: what its debug_assert says, and  *)
(* that no two variables in use share a key.                                  *)
KeysMatch ==
  /\ Len(varOf) = Len(rep)
  /\ \A k \in DOMAIN varOf : varOf[k] \in DOMAIN slots /\ slots[varOf[k]] = k
  /\ \A k \in DOMAIN rep : rep[k] \in DOMAIN rep /\ rep[rep[k]] = rep[k]

(* resolve ends after one step: variables are bound to constructors only.     *)
BoundToHeads == \A k \in DOMAIN bound : bound[k] # NoTy => ~IsVar(bound[k])

(* No infinite type: below every set of types there is a bottom, looking      *)
(* through the bindings, whatever unify was asked and wherever it failed.     *)
NoInfiniteType ==
  \A S \in (SUBSET Ty) \ {{}} : \E t \in S : Parts(t) \cap S = {}

(* A failed attempt leaves nothing behind: what a variable in use stands for  *)
(* is made of variables in use.                                               *)
NothingDangles == \A k \in DOMAIN bound : bound[k] # NoTy => bound[k] \in Known

(* A unification in progress is about types at hand.                          *)
WorkIsKnown == work \in Seq(Known \X Known)

(* The snapshot to go back to is older than the table: since it was taken,    *)
(* keys were only added, and no variable bound then was bound anew.           *)
SnapshotIsOlder ==
  Trying =>
    /\ Len(saved.rep) = saved.keys /\ Len(saved.bound) = saved.keys
    /\ saved.keys <= Len(rep) /\ saved.provenance <= Len(provenance)
    /\ \A k \in 1..saved.keys :
         /\ saved.rep[k] \in 1..saved.keys
         /\ saved.rep[saved.rep[k]] = saved.rep[k]
         /\ saved.bound[k] # NoTy =>
              /\ ~IsVar(saved.bound[k])
              /\ VarsOf[saved.bound[k]] \subseteq SetOf(SubSeq(varOf, 1, saved.keys))
         /\ saved.bound[saved.rep[k]] # NoTy => bound[rep[k]] = saved.bound[saved.rep[k]]

(* Inductive: why unification never builds an infinite type.                  *)
IInv ==
  /\ TypeOK
  /\ KeysMatch
  /\ BoundToHeads
  /\ NoInfiniteType
  /\ NothingDangles
  /\ WorkIsKnown
  /\ SnapshotIsOlder

(* Two types are made of the same constructor once resolved, of arguments     *)
(* that R relates.  Err and Never agree with every type, and arguments that   *)
(* only one of them has are not compared: a struct named before its fields    *)
(* have been lowered has none for the generics made for them.                 *)
Alike(R, t1, t2) ==
  LET k == Kind[Resolve(t1)]
      l == Kind[Resolve(t2)]
  IN  \/ {k.con, l.con} \cap Wildcards # {}
      \/ k.con = "Var" /\ l.con = "Var" /\ Key(k.var) = Key(l.var)
      \/ /\ k.con # "Var" /\ k.con = l.con
         /\ k.con \in FixedArity => Len(k.args) = Len(l.args)
         /\ \A i \in DOMAIN k.args \cap DOMAIN l.args : <<k.args[i], l.args[i]>> \in R

(* The types that are the same, down to depth n.                              *)
Agreeing[n \in 0..Cardinality(Ty)] ==
  IF n = 0 THEN Known \X Known
  ELSE LET R == Agreeing[n - 1] IN {p \in R : Alike(R, p[1], p[2])}

(* A unification that returns Ok has made its types the same, and they stay   *)
(* the same for good: through later unifications, those that fail half way,   *)
(* generalisation and attempts at impls.  Only a rollback takes back what was *)
(* unified since its snapshot, and no more than that.  (No type is nested     *)
(* deeper than there are types.)                                              *)
SuccessAgrees == agreed \subseteq Agreeing[Cardinality(Ty)]

(* Closed solutions of the bindings and of the equations still to be solved.  *)
Val(sigma, t) ==
  LET val[u \in Ty] ==
        IF IsVar(u) THEN sigma[Kind[u].var]
        ELSE <<Kind[u].con, [i \in DOMAIN Kind[u].args |-> val[Kind[u].args[i]]]>>
  IN  val[t]

Solutions ==
  {sigma \in [Live -> Ground] :
     /\ \A v, w \in Live : Key(v) = Key(w) => sigma[v] = sigma[w]
     /\ \A v \in Live : bound[Key(v)] # NoTy => sigma[v] = Val(sigma, bound[Key(v)])
     /\ \A i \in DOMAIN work : Val(sigma, work[i][1]) = Val(sigma, work[i][2])}

(* What unify_impl lets through without comparing all of it: Err and Never,   *)
(* and arguments that only one of two types has (see Alike).                  *)
LetThrough(k1, k2) ==
  \/ {k1.con, k2.con} \cap Wildcards # {}
  \/ k1.con = k2.con /\ k1.con \notin FixedArity /\ Len(k1.args) # Len(k2.args)

(* Unification is most general: no call of unify_impl gains or loses a        *)
(* solution, and one that fails had none.                                     *)
MostGeneral ==
  [][~Idle /\ ~LetThrough(Kind[First], Kind[Second]) =>
       IF outcome' = "err" THEN Solutions = {} ELSE Solutions' = Solutions]_vars

(* What a variable is bound to never changes, but for a rollback.             *)
BindingsStand ==
  [][~Rollback => \A v \in Live : bound[Key(v)] # NoTy => (bound[Key(v)])' = bound[Key(v)]]_vars

(* provenance() finds a reason for whatever a variable was made to be, unless *)
(* its class was changed without one.                                         *)
Explained ==
  \A v \in Live :
    bound[Key(v)] # NoTy \/ (\E w \in Live \ {v} : Key(w) = Key(v)) =>
      \E w \in SetOf(provenance) \cup silent : w \in Live /\ Key(w) = Key(v)

(* Unification ends, with a result, on all types (no solution is infinite).   *)
UnifyReturns == ~Idle ~> Idle
=============================================================================
