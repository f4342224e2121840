------------------------ MODULE InferenceTable_proofs ------------------------
(***************************************************************************)
(* Proofs about InferenceTable, for every arena of types and every         *)
(* sequence of unifications: a binding never makes a type infinite; and    *)
(* what a unification leaves behind: a reason for each binding, two types  *)
(* that agree when it succeeds, and all the solutions there were.          *)
(***************************************************************************)
EXTENDS InferenceTable, Induction, FiniteSetTheorems

(* What the parts of the invariant say about keys, in the terms of the steps. *)
LEMMA KeyFacts ==
  ASSUME TypeOK, KeysMatch
  PROVE  /\ Len(rep) \in Nat /\ DOMAIN rep = 1..Len(rep)
         /\ DOMAIN bound = 1..Len(rep) /\ DOMAIN varOf = 1..Len(rep)
         /\ DOMAIN slots = 1..Len(slots) /\ Len(slots) \in Nat
         /\ \A v \in Live : /\ v \in DOMAIN slots /\ v \in Var
                           /\ slots[v] \in 1..Len(rep) /\ varOf[slots[v]] = v
                           /\ Key(v) \in 1..Len(rep) /\ rep[Key(v)] = Key(v)
<1>1. /\ Len(rep) \in Nat /\ DOMAIN rep = 1..Len(rep)
      /\ DOMAIN bound = 1..Len(rep) /\ DOMAIN varOf = 1..Len(rep)
      /\ DOMAIN slots = 1..Len(slots) /\ Len(slots) \in Nat
  BY DEF TypeOK, KeysMatch
<1>2. ASSUME NEW v \in Live
      PROVE  /\ v \in DOMAIN slots /\ v \in Var
             /\ slots[v] \in 1..Len(rep) /\ varOf[slots[v]] = v
             /\ Key(v) \in 1..Len(rep) /\ rep[Key(v)] = Key(v)
  <2>1. PICK k \in DOMAIN varOf : varOf[k] = v
    BY DEF Live, SetOf
  <2>2. v \in DOMAIN slots /\ slots[v] = k /\ v \in Var
    BY <2>1 DEF KeysMatch, TypeOK
  <2>3. QED
    BY <1>1, <2>1, <2>2 DEF KeysMatch, Key
<1>3. QED
  BY <1>1, <1>2

(* A step that takes no type apart further cannot make one infinite.          *)
LEMMA FewerParts ==
  ASSUME NoInfiniteType, \A t \in Ty : Parts(t)' \subseteq Parts(t)
  PROVE  NoInfiniteType'
<1> SUFFICES ASSUME NEW S \in (SUBSET Ty) \ {{}}
             PROVE  \E t \in S : Parts(t)' \cap S = {}
  BY DEF NoInfiniteType
<1>1. PICK t \in S : Parts(t) \cap S = {}
  BY DEF NoInfiniteType
<1>2. QED
  BY <1>1

(* The occurs check is enough.  If a set S had no bottom after the binding,   *)
(* then neither would the part of it that is reachable from the type bound    *)
(* have had one before: those types do not mention the variable, so they are  *)
(* made of what they were made of.                                            *)
LEMMA BindingStaysFinite ==
  ASSUME NoInfiniteType, NEW u \in Ty, NEW Class,
         \A t \in Ty \ Class : Parts(t)' = Parts(t),
         \A t \in Class : Parts(t)' = {u},
         NEW Below \in SUBSET Ty, u \in Below, Closed(Below), Below \cap Class = {}
  PROVE  NoInfiniteType'
<1> SUFFICES ASSUME NEW S \in (SUBSET Ty) \ {{}},
                    \A t \in S : Parts(t)' \cap S # {}
             PROVE  FALSE
  BY DEF NoInfiniteType
<1>1. CASE S \cap Class = {}
  <2>1. PICK t \in S : Parts(t) \cap S = {}
    BY DEF NoInfiniteType
  <2>2. QED
    BY <1>1, <2>1
<1>2. CASE S \cap Class # {}
  <2>1. u \in S \cap Below
    BY <1>2
  <2>2. PICK t \in S \cap Below : Parts(t) \cap (S \cap Below) = {}
    BY <2>1 DEF NoInfiniteType
  <2>3. Parts(t)' = Parts(t) /\ Parts(t) \subseteq Below
    BY <2>2 DEF Closed
  <2>4. QED
    BY <2>2, <2>3
<1>3. QED
  BY <1>1, <1>2
-----------------------------------------------------------------------------
(* The arena.                                                                 *)
LEMMA ArenaFacts ==
  ASSUME NEW t \in Ty
  PROVE  /\ Kind[t].args \in Seq(Ty)
         /\ IsVar(t) => Kind[t].var \in Var /\ Kind[t].var \in VarsOf[t]
         /\ \A u \in SetOf(Kind[t].args) : u \in Ty /\ VarsOf[u] \subseteq VarsOf[t]
<1>1. Kind[t].args \in Seq(Ty) /\ (IsVar(t) => Kind[t].var \in Var)
  BY ArenaAssumption
<1>2. \A u \in Ty : VarsOf[u] = {v \in Var : \A S \in SUBSET Ty : u \in S /\ ArgsClosed(S) =>
                                 \E w \in S : IsVar(w) /\ Kind[w].var = v}
  BY DEF VarsOf
<1>3. \A u \in SetOf(Kind[t].args) : u \in Ty
  BY <1>1 DEF SetOf
<1>4. \A u \in SetOf(Kind[t].args) : VarsOf[u] \subseteq VarsOf[t]
  <2> SUFFICES ASSUME NEW u \in SetOf(Kind[t].args), NEW v \in VarsOf[u]
               PROVE  v \in VarsOf[t]
    OBVIOUS
  <2>1. u \in Ty /\ v \in Var
    BY <1>2, <1>3
  <2>2. ASSUME NEW S \in SUBSET Ty, t \in S, ArgsClosed(S)
        PROVE  \E w \in S : IsVar(w) /\ Kind[w].var = v
    <3>1. u \in S
      BY <2>2 DEF ArgsClosed
    <3>2. QED
      BY <1>2, <2>1, <2>2, <3>1
  <2>3. QED
    BY <1>2, <2>1, <2>2
<1>5. IsVar(t) => Kind[t].var \in VarsOf[t]
  BY <1>1, <1>2
<1>6. QED
  BY <1>1, <1>3, <1>4, <1>5

LEMMA KnownArgs ==
  ASSUME NEW t \in Known
  PROVE  Kind[t].args \in Seq(Known)
<1>1. t \in Ty /\ Kind[t].args \in Seq(Ty)
  BY ArenaFacts DEF Known
<1>2. \A i \in DOMAIN Kind[t].args : Kind[t].args[i] \in Known
  BY <1>1, ArenaFacts DEF Known, SetOf
<1>3. QED
  BY <1>1, <1>2

(* What resolve returns: a constructor, or a variable that is free.           *)
LEMMA ResolveFacts ==
  ASSUME TypeOK, KeysMatch, BoundToHeads, NothingDangles, NEW t \in Known
  PROVE  /\ Resolve(t) \in Known
         /\ IsVar(Resolve(t)) => /\ Kind[Resolve(t)].var \in Live
                                 /\ bound[Key(Kind[Resolve(t)].var)] = NoTy
<1>1. t \in Ty
  BY DEF Known
<1>2. CASE IsVar(t)
  <2>1. Kind[t].var \in Live
    BY <1>1, <1>2, ArenaFacts DEF Known
  <2>2. Key(Kind[t].var) \in DOMAIN bound
    BY <2>1, KeyFacts
  <2>3. CASE Binding(t) = NoTy
    BY <1>2, <2>1, <2>3 DEF Resolve, Binding
  <2>4. CASE Binding(t) # NoTy
    <3>1. Binding(t) \in Known /\ ~IsVar(Binding(t))
      BY <2>2, <2>4 DEF Binding, NothingDangles, BoundToHeads
    <3>2. Resolve(t) = Binding(t)
      BY <1>2, <2>4 DEF Resolve
    <3>3. QED
      BY <3>1, <3>2
  <2>5. QED
    BY <2>3, <2>4
<1>3. CASE ~IsVar(t)
  BY <1>3 DEF Resolve
<1>4. QED
  BY <1>2, <1>3
-----------------------------------------------------------------------------
(* The table's part of the invariant, and the steps that change the table.    *)
TableInv ==
  /\ KeysMatch
  /\ BoundToHeads
  /\ NoInfiniteType
  /\ NothingDangles
  /\ SnapshotIsOlder

LEMMA BindStep ==
  ASSUME TypeOK, TableInv, NEW v \in Live, NEW u \in Known,
         bound[Key(v)] = NoTy, ~IsVar(u), ~Occurs(v, u),
         bound' = [bound EXCEPT ![Key(v)] = u],
         UNCHANGED <<slots, varOf, rep, saved>>,
         Len(provenance') \in Nat, Len(provenance') >= Len(provenance)
  PROVE  TableInv'
<1> DEFINE K == Key(v)
<1> DEFINE Class == {t \in Ty : IsVar(t) /\ Kind[t].var \in Live /\ Key(Kind[t].var) = K}
<1>1. K \in DOMAIN bound /\ K \in DOMAIN rep /\ DOMAIN bound' = DOMAIN bound /\ u \in Ty
  BY KeyFacts DEF TableInv, Known
<1>2. bound'[K] = u /\ \A k \in DOMAIN bound \ {K} : bound'[k] = bound[k]
  BY <1>1
<1>3. Live' = Live /\ Known' = Known /\ u # NoTy
  BY <1>1, ArenaAssumption DEF Live, SetOf, Known
<1>4. KeysMatch'
  BY DEF TableInv, KeysMatch
<1>5. BoundToHeads'
  BY <1>1, <1>2 DEF TableInv, BoundToHeads
<1>6. NothingDangles'
  BY <1>1, <1>2, <1>3 DEF TableInv, NothingDangles
<1>7. SnapshotIsOlder'
  <2> SUFFICES ASSUME Trying PROVE SnapshotIsOlder'
    BY DEF SnapshotIsOlder, Trying
  <2>1. \A k \in 1..saved.keys : k \in DOMAIN rep /\ rep[k] \in DOMAIN bound
    <3>1. saved.keys \in Nat /\ saved.keys <= Len(rep)
      BY DEF TypeOK, Snapshots, Trying, TableInv, SnapshotIsOlder
    <3>2. /\ DOMAIN rep = 1..Len(rep) /\ DOMAIN bound = 1..Len(rep) /\ Len(rep) \in Nat
          /\ \A k \in DOMAIN rep : rep[k] \in DOMAIN rep
      BY KeyFacts DEF TableInv, KeysMatch
    <3>3. QED
      BY <3>1, <3>2
  <2>2. \A k \in 1..saved.keys : saved.bound[saved.rep[k]] # NoTy =>
                                   bound'[rep[k]] = saved.bound[saved.rep[k]]
    BY <1>2, <2>1 DEF TableInv, SnapshotIsOlder
  <2>3. saved.provenance <= Len(provenance')
    <3>1. saved.provenance \in Nat /\ Len(provenance) \in Nat
      BY DEF TypeOK, Snapshots, Trying
    <3>2. QED
      BY <3>1 DEF TableInv, SnapshotIsOlder
  <2>4. QED
    BY <2>2, <2>3 DEF TableInv, SnapshotIsOlder
<1>8. NoInfiniteType'
  <2>1. PICK Below \in SUBSET Ty : /\ u \in Below /\ Closed(Below)
                                   /\ ~ \E w \in Below : /\ IsVar(w) /\ Kind[w].var \in Live
                                                         /\ Key(Kind[w].var) = Key(v)
    BY DEF Occurs
  <2>2. Below \cap Class = {}
    BY <2>1
  <2>3. ASSUME NEW t \in Ty \ Class PROVE Parts(t)' = Parts(t)
    <3>1. CASE IsVar(t) /\ Kind[t].var \in Live
      <4>1. Key(Kind[t].var) \in DOMAIN bound \ {K}
        BY <2>3, <3>1, <1>1, KeyFacts DEF TableInv
      <4>2. Key(Kind[t].var)' = Key(Kind[t].var)
        BY DEF Key
      <4>3. QED
        BY <1>2, <1>3, <4>1, <4>2 DEF Parts, Binding
    <3>2. CASE ~(IsVar(t) /\ Kind[t].var \in Live)
      BY <1>3, <3>2 DEF Parts
    <3>3. QED
      BY <3>1, <3>2
  <2>4. ASSUME NEW t \in Class PROVE Parts(t)' = {u}
    <3>1. Key(Kind[t].var)' = K /\ Kind[t].var \in Live' /\ IsVar(t)
      BY <1>3 DEF Key
    <3>2. QED
      BY <1>2, <1>3, <3>1 DEF Parts, Binding
  <2> HIDE DEF Class
  <2>5. QED
    BY <1>1, <2>1, <2>2, <2>3, <2>4, BindingStaysFinite DEF TableInv
<1>9. QED
  BY <1>4, <1>5, <1>6, <1>7, <1>8 DEF TableInv

LEMMA UnionStep ==
  ASSUME TypeOK, TableInv, NEW v \in Live, NEW w \in Live,
         bound[Key(v)] = NoTy, bound[Key(w)] = NoTy,
         rep' = United(Key(v), Key(w)),
         UNCHANGED <<slots, varOf, bound, saved>>,
         Len(provenance') \in Nat, Len(provenance') >= Len(provenance)
  PROVE  TableInv'
<1> DEFINE K == Key(v)
<1> DEFINE L == Key(w)
<1>1. /\ K \in DOMAIN rep /\ L \in DOMAIN rep /\ rep[K] = K /\ rep[L] = L
      /\ DOMAIN bound = DOMAIN rep /\ DOMAIN rep = 1..Len(rep) /\ Len(rep) \in Nat
  BY KeyFacts DEF TableInv
<1>2. rep' = [k \in DOMAIN rep |-> IF rep[k] \in {K, L} THEN L ELSE rep[k]]
  BY DEF United, UnionRoot
<1>3. \A k \in DOMAIN rep : rep'[k] = IF rep[k] \in {K, L} THEN L ELSE rep[k]
  BY <1>2
<1>4. DOMAIN rep' = DOMAIN rep /\ Len(rep') = Len(rep)
  <2>1. DOMAIN rep' = 1..Len(rep)
    BY <1>1, <1>2
  <2>2. \A k \in 1..Len(rep) : rep'[k] \in Nat
    BY <1>1, <1>3 DEF TableInv, KeysMatch
  <2>3. rep' \in Seq(Nat)
    BY <1>1, <1>2, <2>1, <2>2
  <2>4. QED
    BY <1>1, <2>1, <2>3
<1>5. Live' = Live /\ Known' = Known
  BY DEF Live, SetOf, Known
<1>6. KeysMatch'
  BY <1>1, <1>3, <1>4 DEF TableInv, KeysMatch
<1>7. BoundToHeads' /\ NothingDangles'
  BY <1>5 DEF TableInv, BoundToHeads, NothingDangles
<1>8. SnapshotIsOlder'
  <2> SUFFICES ASSUME Trying PROVE SnapshotIsOlder'
    BY DEF SnapshotIsOlder, Trying
  <2>1. \A k \in 1..saved.keys : k \in DOMAIN rep
    BY <1>1 DEF TableInv, SnapshotIsOlder, TypeOK, Snapshots
  <2>2. \A k \in 1..saved.keys : saved.bound[saved.rep[k]] # NoTy =>
                                   bound[rep'[k]] = saved.bound[saved.rep[k]]
    BY <1>3, <2>1 DEF TableInv, SnapshotIsOlder
  <2>3. saved.provenance <= Len(provenance')
    <3>1. saved.provenance \in Nat /\ Len(provenance) \in Nat
      BY DEF TypeOK, Snapshots, Trying
    <3>2. QED
      BY <3>1 DEF TableInv, SnapshotIsOlder
  <2>4. QED
    BY <1>4, <2>2, <2>3 DEF TableInv, SnapshotIsOlder
<1>9. NoInfiniteType'
  <2>1. \A x \in Live : bound'[Key(x)'] = bound[Key(x)]
    <3> SUFFICES ASSUME NEW x \in Live PROVE bound'[Key(x)'] = bound[Key(x)]
      OBVIOUS
    <3>1. slots[x] \in DOMAIN rep
      BY <1>1, KeyFacts DEF TableInv
    <3>2. Key(x)' = IF Key(x) \in {K, L} THEN L ELSE Key(x)
      BY <1>3, <3>1 DEF Key
    <3>3. QED
      BY <3>2
  <2>2. \A t \in Ty : Parts(t)' = Parts(t)
    BY <1>5, <2>1 DEF Parts, Binding
  <2>3. QED
    BY <2>2, FewerParts DEF TableInv
<1>10. QED
  BY <1>6, <1>7, <1>8, <1>9 DEF TableInv

(* One entry more at the end of a sequence.                                   *)
LEMMA AppendFacts ==
  ASSUME NEW S, NEW s \in Seq(S), NEW e \in S
  PROVE  /\ Append(s, e) \in Seq(S) /\ Len(Append(s, e)) = Len(s) + 1
         /\ DOMAIN Append(s, e) = 1..(Len(s) + 1)
         /\ Append(s, e)[Len(s) + 1] = e
         /\ \A k \in 1..Len(s) : Append(s, e)[k] = s[k]
OBVIOUS

(* A new variable is alone in a new class, which is not bound.                *)
LEMMA FreshFacts ==
  ASSUME TypeOK, TableInv, FreshVar, NEW n, NEW x, n = Len(rep), x = Len(slots) + 1
  PROVE  /\ n \in Nat /\ x \in Var /\ x - 1 \in Nat /\ x \notin Live
         /\ DOMAIN rep = 1..n /\ DOMAIN bound = 1..n /\ DOMAIN varOf = 1..n
         /\ DOMAIN slots = 1..(x - 1)
         /\ rep' \in Seq(Nat) /\ Len(rep') = n + 1 /\ DOMAIN rep' = 1..(n + 1)
         /\ rep'[n + 1] = n + 1 /\ \A k \in 1..n : rep'[k] = rep[k]
         /\ bound' \in Seq(Ty \cup {NoTy}) /\ Len(bound') = n + 1
         /\ DOMAIN bound' = 1..(n + 1)
         /\ bound'[n + 1] = NoTy /\ \A k \in 1..n : bound'[k] = bound[k]
         /\ varOf' \in Seq(Var) /\ Len(varOf') = n + 1 /\ DOMAIN varOf' = 1..(n + 1)
         /\ varOf'[n + 1] = x /\ \A k \in 1..n : varOf'[k] = varOf[k]
         /\ slots' \in Seq(Nat \ {0}) /\ Len(slots') = x /\ DOMAIN slots' = 1..x
         /\ slots'[x] = n + 1 /\ \A v \in 1..(x - 1) : slots'[v] = slots[v]
<1>1. /\ rep \in Seq(Nat) /\ bound \in Seq(Ty \cup {NoTy}) /\ varOf \in Seq(Var)
      /\ slots \in Seq(Nat \ {0})
      /\ Len(rep) = n /\ Len(bound) = n /\ Len(varOf) = n
      /\ n \in Nat /\ Len(slots) \in Nat /\ Len(slots) = x - 1 /\ x \in Nat
      /\ DOMAIN rep = 1..n /\ DOMAIN bound = 1..n /\ DOMAIN varOf = 1..n
      /\ DOMAIN slots = 1..(x - 1)
  BY KeyFacts DEF TableInv, TypeOK, KeysMatch
<1>2. x \in Var
  BY <1>1, VarsAssumption DEF FreshVar, Var
<1>3. n + 1 \in Nat \ {0} /\ n + 1 \in Nat /\ NoTy \in Ty \cup {NoTy}
  BY <1>1
<1>4. /\ rep' = Append(rep, n + 1) /\ bound' = Append(bound, NoTy)
      /\ varOf' = Append(varOf, x) /\ slots' = Append(slots, n + 1)
  BY DEF FreshVar
<1>5. /\ rep' \in Seq(Nat) /\ Len(rep') = n + 1 /\ DOMAIN rep' = 1..(n + 1)
      /\ rep'[n + 1] = n + 1 /\ \A k \in 1..n : rep'[k] = rep[k]
  BY <1>1, <1>3, <1>4, AppendFacts
<1>6. /\ bound' \in Seq(Ty \cup {NoTy}) /\ Len(bound') = n + 1
      /\ DOMAIN bound' = 1..(n + 1)
      /\ bound'[n + 1] = NoTy /\ \A k \in 1..n : bound'[k] = bound[k]
  BY <1>1, <1>3, <1>4, AppendFacts
<1>7. /\ varOf' \in Seq(Var) /\ Len(varOf') = n + 1 /\ DOMAIN varOf' = 1..(n + 1)
      /\ varOf'[n + 1] = x /\ \A k \in 1..n : varOf'[k] = varOf[k]
  BY <1>1, <1>2, <1>4, AppendFacts
<1>8. /\ slots' \in Seq(Nat \ {0}) /\ Len(slots') = x /\ DOMAIN slots' = 1..x
      /\ slots'[x] = n + 1 /\ \A v \in 1..(x - 1) : slots'[v] = slots[v]
  <2>1. (x - 1) + 1 = x
    BY <1>1
  <2>2. QED
    BY <1>1, <1>3, <1>4, <2>1, AppendFacts
<1>9. x \notin Live
  <2>1. \A v \in Live : v \in DOMAIN slots
    BY KeyFacts DEF TableInv
  <2>2. x \notin 1..(x - 1)
    BY <1>1
  <2>3. QED
    BY <1>1, <2>1, <2>2
<1>10. QED
  BY <1>1, <1>2, <1>5, <1>6, <1>7, <1>8, <1>9

LEMMA FreshStep ==
  ASSUME TypeOK, TableInv, FreshVar
  PROVE  TypeOK' /\ TableInv'
<1>0. /\ UNCHANGED <<provenance, work, equation, because, outcome, saved, silent, agreed>>
      /\ Len(slots) < Vars
  BY DEF FreshVar
<1> SUFFICES ASSUME NEW n, NEW x, n = Len(rep), x = Len(slots) + 1
             PROVE  TypeOK' /\ TableInv'
  OBVIOUS
<1>1. /\ n \in Nat /\ x \in Var /\ x - 1 \in Nat /\ x \notin Live
      /\ DOMAIN rep = 1..n /\ DOMAIN bound = 1..n /\ DOMAIN varOf = 1..n
      /\ DOMAIN slots = 1..(x - 1)
  BY FreshFacts
<1>2. /\ rep' \in Seq(Nat) /\ Len(rep') = n + 1 /\ DOMAIN rep' = 1..(n + 1)
      /\ rep'[n + 1] = n + 1 /\ \A k \in 1..n : rep'[k] = rep[k]
  BY FreshFacts
<1>3. /\ bound' \in Seq(Ty \cup {NoTy}) /\ Len(bound') = n + 1 /\ DOMAIN bound' = 1..(n + 1)
      /\ bound'[n + 1] = NoTy /\ \A k \in 1..n : bound'[k] = bound[k]
  BY FreshFacts
<1>4. /\ varOf' \in Seq(Var) /\ Len(varOf') = n + 1 /\ DOMAIN varOf' = 1..(n + 1)
      /\ varOf'[n + 1] = x /\ \A k \in 1..n : varOf'[k] = varOf[k]
  BY FreshFacts
<1>5. /\ slots' \in Seq(Nat \ {0}) /\ Len(slots') = x /\ DOMAIN slots' = 1..x
      /\ slots'[x] = n + 1 /\ \A v \in 1..(x - 1) : slots'[v] = slots[v]
  BY FreshFacts
<1>6. \A k \in 1..(n + 1) : k \in 1..n \/ k = n + 1
  BY <1>1
<1>7. Live' = Live \cup {x}
  <2>1. Live = {varOf[k] : k \in 1..n} /\ Live' = {varOf'[k] : k \in 1..(n + 1)}
    BY <1>1, <1>4 DEF Live, SetOf
  <2>2. n + 1 \in 1..(n + 1) /\ \A k \in 1..n : k \in 1..(n + 1)
    BY <1>1
  <2>3. QED
    BY <1>4, <1>6, <2>1, <2>2
<1>8. \A v \in Live : Key(v)' = Key(v) /\ bound'[Key(v)] = bound[Key(v)]
  <2> SUFFICES ASSUME NEW v \in Live
               PROVE  Key(v)' = Key(v) /\ bound'[Key(v)] = bound[Key(v)]
    OBVIOUS
  <2>1. v \in 1..(x - 1) /\ slots[v] \in 1..n /\ Key(v) \in 1..n
    BY <1>1, KeyFacts DEF TableInv
  <2>2. QED
    BY <1>2, <1>3, <1>5, <2>1 DEF Key
<1>9. TypeOK'
  <2>1. Len(slots') <= Vars
    BY <1>0, <1>1, <1>5, VarsAssumption DEF Var
  <2>2. /\ provenance' \in Seq(Var) /\ work' \in Seq(Ty \X Ty)
        /\ CallOK'
        /\ outcome' \in {"none", "ok", "err"}
        /\ saved' \in Snapshots \cup {NoSnapshot} /\ silent' \subseteq Var
        /\ agreed' \subseteq Ty \X Ty
    BY <1>0 DEF TypeOK, Snapshots, CallOK, Idle, NoEquation
  <2>3. because' \in BOOLEAN
    BY <1>0 DEF TypeOK
  <2>4. QED
    BY <1>2, <1>3, <1>4, <1>5, <2>1, <2>2, <2>3 DEF TypeOK
<1>10. KeysMatch'
  <2>1. \A k \in 1..n : /\ varOf[k] \in DOMAIN slots /\ slots[varOf[k]] = k
                       /\ rep[k] \in 1..n /\ rep[rep[k]] = rep[k]
    BY <1>1 DEF TableInv, KeysMatch
  <2>2. x \in 1..x /\ \A v \in 1..(x - 1) : v \in 1..x
    BY <1>1
  <2>3. ASSUME NEW k \in 1..(n + 1) PROVE varOf'[k] \in 1..x /\ slots'[varOf'[k]] = k
    <3>1. CASE k \in 1..n
      BY <1>1, <1>4, <1>5, <2>1, <2>2, <3>1
    <3>2. CASE k = n + 1
      BY <1>4, <1>5, <2>2, <3>2
    <3>3. QED
      BY <1>6, <3>1, <3>2
  <2>4. n + 1 \in 1..(n + 1) /\ \A k \in 1..n : k \in 1..(n + 1)
    BY <1>1
  <2>5. ASSUME NEW k \in 1..(n + 1) PROVE rep'[k] \in 1..(n + 1) /\ rep'[rep'[k]] = rep'[k]
    <3>1. CASE k \in 1..n
      BY <1>2, <2>1, <2>4, <3>1
    <3>2. CASE k = n + 1
      BY <1>2, <2>4, <3>2
    <3>3. QED
      BY <1>6, <3>1, <3>2
  <2>6. QED
    BY <1>2, <1>4, <1>5, <2>3, <2>5 DEF KeysMatch
<1>11. \A k \in DOMAIN bound' : bound'[k] # NoTy => k \in DOMAIN bound /\ bound'[k] = bound[k]
  BY <1>1, <1>3, <1>6
<1>12. BoundToHeads' /\ NothingDangles'
  <2>1. Known \subseteq Known'
    BY <1>7 DEF Known
  <2>2. QED
    BY <1>11, <2>1 DEF TableInv, BoundToHeads, NothingDangles
<1>13. NoInfiniteType'
  <2>1. bound'[Key(x)'] = NoTy
    <3>1. x \in 1..x /\ n + 1 \in 1..(n + 1)
      BY <1>1
    <3>2. Key(x)' = n + 1
      BY <1>2, <1>5, <3>1 DEF Key
    <3>3. QED
      BY <1>3, <3>2
  <2>2. \A t \in Ty : Parts(t)' \subseteq Parts(t)
    <3> SUFFICES ASSUME NEW t \in Ty PROVE Parts(t)' \subseteq Parts(t)
      OBVIOUS
    <3>1. CASE IsVar(t) /\ Kind[t].var \in Live
      BY <1>7, <1>8, <3>1 DEF Parts, Binding
    <3>2. CASE IsVar(t) /\ Kind[t].var = x
      BY <1>1, <2>1, <3>2 DEF Parts, Binding
    <3>3. CASE ~(IsVar(t) /\ Kind[t].var \in Live) /\ ~(IsVar(t) /\ Kind[t].var = x)
      BY <1>7, <3>3 DEF Parts
    <3>4. QED
      BY <3>1, <3>2, <3>3
  <2>3. QED
    BY <2>2, FewerParts DEF TableInv
<1>14. SnapshotIsOlder'
  <2> SUFFICES ASSUME Trying PROVE SnapshotIsOlder'
    BY <1>0 DEF SnapshotIsOlder, Trying
  <2> SUFFICES ASSUME NEW m, m = saved.keys PROVE SnapshotIsOlder'
    OBVIOUS
  <2>1. /\ Len(saved.rep) = m /\ Len(saved.bound) = m
        /\ m <= n /\ saved.provenance <= Len(provenance)
        /\ \A k \in 1..m :
             /\ saved.rep[k] \in 1..m /\ saved.rep[saved.rep[k]] = saved.rep[k]
             /\ saved.bound[k] # NoTy =>
                  /\ ~IsVar(saved.bound[k])
                  /\ VarsOf[saved.bound[k]] \subseteq SetOf(SubSeq(varOf, 1, m))
             /\ saved.bound[saved.rep[k]] # NoTy => bound[rep[k]] = saved.bound[saved.rep[k]]
    BY DEF TableInv, SnapshotIsOlder
  <2>2. m \in Nat /\ \A k \in 1..m : k \in 1..n
    BY <1>1, <2>1 DEF TypeOK, Snapshots, Trying
  <2>3. \A k \in 1..n : rep[k] \in 1..n
    BY <1>1 DEF TableInv, KeysMatch
  <2>4. \A k \in 1..m : bound'[rep'[k]] = bound[rep[k]]
    BY <1>2, <1>3, <2>2, <2>3
  <2>5. SubSeq(varOf', 1, m) = SubSeq(varOf, 1, m)
    <3>1. \A k \in 1..m : varOf'[k] = varOf[k]
      BY <1>4, <2>2
    <3>2. QED
      BY <3>1, <2>2
  <2>6. m <= Len(rep')
    BY <1>1, <1>2, <2>1, <2>2
  <2>7. saved' = saved /\ provenance' = provenance
    BY <1>0
  <2>8. QED
    BY <2>1, <2>4, <2>5, <2>6, <2>7 DEF SnapshotIsOlder
<1>15. QED
  BY <1>9, <1>10, <1>12, <1>13, <1>14 DEF TableInv

LEMMA SnapshotStep ==
  ASSUME TypeOK, TableInv, Snapshot
  PROVE  TypeOK' /\ TableInv'
<1> DEFINE n == Len(rep)
<1>1. /\ saved' = [rep |-> rep, bound |-> bound, provenance |-> Len(provenance),
                   keys |-> Len(varOf), silent |-> silent, agreed |-> agreed]
      /\ UNCHANGED <<slots, varOf, rep, bound, provenance, work, equation, because, silent,
                     agreed>>
      /\ outcome' = "none"
  BY DEF Snapshot, table
<1>2. saved' \in Snapshots
  BY <1>1 DEF TypeOK, Snapshots
<1>3. TypeOK'
  BY <1>1, <1>2 DEF TypeOK, CallOK, Idle, NoEquation
<1>4. Len(varOf) = n /\ Len(bound) = n /\ n \in Nat /\ varOf \in Seq(Var)
      /\ DOMAIN rep = 1..n /\ DOMAIN bound = 1..n
  BY KeyFacts DEF TableInv, TypeOK, KeysMatch
<1>5. SubSeq(varOf, 1, n) = varOf
  BY <1>4
<1>6. SetOf(SubSeq(varOf', 1, saved'.keys)) = Live
  BY <1>1, <1>4, <1>5 DEF Live
<1>7. /\ saved'.rep = rep /\ saved'.bound = bound /\ saved'.keys = n
      /\ saved'.provenance = Len(provenance) /\ Len(provenance) \in Nat
  BY <1>1, <1>4 DEF TypeOK
<1>8. SnapshotIsOlder'
  <2>1. n <= n /\ Len(provenance) <= Len(provenance)
    BY <1>4, <1>7
  <2>2. \A k \in 1..n : bound[k] # NoTy => ~IsVar(bound[k]) /\ VarsOf[bound[k]] \subseteq Live
    BY <1>4 DEF TableInv, BoundToHeads, NothingDangles, Known
  <2>3. \A k \in 1..n : rep[k] \in 1..n /\ rep[rep[k]] = rep[k]
    BY <1>4 DEF TableInv, KeysMatch
  <2>4. QED
    BY <1>1, <1>4, <1>6, <1>7, <2>1, <2>2, <2>3 DEF SnapshotIsOlder
<1>9. KeysMatch' /\ BoundToHeads' /\ NothingDangles'
  BY <1>1 DEF TableInv, KeysMatch, BoundToHeads, NothingDangles, Known, Live, SetOf
<1>10. \A t \in Ty : Parts(t)' = Parts(t)
  BY <1>1 DEF Parts, Binding, Key, Live, SetOf
<1>11. QED
  BY <1>3, <1>8, <1>9, <1>10, FewerParts DEF TableInv

LEMMA RollbackStep ==
  ASSUME TypeOK, TableInv, Rollback
  PROVE  TypeOK' /\ TableInv'
<1> DEFINE m == saved.keys
<1>1. /\ rep' = saved.rep /\ bound' = saved.bound /\ varOf' = SubSeq(varOf, 1, m)
      /\ provenance' = SubSeq(provenance, 1, saved.provenance) /\ silent' = saved.silent
      /\ agreed' = saved.agreed /\ saved' = NoSnapshot /\ outcome' = "none"
      /\ UNCHANGED <<slots, work, equation, because>> /\ Trying
  BY DEF Rollback, BoundAfter, KeysAfter
<1>2. /\ saved.rep \in Seq(Nat) /\ saved.bound \in Seq(Ty \cup {NoTy})
      /\ saved.provenance \in Nat /\ m \in Nat /\ saved.silent \subseteq Var
      /\ saved.agreed \subseteq Ty \X Ty
  BY <1>1 DEF TypeOK, Trying, Snapshots
<1>3. /\ Len(saved.rep) = m /\ Len(saved.bound) = m /\ m <= Len(rep)
      /\ saved.provenance <= Len(provenance)
      /\ \A k \in 1..m : /\ saved.rep[k] \in 1..m /\ saved.rep[saved.rep[k]] = saved.rep[k]
                         /\ saved.bound[k] # NoTy =>
                              /\ ~IsVar(saved.bound[k])
                              /\ VarsOf[saved.bound[k]] \subseteq SetOf(SubSeq(varOf, 1, m))
                         /\ saved.bound[saved.rep[k]] # NoTy =>
                              bound[rep[k]] = saved.bound[saved.rep[k]]
  BY <1>1 DEF TableInv, SnapshotIsOlder
<1>4. /\ Len(varOf) = Len(rep) /\ Len(rep) \in Nat /\ DOMAIN varOf = 1..Len(rep)
      /\ varOf \in Seq(Var)
  BY KeyFacts DEF TableInv, KeysMatch, TypeOK
<1>5. /\ varOf' \in Seq(Var) /\ Len(varOf') = m /\ DOMAIN varOf' = 1..m
      /\ \A k \in 1..m : k \in DOMAIN varOf /\ varOf'[k] = varOf[k]
  BY <1>1, <1>2, <1>3, <1>4
<1>6. provenance' \in Seq(Var)
  BY <1>1, <1>2, <1>3 DEF TypeOK
<1>7. TypeOK'
  BY <1>1, <1>2, <1>3, <1>5, <1>6 DEF TypeOK, CallOK, Idle, NoEquation
<1>8. DOMAIN rep' = 1..m /\ DOMAIN bound' = 1..m /\ Len(rep') = m
  BY <1>1, <1>2, <1>3
<1>9. KeysMatch'
  <2>1. Len(varOf') = Len(rep')
    BY <1>5, <1>8
  <2>2. \A k \in DOMAIN varOf' : varOf'[k] \in DOMAIN slots' /\ slots'[varOf'[k]] = k
    BY <1>1, <1>5 DEF TableInv, KeysMatch
  <2>3. \A k \in DOMAIN rep' : rep'[k] \in DOMAIN rep' /\ rep'[rep'[k]] = rep'[k]
    BY <1>1, <1>3, <1>8
  <2>4. QED
    BY <2>1, <2>2, <2>3 DEF KeysMatch
<1>10. Live' = SetOf(SubSeq(varOf, 1, m)) /\ Live' \subseteq Live
  BY <1>1, <1>5 DEF Live, SetOf
<1>11. BoundToHeads'
  BY <1>1, <1>3, <1>8 DEF BoundToHeads
<1>12. NothingDangles'
  <2> SUFFICES ASSUME NEW k \in 1..m, bound'[k] # NoTy PROVE bound'[k] \in Known'
    BY <1>8 DEF NothingDangles
  <2>1. bound'[k] \in Ty
    BY <1>7, <1>8 DEF TypeOK
  <2>2. QED
    BY <1>1, <1>3, <1>10, <2>1 DEF Known
<1>13. NoInfiniteType'
  <2>1. \A v \in Live' : bound'[Key(v)'] # NoTy => v \in Live /\ bound[Key(v)] = bound'[Key(v)']
    <3> SUFFICES ASSUME NEW v \in Live', bound'[Key(v)'] # NoTy
                 PROVE  bound[Key(v)] = bound'[Key(v)']
      BY <1>10
    <3>1. PICK k \in 1..m : varOf'[k] = v
      BY <1>5 DEF Live, SetOf
    <3>2. slots[v] = k
      BY <1>5, <3>1 DEF TableInv, KeysMatch
    <3>3. Key(v) = rep[k] /\ Key(v)' = saved.rep[k]
      BY <1>1, <3>2 DEF Key
    <3>4. QED
      BY <1>1, <1>3, <3>3
  <2>2. \A t \in Ty : Parts(t)' \subseteq Parts(t)
    BY <2>1 DEF Parts, Binding
  <2>3. QED
    BY <2>2, FewerParts DEF TableInv
<1>14. QED
  BY <1>1, <1>7, <1>9, <1>11, <1>12, <1>13 DEF TableInv, SnapshotIsOlder, Trying
-----------------------------------------------------------------------------
(* The steps that leave the table alone.                                      *)
LEMMA SameTable ==
  ASSUME TableInv, UNCHANGED <<slots, varOf, rep, bound, provenance>>,
         saved' \in {saved, NoSnapshot}
  PROVE  TableInv' /\ Known' = Known
<1>1. Live' = Live /\ Known' = Known
  BY DEF Live, SetOf, Known
<1>2. KeysMatch' /\ BoundToHeads' /\ NothingDangles'
  BY <1>1 DEF TableInv, KeysMatch, BoundToHeads, NothingDangles
<1>3. SnapshotIsOlder'
  <2>1. CASE saved' = saved
    BY <2>1 DEF TableInv, SnapshotIsOlder, Trying
  <2>2. CASE saved' = NoSnapshot
    BY <2>2 DEF SnapshotIsOlder, Trying
  <2>3. QED
    BY <2>1, <2>2
<1>4. \A t \in Ty : Parts(t)' = Parts(t)
  BY <1>1 DEF Parts, Binding, Key
<1>5. QED
  BY <1>1, <1>2, <1>3, <1>4, FewerParts DEF TableInv

(* The pair of types the next call of unify_impl is about.                    *)
LEMMA HeadFacts ==
  ASSUME TypeOK, TableInv, WorkIsKnown, ~Idle
  PROVE  /\ First \in Known /\ Second \in Known
         /\ IsVar(First) => /\ Kind[First].var \in Live
                            /\ bound[Key(Kind[First].var)] = NoTy
         /\ IsVar(Second) => /\ Kind[Second].var \in Live
                             /\ bound[Key(Kind[Second].var)] = NoTy
         /\ Tail(work) \in Seq(Known \X Known)
<1>1. work \in Seq(Known \X Known) /\ work # << >>
  BY DEF WorkIsKnown, Idle
<1>2. Head(work) \in Known \X Known /\ Tail(work) \in Seq(Known \X Known)
  BY <1>1
<1>3. Head(work)[1] \in Known /\ Head(work)[2] \in Known
  BY <1>2
<1>4. QED
  BY <1>2, <1>3, ResolveFacts DEF First, Second, TableInv

(* Recording a reason only adds to what is recorded.                          *)
LEMMA RecordFacts ==
  ASSUME TypeOK, NEW v \in Var, Record(v)
  PROVE  /\ provenance' \in Seq(Var) /\ silent' \subseteq Var
         /\ Len(provenance') \in Nat /\ Len(provenance') >= Len(provenance)
<1>1. provenance \in Seq(Var) /\ silent \subseteq Var
  BY DEF TypeOK
<1>2. CASE because
  <2>1. provenance' = Append(provenance, v) /\ silent' = silent
    BY <1>2 DEF Record
  <2>2. QED
    BY <1>1, <2>1
<1>3. CASE ~because
  <2>1. provenance' = provenance /\ silent' = silent \cup {v}
    BY <1>3 DEF Record
  <2>2. QED
    BY <1>1, <2>1
<1>4. QED
  BY <1>2, <1>3

(* Types at hand are types.                                                   *)
LEMMA WorkIsTyped ==
  ASSUME NEW s \in Seq(Known \X Known)
  PROVE  s \in Seq(Ty \X Ty)
<1>1. Known \subseteq Ty
  BY DEF Known
<1>2. QED
  BY <1>1

LEMMA ZipFacts ==
  ASSUME NEW s1 \in Seq(Known), NEW s2 \in Seq(Known)
  PROVE  Zip(s1, s2) \in Seq(Known \X Known)
<1> DEFINE n == IF Len(s1) < Len(s2) THEN Len(s1) ELSE Len(s2)
<1>1. n \in Nat /\ \A i \in 1..n : s1[i] \in Known /\ s2[i] \in Known
  OBVIOUS
<1>2. Zip(s1, s2) = [i \in 1..n |-> <<s1[i], s2[i]>>]
  BY DEF Zip
<1> HIDE DEF n
<1>3. QED
  BY <1>1, <1>2
-----------------------------------------------------------------------------
(* What a step of unification leaves as it is, and what it may leave to do.   *)
Answering ==
  /\ because' \in BOOLEAN /\ outcome' \in {"none", "ok", "err"}
  /\ agreed' \subseteq Ty \X Ty
  /\ CallOK'

LEMMA ContinueFacts ==
  ASSUME TypeOK, ~Idle, NEW pairs, Continue(pairs)
  PROVE  work' = pairs /\ Answering
<1>1. because \in BOOLEAN /\ outcome \in {"none", "ok", "err"} /\ agreed \subseteq Ty \X Ty
      /\ equation \in Ty \X Ty /\ outcome = "none"
  BY DEF TypeOK, CallOK
<1>2. CASE pairs = << >>
  <2>1. /\ work' = << >> /\ equation' = NoEquation /\ because' = FALSE /\ outcome' = "ok"
        /\ agreed' = agreed \cup {equation}
    BY <1>2 DEF Continue, Return
  <2>2. because' \in BOOLEAN
    BY <2>1
  <2>3. QED
    BY <1>1, <1>2, <2>1, <2>2 DEF Answering, CallOK, Idle, NoEquation
<1>3. CASE pairs # << >>
  <2>1. /\ work' = pairs /\ equation' = equation /\ because' = because
        /\ outcome' = outcome /\ agreed' = agreed
    BY <1>3 DEF Continue
  <2>2. because' \in BOOLEAN
    BY <1>1, <2>1
  <2>3. QED
    BY <1>1, <1>3, <2>1, <2>2 DEF Answering, CallOK, Idle
<1>4. QED
  BY <1>2, <1>3

LEMMA FailFacts ==
  ASSUME TypeOK, Fail
  PROVE  /\ work' = << >> /\ outcome' = "err" /\ agreed' = agreed
         /\ Answering
<1>1. /\ work' = << >> /\ equation' = NoEquation /\ because' = FALSE /\ outcome' = "err"
      /\ agreed' = agreed
  BY DEF Fail, Return
<1>2. because' \in BOOLEAN
  BY <1>1
<1>3. QED
  BY <1>1, <1>2 DEF Answering, CallOK, Idle, NoEquation, TypeOK

LEMMA UnifyStepType ==
  ASSUME TypeOK, UNCHANGED <<slots, varOf, saved>>,
         rep' \in Seq(Nat), bound' \in Seq(Ty \cup {NoTy}), Len(bound') = Len(rep'),
         provenance' \in Seq(Var), silent' \subseteq Var,
         work' \in Seq(Ty \X Ty), Answering
  PROVE  TypeOK'
<1>1. because' \in BOOLEAN
  BY DEF Answering
<1>2. saved' \in Snapshots \cup {NoSnapshot}
  BY DEF TypeOK, Snapshots
<1>3. QED
  BY <1>1, <1>2 DEF TypeOK, Answering

LEMMA UnifyVarsStep ==
  ASSUME TypeOK, TableInv, WorkIsKnown, UnifyVars
  PROVE  TypeOK' /\ TableInv' /\ WorkIsKnown'
<1> SUFFICES ASSUME NEW v, NEW w, v = Kind[First].var, w = Kind[Second].var
             PROVE  TypeOK' /\ TableInv' /\ WorkIsKnown'
  OBVIOUS
<1>1. /\ v \in Live /\ bound[Key(v)] = NoTy /\ w \in Live /\ bound[Key(w)] = NoTy
      /\ Tail(work) \in Seq(Known \X Known) /\ v \in Var
  BY HeadFacts, KeyFacts DEF UnifyVars, TableInv
<1>2. /\ UNCHANGED <<slots, varOf, bound, saved>>
      /\ work' = Tail(work) /\ Answering
      /\ IF Key(v) # Key(w) THEN rep' = United(Key(v), Key(w)) /\ Record(v)
                            ELSE UNCHANGED <<rep, provenance, silent>>
  BY ContinueFacts DEF UnifyVars
<1>3. /\ provenance' \in Seq(Var) /\ silent' \subseteq Var
      /\ Len(provenance') \in Nat /\ Len(provenance') >= Len(provenance)
  <2>1. CASE Key(v) # Key(w)
    BY <1>1, <1>2, <2>1, RecordFacts
  <2>2. CASE Key(v) = Key(w)
    BY <1>2, <2>2 DEF TypeOK
  <2>3. QED
    BY <2>1, <2>2
<1>4. TableInv'
  <2>1. CASE Key(v) # Key(w)
    BY <1>1, <1>2, <1>3, <2>1, UnionStep
  <2>2. CASE Key(v) = Key(w)
    BY <1>2, <2>2, SameTable
  <2>3. QED
    BY <2>1, <2>2
<1>5. Known' = Known
  BY <1>2 DEF Known, Live, SetOf
<1>6. WorkIsKnown' /\ work' \in Seq(Ty \X Ty)
  BY <1>1, <1>2, <1>5, WorkIsTyped DEF WorkIsKnown
<1>7. rep' \in Seq(Nat) /\ Len(rep') = Len(rep)
  <2>1. CASE Key(v) # Key(w)
    <3>1. rep' = [k \in DOMAIN rep |->
                    IF rep[k] \in {Key(v), Key(w)} THEN UnionRoot(Key(v), Key(w)) ELSE rep[k]]
      BY <1>2, <2>1 DEF United
    <3>2. UnionRoot(Key(v), Key(w)) \in Nat
      BY <1>1, KeyFacts DEF UnionRoot, TableInv
    <3>3. rep \in Seq(Nat)
      BY DEF TypeOK
    <3>4. QED
      BY <3>1, <3>2, <3>3, SMTT(30)
  <2>2. CASE Key(v) = Key(w)
    BY <1>2, <2>2 DEF TypeOK
  <2>3. QED
    BY <2>1, <2>2
<1>8. TypeOK'
  <2>1. bound' \in Seq(Ty \cup {NoTy}) /\ Len(bound') = Len(rep')
    BY <1>2, <1>7 DEF TypeOK
  <2>2. QED
    BY <1>2, <1>3, <1>6, <1>7, <2>1, UnifyStepType
<1>9. QED
  BY <1>4, <1>6, <1>8

LEMMA BindOrFailStep ==
  ASSUME TypeOK, TableInv, WorkIsKnown, Tail(work) \in Seq(Known \X Known),
         ~Idle, NEW t, NEW u \in Known, BindOrFail(t, u),
         Kind[t].var \in Live, bound[Key(Kind[t].var)] = NoTy
  PROVE  TypeOK' /\ TableInv' /\ WorkIsKnown'
<1> SUFFICES ASSUME NEW v, v = Kind[t].var
             PROVE  TypeOK' /\ TableInv' /\ WorkIsKnown'
  OBVIOUS
<1>1. /\ UNCHANGED <<slots, varOf, rep, saved>> /\ ~IsVar(u)
      /\ v \in Live /\ bound[Key(v)] = NoTy /\ v \in Var
      /\ Key(v) \in 1..Len(rep) /\ DOMAIN bound = 1..Len(rep)
      /\ bound \in Seq(Ty \cup {NoTy}) /\ Len(bound) = Len(rep) /\ rep \in Seq(Nat)
  BY KeyFacts DEF BindOrFail, TableInv, TypeOK
<1>2. Known' = Known
  BY <1>1 DEF Known, Live, SetOf
<1>3. CASE Occurs(v, u)
  <2>1. /\ work' = << >> /\ Answering
        /\ UNCHANGED <<bound, provenance, silent>>
    BY <1>3, FailFacts DEF BindOrFail
  <2>2. work' \in Seq(Known' \X Known') /\ work' \in Seq(Ty \X Ty)
    BY <2>1
  <2>3. provenance' \in Seq(Var) /\ silent' \subseteq Var
    BY <2>1 DEF TypeOK
  <2>4. TypeOK'
    BY <1>1, <2>1, <2>2, <2>3, UnifyStepType
  <2>5. QED
    BY <1>1, <2>1, <2>2, <2>4, SameTable DEF WorkIsKnown
<1>4. CASE ~Occurs(v, u)
  <2>1. /\ bound' = [bound EXCEPT ![Key(v)] = u]
        /\ Record(v) /\ work' = Tail(work) /\ Answering
    BY <1>4, ContinueFacts DEF BindOrFail
  <2>2. /\ provenance' \in Seq(Var) /\ silent' \subseteq Var
        /\ Len(provenance') \in Nat /\ Len(provenance') >= Len(provenance)
    BY <1>1, <2>1, RecordFacts
  <2>3. TableInv'
    BY <1>1, <1>4, <2>1, <2>2, BindStep
  <2>4. WorkIsKnown' /\ work' \in Seq(Ty \X Ty)
    BY <1>2, <2>1, WorkIsTyped DEF WorkIsKnown
  <2>5. bound' \in Seq(Ty \cup {NoTy}) /\ Len(bound') = Len(rep)
    <3>1. u \in Ty \cup {NoTy}
      BY DEF Known
    <3>2. QED
      BY <1>1, <2>1, <3>1
  <2>6. TypeOK'
    BY <1>1, <2>1, <2>2, <2>4, <2>5, UnifyStepType
  <2>7. QED
    BY <2>3, <2>4, <2>6
<1>5. QED
  BY <1>3, <1>4

LEMMA UnifyHeadsStep ==
  ASSUME TypeOK, TableInv, WorkIsKnown, UnifyHeads
  PROVE  TypeOK' /\ TableInv' /\ WorkIsKnown'
<1>1. /\ UNCHANGED <<slots, varOf, rep, bound, provenance, saved, silent>>
      /\ ~Idle
  BY DEF UnifyHeads, table
<1>2. TableInv' /\ Known' = Known
  BY <1>1, SameTable
<1>3. First \in Known /\ Second \in Known /\ Tail(work) \in Seq(Known \X Known)
  BY <1>1, HeadFacts
<1>4. Zip(Kind[First].args, Kind[Second].args) \in Seq(Known \X Known)
  BY <1>3, KnownArgs, ZipFacts
<1>5. /\ work' \in {Tail(work), << >>,
                    Zip(Kind[First].args, Kind[Second].args) \o Tail(work)}
      /\ Answering
  BY <1>1, ContinueFacts, FailFacts DEF UnifyHeads
<1>6. work' \in Seq(Known \X Known)
  <2>1. Zip(Kind[First].args, Kind[Second].args) \o Tail(work) \in Seq(Known \X Known)
    BY <1>3, <1>4
  <2>2. << >> \in Seq(Known \X Known)
    OBVIOUS
  <2>3. QED
    BY <1>3, <1>5, <2>1, <2>2
<1>7. WorkIsKnown' /\ work' \in Seq(Ty \X Ty)
  BY <1>2, <1>6, WorkIsTyped DEF WorkIsKnown
<1>8. TypeOK'
  <2>1. /\ rep' \in Seq(Nat) /\ bound' \in Seq(Ty \cup {NoTy}) /\ Len(bound') = Len(rep')
        /\ provenance' \in Seq(Var) /\ silent' \subseteq Var
    BY <1>1 DEF TypeOK
  <2>2. QED
    BY <1>1, <1>5, <1>7, <2>1, UnifyStepType
<1>9. QED
  BY <1>2, <1>7, <1>8

(* A declared generic is made of nothing, so no variable occurs in it.        *)
LEMMA BindGenericStep ==
  ASSUME TypeOK, TableInv, WorkIsKnown, NEW v \in Var, NEW g \in Generics, BindGeneric(v, g)
  PROVE  TypeOK' /\ TableInv' /\ WorkIsKnown'
<1>1. /\ v \in Live /\ bound[Key(v)] = NoTy /\ bound' = [bound EXCEPT ![Key(v)] = g]
      /\ silent' = silent \cup {v}
      /\ UNCHANGED <<slots, varOf, rep, provenance, work, equation, because, outcome, saved,
                     agreed>>
  BY DEF BindGeneric
<1>2. g \in Ty /\ ~IsVar(g) /\ Kind[g].args = << >>
  BY CallsAssumption
<1>3. SetOf(Kind[g].args) = {}
  BY <1>2 DEF SetOf
<1>4. VarsOf[g] = {}
  <2>1. ArgsClosed({g})
    BY <1>3 DEF ArgsClosed
  <2>2. VarsOf[g] = {x \in Var : \A S \in SUBSET Ty : g \in S /\ ArgsClosed(S) =>
                                   \E u \in S : IsVar(u) /\ Kind[u].var = x}
    BY <1>2 DEF VarsOf
  <2>3. {g} \in SUBSET Ty /\ g \in {g}
    BY <1>2
  <2>4. ASSUME NEW x \in VarsOf[g] PROVE FALSE
    <3>1. \E u \in {g} : IsVar(u) /\ Kind[u].var = x
      BY <2>1, <2>2, <2>3
    <3>2. QED
      BY <1>2, <3>1
  <2>5. QED
    BY <2>4
<1>5. g \in Known
  BY <1>2, <1>4 DEF Known
<1>6. ~Occurs(v, g)
  <2>1. Closed({g}) /\ {g} \in SUBSET Ty
    BY <1>2, <1>3 DEF Closed, Parts
  <2>2. QED
    BY <1>2, <2>1 DEF Occurs
<1>7. Len(provenance') \in Nat /\ Len(provenance') >= Len(provenance)
  BY <1>1 DEF TypeOK
<1>8. TableInv'
  BY <1>1, <1>2, <1>5, <1>6, <1>7, BindStep
<1>9. WorkIsKnown'
  BY <1>1 DEF WorkIsKnown, Known, Live, SetOf
<1>10. TypeOK'
  <2>1. /\ bound \in Seq(Ty \cup {NoTy}) /\ Len(bound) = Len(rep)
        /\ rep' \in Seq(Nat) /\ provenance' \in Seq(Var) /\ silent' \subseteq Var
        /\ work' \in Seq(Ty \X Ty) /\ because \in BOOLEAN
    BY <1>1 DEF TypeOK
  <2>2. bound' \in Seq(Ty \cup {NoTy}) /\ Len(bound') = Len(rep')
    <3>1. Key(v) \in DOMAIN bound /\ g \in Ty \cup {NoTy}
      BY <1>1, <1>2, KeyFacts DEF TableInv
    <3>2. bound' = [bound EXCEPT ![Key(v)] = g] /\ rep' = rep
      BY <1>1
    <3>3. QED
      BY <2>1, <3>1, <3>2
  <2>3. because' \in BOOLEAN
    BY <1>1, <2>1
  <2>4. Answering
    BY <1>1, <2>3 DEF TypeOK, Answering, CallOK, Idle, NoEquation
  <2>5. QED
    BY <1>1, <2>1, <2>2, <2>4, UnifyStepType
<1>11. QED
  BY <1>8, <1>9, <1>10
-----------------------------------------------------------------------------
LEMMA InitIInv == Init => IInv
<1> SUFFICES ASSUME Init PROVE IInv
  OBVIOUS
<1>1. /\ slots = << >> /\ varOf = << >> /\ rep = << >> /\ bound = << >>
      /\ provenance = << >> /\ work = << >> /\ equation = NoEquation
      /\ because = FALSE /\ outcome = "none" /\ saved = NoSnapshot /\ silent = {}
      /\ agreed = {}
  BY DEF Init
<1>2. TypeOK
  <2>1. because \in BOOLEAN
    BY <1>1
  <2>2. QED
    BY <1>1, <2>1, VarsAssumption DEF TypeOK, CallOK, Idle
<1>3. KeysMatch /\ BoundToHeads /\ NothingDangles /\ SnapshotIsOlder
  BY <1>1 DEF KeysMatch, BoundToHeads, NothingDangles, SnapshotIsOlder, Trying
<1>4. WorkIsKnown
  BY <1>1 DEF WorkIsKnown
<1>5. NoInfiniteType
  <2> SUFFICES ASSUME NEW S \in (SUBSET Ty) \ {{}} PROVE \E t \in S : Parts(t) \cap S = {}
    BY DEF NoInfiniteType
  <2>0. S \in SUBSET Ty /\ S # {}
    OBVIOUS
  <2>1. PICK t \in S : SetOf(Kind[t].args) \cap S = {}
    <3>1. \A R \in SUBSET Ty : R # {} => \E t \in R : SetOf(Kind[t].args) \cap R = {}
      BY ArenaAssumption
    <3>2. QED
      BY <2>0, <3>1
  <2>2. Live = {}
    BY <1>1 DEF Live, SetOf
  <2>3. Parts(t) \subseteq SetOf(Kind[t].args)
    BY <2>2 DEF Parts
  <2>4. QED
    BY <2>1, <2>3
<1>6. QED
  BY <1>2, <1>3, <1>4, <1>5 DEF IInv

LEMMA StepIInv == IInv /\ [Next]_vars => IInv'
<1> SUFFICES ASSUME IInv, [Next]_vars PROVE TypeOK' /\ TableInv' /\ WorkIsKnown'
  BY DEF IInv, TableInv
<1>0. TypeOK /\ TableInv /\ WorkIsKnown
  BY DEF IInv, TableInv
<1>1. CASE FreshVar
  <2>1. TypeOK' /\ TableInv'
    BY <1>0, <1>1, FreshStep
  <2>2. work' = << >>
    BY <1>1 DEF FreshVar, Proceeding, Idle
  <2>3. QED
    BY <2>1, <2>2 DEF WorkIsKnown
<1>2. ASSUME NEW t1 \in Ty, NEW t2 \in Ty, NEW reason \in BOOLEAN, Unify(t1, t2, reason)
      PROVE  TypeOK' /\ TableInv' /\ WorkIsKnown'
  <2>1. /\ UNCHANGED <<slots, varOf, rep, bound, provenance, saved, silent, agreed>>
        /\ t1 \in Known /\ t2 \in Known /\ work' = << <<t1, t2>> >>
        /\ equation' = <<t1, t2>> /\ outcome' = "none"
    BY <1>2 DEF Unify, table
  <2>2. because' \in BOOLEAN
    BY <1>2 DEF Unify
  <2>3. TableInv' /\ Known' = Known
    BY <1>0, <2>1, SameTable
  <2>4. WorkIsKnown'
    BY <2>1, <2>3 DEF WorkIsKnown
  <2>5. saved' \in Snapshots \cup {NoSnapshot}
    BY <1>0, <2>1 DEF TypeOK, Snapshots
  <2>6. TypeOK'
    <3>1. t1 \in Ty /\ t2 \in Ty /\ ~Idle'
      BY <2>1 DEF Idle
    <3>2. QED
      BY <1>0, <2>1, <2>2, <2>5, <3>1 DEF TypeOK, CallOK
  <2>7. QED
    BY <2>3, <2>4, <2>6
<1>3. CASE UnifyVars
  BY <1>0, <1>3, UnifyVarsStep
<1>4. CASE BindVar
  <2>1. ~Idle /\ (BindOrFail(First, Second) \/ BindOrFail(Second, First))
    BY <1>4 DEF BindVar
  <2>2. /\ First \in Known /\ Second \in Known
        /\ IsVar(First) => Kind[First].var \in Live /\ bound[Key(Kind[First].var)] = NoTy
        /\ IsVar(Second) => Kind[Second].var \in Live /\ bound[Key(Kind[Second].var)] = NoTy
        /\ Tail(work) \in Seq(Known \X Known)
    BY <1>0, <2>1, HeadFacts
  <2>3. CASE BindOrFail(First, Second)
    <3>1. IsVar(First)
      BY <2>3 DEF BindOrFail
    <3>2. QED
      BY <1>0, <2>1, <2>2, <2>3, <3>1, BindOrFailStep
  <2>4. CASE BindOrFail(Second, First)
    <3>1. IsVar(Second)
      BY <2>4 DEF BindOrFail
    <3>2. QED
      BY <1>0, <2>1, <2>2, <2>4, <3>1, BindOrFailStep
  <2>5. QED
    BY <2>1, <2>3, <2>4
<1>5. CASE UnifyHeads
  BY <1>0, <1>5, UnifyHeadsStep
<1>6. ASSUME NEW v \in Var, NEW g \in Generics, BindGeneric(v, g)
      PROVE  TypeOK' /\ TableInv' /\ WorkIsKnown'
  BY <1>0, <1>6, BindGenericStep
<1>7. CASE Snapshot
  <2>1. TypeOK' /\ TableInv'
    BY <1>0, <1>7, SnapshotStep
  <2>2. work' = << >>
    BY <1>7 DEF Snapshot, Idle
  <2>3. QED
    BY <2>1, <2>2 DEF WorkIsKnown
<1>8. CASE Commit
  <2>1. /\ UNCHANGED <<slots, varOf, rep, bound, provenance, work, equation, because, outcome,
                       silent, agreed>>
        /\ saved' = NoSnapshot
    BY <1>8 DEF Commit, table
  <2>2. TableInv' /\ Known' = Known
    BY <1>0, <2>1, SameTable
  <2>3. because' \in BOOLEAN
    BY <1>0, <2>1 DEF TypeOK
  <2>4. TypeOK' /\ WorkIsKnown'
    BY <1>0, <2>1, <2>2, <2>3 DEF TypeOK, WorkIsKnown, CallOK, Idle, NoEquation
  <2>5. QED
    BY <2>2, <2>4
<1>9. CASE Rollback
  <2>1. TypeOK' /\ TableInv'
    BY <1>0, <1>9, RollbackStep
  <2>2. work' = << >>
    BY <1>9 DEF Rollback, Idle
  <2>3. QED
    BY <2>1, <2>2 DEF WorkIsKnown
<1>10. CASE UNCHANGED vars
  <2>1. UNCHANGED <<slots, varOf, rep, bound, provenance, work, equation, because, outcome,
                    saved, silent, agreed>>
    BY <1>10 DEF vars
  <2>2. TableInv' /\ Known' = Known
    BY <1>0, <2>1, SameTable
  <2>3. because' \in BOOLEAN /\ saved' \in Snapshots \cup {NoSnapshot}
    BY <1>0, <2>1 DEF TypeOK, Snapshots
  <2>4. TypeOK' /\ WorkIsKnown'
    BY <1>0, <2>1, <2>2, <2>3 DEF TypeOK, WorkIsKnown, CallOK, Idle, NoEquation
  <2>5. QED
    BY <2>2, <2>4
<1>11. QED
  BY <1>1, <1>2, <1>3, <1>4, <1>5, <1>6, <1>7, <1>8, <1>9, <1>10 DEF Next, UnifyStep

(* The inductive invariant holds throughout: the table, its snapshot and the  *)
(* unification in progress fit together, whatever the checker unifies.        *)
THEOREM TableInvariance == Spec => []IInv
<1>1. Init => IInv
  BY InitIInv
<1>2. IInv /\ [Next]_vars => IInv'
  BY StepIInv
<1>3. QED
  BY <1>1, <1>2, PTL DEF Spec

(* The table and a unification in progress keep their shape.                  *)
THEOREM TableTyped == Spec => []TypeOK
<1>1. IInv => TypeOK
  BY DEF IInv
<1>2. QED
  BY <1>1, TableInvariance, PTL

(* The occurs check of unify is enough: no chain of bindings, unions, failed  *)
(* unifications and rollbacks ever makes a type infinite.                     *)
THEOREM NeverInfinite == Spec => []NoInfiniteType
<1>1. IInv => NoInfiniteType
  BY DEF IInv
<1>2. QED
  BY <1>1, TableInvariance, PTL

(* fresh_var's debug_assert, and that variables in use have keys of their     *)
(* own, survive every rollback.                                               *)
THEOREM KeysStayMatched == Spec => []KeysMatch
<1>1. IInv => KeysMatch
  BY DEF IInv
<1>2. QED
  BY <1>1, TableInvariance, PTL

(* A rollback takes every binding to a variable it takes back.                *)
THEOREM NeverDangling == Spec => []NothingDangles
<1>1. IInv => NothingDangles
  BY DEF IInv
<1>2. QED
  BY <1>1, TableInvariance, PTL
-----------------------------------------------------------------------------
(* What the variables in use are bound to, once they are.                     *)
Stands == \A v \in Live : bound[Key(v)] # NoTy => (bound[Key(v)])' = bound[Key(v)]

LEMMA StandsWhenBinding ==
  ASSUME TypeOK, KeysMatch, NEW w \in Live, NEW u, bound[Key(w)] = NoTy,
         bound' = [bound EXCEPT ![Key(w)] = u], UNCHANGED <<slots, rep>>
  PROVE  Stands
<1> SUFFICES ASSUME NEW v \in Live, bound[Key(v)] # NoTy
             PROVE  (bound[Key(v)])' = bound[Key(v)]
  BY DEF Stands
<1>1. Key(v)' = Key(v) /\ Key(v) \in DOMAIN bound /\ Key(v) # Key(w)
  BY KeyFacts DEF Key
<1>2. QED
  BY <1>1

LEMMA StandsWhenUniting ==
  ASSUME TypeOK, KeysMatch, NEW v \in Live, NEW w \in Live,
         bound[Key(v)] = NoTy, bound[Key(w)] = NoTy,
         rep' = United(Key(v), Key(w)), UNCHANGED <<slots, bound>>
  PROVE  Stands
<1> SUFFICES ASSUME NEW x \in Live, bound[Key(x)] # NoTy
             PROVE  (bound[Key(x)])' = bound[Key(x)]
  BY DEF Stands
<1>1. slots[x] \in DOMAIN rep /\ Key(x) \notin {Key(v), Key(w)}
  BY KeyFacts
<1>2. Key(x)' = Key(x)
  BY <1>1 DEF Key, United
<1>3. QED
  BY <1>2

LEMMA StandsStep ==
  ASSUME IInv, [Next]_vars, ~Rollback
  PROVE  Stands
<1>0. TypeOK /\ KeysMatch /\ TableInv /\ WorkIsKnown
  BY DEF IInv, TableInv
<1>same. ASSUME UNCHANGED <<slots, rep, bound>> PROVE Stands
  BY <1>same DEF Stands, Key
<1>1. CASE FreshVar
  <2> SUFFICES ASSUME NEW v \in Live, NEW n, NEW y, n = Len(rep), y = Len(slots) + 1
               PROVE  (bound[Key(v)])' = bound[Key(v)]
    BY DEF Stands
  <2>1. /\ rep' \in Seq(Nat) /\ \A k \in 1..n : rep'[k] = rep[k]
        /\ \A k \in 1..n : bound'[k] = bound[k]
        /\ \A x \in 1..(y - 1) : slots'[x] = slots[x]
        /\ DOMAIN slots = 1..(y - 1)
    BY <1>0, <1>1, FreshFacts
  <2>2. v \in 1..(y - 1) /\ slots[v] \in 1..n /\ Key(v) \in 1..n
    BY <1>0, <2>1, KeyFacts
  <2>3. Key(v)' = Key(v)
    BY <2>1, <2>2 DEF Key
  <2>4. QED
    BY <2>1, <2>2, <2>3
<1>2. CASE UnifyVars
  <2> SUFFICES ASSUME NEW v, NEW w, v = Kind[First].var, w = Kind[Second].var
               PROVE  Stands
    OBVIOUS
  <2>1. /\ v \in Live /\ bound[Key(v)] = NoTy /\ w \in Live /\ bound[Key(w)] = NoTy
        /\ UNCHANGED <<slots, bound>>
        /\ rep' = United(Key(v), Key(w)) \/ rep' = rep
    BY <1>0, <1>2, HeadFacts DEF UnifyVars
  <2>2. QED
    BY <1>0, <1>same, <2>1, StandsWhenUniting
<1>3. CASE BindVar
  <2>1. PICK t \in {First, Second}, u \in {First, Second} : ~Idle /\ BindOrFail(t, u)
    BY <1>3 DEF BindVar
  <2>2. IsVar(t) /\ UNCHANGED <<slots, rep>>
    BY <2>1 DEF BindOrFail
  <2>3. Kind[t].var \in Live /\ bound[Key(Kind[t].var)] = NoTy
    BY <1>0, <2>1, <2>2, HeadFacts
  <2>4. bound' = bound \/ bound' = [bound EXCEPT ![Key(Kind[t].var)] = u]
    BY <2>1 DEF BindOrFail
  <2>5. QED
    BY <1>0, <1>same, <2>2, <2>3, <2>4, StandsWhenBinding
<1>4. ASSUME NEW v \in Var, NEW g \in Generics, BindGeneric(v, g) PROVE Stands
  <2>1. /\ v \in Live /\ bound[Key(v)] = NoTy /\ bound' = [bound EXCEPT ![Key(v)] = g]
        /\ UNCHANGED <<slots, rep>>
    BY <1>4 DEF BindGeneric
  <2>2. QED
    BY <1>0, <2>1, StandsWhenBinding
<1>5. ASSUME NEW t1 \in Ty, NEW t2 \in Ty, NEW reason \in BOOLEAN, Unify(t1, t2, reason)
      PROVE  Stands
  BY <1>5, <1>same DEF Unify, table
<1>6. CASE UnifyHeads \/ Snapshot \/ Commit \/ UNCHANGED vars
  BY <1>6, <1>same DEF UnifyHeads, Snapshot, Commit, table, vars
<1>7. QED
  BY <1>1, <1>2, <1>3, <1>4, <1>5, <1>6 DEF Next, UnifyStep

(* What the checker has learnt of a variable it never unlearns, except by     *)
(* undoing the attempt to match an impl that taught it.                       *)
THEOREM BindingsAreFinal == Spec => BindingsStand
<1>1. IInv /\ [Next]_vars => (~Rollback => Stands)
  BY StandsStep
<1>2. [][~Rollback => Stands]_vars <=> BindingsStand
  BY PTL DEF BindingsStand, Stands
<1>3. QED
  BY <1>1, <1>2, TableInvariance, PTL DEF Spec
-----------------------------------------------------------------------------
(* What a unification leaves behind.                                         *)
(* A table explains its classes if whoever is bound or united has someone     *)
(* recorded in its class.  K has the class of each variable in use.           *)
Keyed(sl, rp, live) == [v \in live |-> rp[sl[v]]]
Told(K, bd, recorded) ==
  \A v \in DOMAIN K :
    bd[K[v]] # NoTy \/ (\E w \in DOMAIN K \ {v} : K[w] = K[v]) =>
      \E w \in recorded : w \in DOMAIN K /\ K[w] = K[v]

Recorded == SetOf(provenance) \cup silent

(* The table to go back to explains its classes too: provenance is cut back   *)
(* to where it was.                                                           *)
SavedLive == SetOf(SubSeq(varOf, 1, saved.keys))
SavedRecorded == SetOf(SubSeq(provenance, 1, saved.provenance)) \cup saved.silent
SavedTold == Trying => Told(Keyed(slots, saved.rep, SavedLive), saved.bound, SavedRecorded)

Reasoned ==
  /\ Told(Keyed(slots, rep, Live), bound, Recorded)
  /\ SavedTold

LEMMA ToldExplains == Told(Keyed(slots, rep, Live), bound, Recorded) <=> Explained
BY DEF Told, Keyed, Explained, Key, Recorded
-----------------------------------------------------------------------------
(* The steps on the classes and what is recorded of them.                     *)
LEMMA ToldMore ==
  ASSUME NEW K, NEW bd, NEW R1, NEW R2, R1 \subseteq R2, Told(K, bd, R1)
  PROVE  Told(K, bd, R2)
BY DEF Told

LEMMA ToldBinding ==
  ASSUME NEW K, NEW b1, NEW b2, NEW R1, NEW R2, Told(K, b1, R1), NEW v \in DOMAIN K,
         R1 \cup {v} \subseteq R2, \A x \in DOMAIN K : K[x] # K[v] => b2[K[x]] = b1[K[x]]
  PROVE  Told(K, b2, R2)
<1> SUFFICES ASSUME NEW x \in DOMAIN K,
                    b2[K[x]] # NoTy \/ (\E w \in DOMAIN K \ {x} : K[w] = K[x])
             PROVE  \E w \in R2 : w \in DOMAIN K /\ K[w] = K[x]
  BY DEF Told
<1>1. CASE K[x] = K[v]
  BY <1>1
<1>2. CASE K[x] # K[v]
  BY <1>2 DEF Told
<1> QED BY <1>1, <1>2

LEMMA ToldUniting ==
  ASSUME NEW K1, NEW K2, NEW bd, NEW R1, NEW R2, Told(K1, bd, R1), DOMAIN K2 = DOMAIN K1,
         NEW v \in DOMAIN K1, NEW w \in DOMAIN K1, R1 \cup {v} \subseteq R2,
         NEW r \in {K1[v], K1[w]},
         \A x \in DOMAIN K1 : K2[x] = IF K1[x] \in {K1[v], K1[w]} THEN r ELSE K1[x]
  PROVE  Told(K2, bd, R2)
<1> SUFFICES ASSUME NEW x \in DOMAIN K1,
                    bd[K2[x]] # NoTy \/ (\E y \in DOMAIN K1 \ {x} : K2[y] = K2[x])
             PROVE  \E y \in R2 : y \in DOMAIN K1 /\ K2[y] = K2[x]
  BY DEF Told
<1>1. CASE K1[x] \in {K1[v], K1[w]}
  BY <1>1
<1>2. CASE K1[x] \notin {K1[v], K1[w]}
  <2>1. K2[x] = K1[x] /\ \A y \in DOMAIN K1 : K2[y] = K2[x] <=> K1[y] = K1[x]
    BY <1>2
  <2>2. bd[K1[x]] # NoTy \/ (\E y \in DOMAIN K1 \ {x} : K1[y] = K1[x])
    BY <2>1
  <2>3. PICK y \in R1 : y \in DOMAIN K1 /\ K1[y] = K1[x]
    BY <2>2 DEF Told
  <2> QED BY <2>1, <2>3
<1> QED BY <1>1, <1>2

LEMMA ToldFresh ==
  ASSUME NEW K1, NEW K2, NEW b1, NEW b2, NEW R, Told(K1, b1, R),
         NEW x, x \notin DOMAIN K1, DOMAIN K2 = DOMAIN K1 \cup {x},
         \A v \in DOMAIN K1 : K2[v] = K1[v] /\ K1[v] # K2[x] /\ b2[K1[v]] = b1[K1[v]],
         b2[K2[x]] = NoTy
  PROVE  Told(K2, b2, R)
BY DEF Told

LEMMA Prefix ==
  ASSUME NEW S, NEW s \in Seq(S), NEW e \in S, NEW m \in Nat, m <= Len(s)
  PROVE  SubSeq(Append(s, e), 1, m) = SubSeq(s, 1, m)
OBVIOUS
-----------------------------------------------------------------------------
(* The parts of the saved table stay while an impl is tried.                  *)
LEMMA SavedStays ==
  ASSUME TypeOK, TableInv, SavedTold, saved' = saved,
         \/ UNCHANGED <<slots, varOf>>
         \/ FreshVar,
         \/ UNCHANGED provenance
         \/ \E v \in Var : provenance' = Append(provenance, v)
  PROVE  SavedTold'
<1> SUFFICES ASSUME Trying PROVE SavedTold'
  BY DEF SavedTold, Trying
<1> DEFINE m == saved.keys
           p == saved.provenance
<1>1. /\ m \in Nat /\ p \in Nat /\ m <= Len(rep) /\ p <= Len(provenance)
      /\ Len(varOf) = Len(rep) /\ varOf \in Seq(Var) /\ provenance \in Seq(Var)
  BY DEF TypeOK, Snapshots, Trying, TableInv, SnapshotIsOlder, KeysMatch
<1> HIDE DEF m, p
<1>2. SubSeq(provenance', 1, p) = SubSeq(provenance, 1, p)
  <2>1. CASE \E v \in Var : provenance' = Append(provenance, v)
    BY <1>1, <2>1, Prefix
  <2> QED BY <2>1
<1>3. SubSeq(varOf', 1, m) = SubSeq(varOf, 1, m)
  <2>1. CASE FreshVar
    <3>1. varOf' = Append(varOf, Len(slots) + 1) /\ Len(slots) + 1 \in Var
      <4>1. Len(slots) + 1 \in 1..Vars
        BY <2>1, VarsAssumption DEF FreshVar, TypeOK
      <4> QED BY <2>1, <4>1 DEF FreshVar, Var
    <3> QED BY <1>1, <3>1, Prefix
  <2>2. CASE UNCHANGED <<slots, varOf>>
    BY <2>2
  <2> QED BY <2>1, <2>2
<1>4. \A v \in SetOf(SubSeq(varOf, 1, m)) : v \in Live
  BY <1>1 DEF SetOf, Live
<1>5. \A v \in Live : slots'[v] = slots[v]
  <2>1. CASE FreshVar
    <3>1. \A v \in Live : v \in 1..Len(slots)
      BY KeyFacts DEF TableInv
    <3>2. slots' = Append(slots, Len(rep) + 1) /\ slots \in Seq(Nat)
      BY <2>1 DEF FreshVar, TypeOK
    <3> QED BY <3>1, <3>2
  <2> QED BY <2>1
<1>6. Keyed(slots', saved.rep, SetOf(SubSeq(varOf, 1, m)))
        = Keyed(slots, saved.rep, SetOf(SubSeq(varOf, 1, m)))
  BY <1>4, <1>5 DEF Keyed
<1> QED BY <1>2, <1>3, <1>6 DEF SavedTold, SavedLive, SavedRecorded, Trying, m, p

LEMMA RecordedFacts ==
  ASSUME TypeOK, NEW v \in Var, Record(v)
  PROVE  /\ Recorded \cup {v} \subseteq Recorded'
         /\ \/ UNCHANGED provenance
            \/ \E w \in Var : provenance' = Append(provenance, w)
<1>1. provenance \in Seq(Var)
  BY DEF TypeOK
<1>2. CASE because
  <2>1. provenance' = Append(provenance, v) /\ silent' = silent
    BY <1>2 DEF Record
  <2>2. SetOf(provenance) \cup {v} \subseteq SetOf(provenance')
    <3>1. /\ DOMAIN provenance' = 1..(Len(provenance) + 1)
          /\ provenance'[Len(provenance) + 1] = v
          /\ \A k \in 1..Len(provenance) : provenance'[k] = provenance[k]
      BY <1>1, <2>1, AppendFacts
    <3>2. Len(provenance) \in Nat /\ DOMAIN provenance = 1..Len(provenance)
      BY <1>1
    <3> QED BY <3>1, <3>2 DEF SetOf
  <2> QED BY <2>1, <2>2 DEF Recorded
<1>3. CASE ~because
  BY <1>3 DEF Record, Recorded
<1> QED BY <1>2, <1>3

LEMMA KeyedFacts ==
  /\ DOMAIN Keyed(slots, rep, Live) = Live
  /\ \A v \in Live : Keyed(slots, rep, Live)[v] = Key(v)
  /\ DOMAIN Keyed(slots, rep, Live)' = Live'
  /\ \A v \in Live' : Keyed(slots, rep, Live)'[v] = Key(v)'
BY DEF Keyed, Key

LEMMA ReasonedSame ==
  ASSUME Reasoned, UNCHANGED <<slots, varOf, rep, bound, provenance>>,
         silent' = silent, saved' \in {saved, NoSnapshot}
  PROVE  Reasoned'
<1>1. Told(Keyed(slots, rep, Live), bound, Recorded)'
  <2>1. Live' = Live /\ Recorded' = Recorded
    BY DEF Live, Recorded
  <2> QED BY <2>1 DEF Reasoned
<1>2. SavedTold'
  <2>1. CASE saved' = saved
    <3>1. SavedLive' = SavedLive /\ SavedRecorded' = SavedRecorded /\ Trying' = Trying
      BY <2>1 DEF SavedLive, SavedRecorded, Trying
    <3> QED BY <2>1, <3>1 DEF Reasoned, SavedTold
  <2>2. CASE saved' = NoSnapshot
    BY <2>2 DEF SavedTold, Trying
  <2> QED BY <2>1, <2>2
<1> QED BY <1>1, <1>2 DEF Reasoned

LEMMA ReasonedBind ==
  ASSUME TypeOK, TableInv, Reasoned, NEW v \in Live, NEW u,
         bound' = [bound EXCEPT ![Key(v)] = u], UNCHANGED <<slots, varOf, rep, saved>>,
         Recorded \cup {v} \subseteq Recorded',
         UNCHANGED provenance \/ \E w \in Var : provenance' = Append(provenance, w)
  PROVE  Reasoned'
<1> DEFINE K == Keyed(slots, rep, Live)
<1>1. Live' = Live /\ Keyed(slots, rep, Live)' = K
  BY DEF Live, Keyed
<1>2. DOMAIN K = Live /\ \A x \in Live : K[x] = Key(x)
  BY KeyedFacts
<1>3. Told(K, bound, Recorded)
  BY DEF Reasoned
<1> HIDE DEF K
<1>4. \A x \in DOMAIN K : K[x] # K[v] => bound'[K[x]] = bound[K[x]]
  <2> SUFFICES ASSUME NEW x \in Live, Key(x) # Key(v) PROVE bound'[Key(x)] = bound[Key(x)]
    BY <1>2
  <2>1. Key(x) \in DOMAIN bound
    BY KeyFacts DEF TableInv
  <2> QED BY <2>1
<1>5. Told(K, bound', Recorded')
  <2>1. PICK b1, b2, R1, R2 : b1 = bound /\ b2 = bound' /\ R1 = Recorded /\ R2 = Recorded'
    OBVIOUS
  <2>2. v \in DOMAIN K /\ \A x \in DOMAIN K : K[x] # K[v] => b2[K[x]] = b1[K[x]]
    BY <1>2, <1>4, <2>1
  <2>3. Told(K, b1, R1) /\ R1 \cup {v} \subseteq R2
    BY <1>3, <2>1
  <2>4. Told(K, b2, R2)
    BY <2>2, <2>3, ToldBinding, ZenonT(60)
  <2> QED BY <2>1, <2>4
<1>6. SavedTold'
  BY SavedStays DEF Reasoned
<1> QED BY <1>1, <1>5, <1>6 DEF Reasoned

LEMMA ReasonedUnite ==
  ASSUME TypeOK, TableInv, Reasoned, NEW v \in Live, NEW w \in Live,
         rep' = United(Key(v), Key(w)), UNCHANGED <<slots, varOf, bound, saved>>,
         Recorded \cup {v} \subseteq Recorded',
         UNCHANGED provenance \/ \E x \in Var : provenance' = Append(provenance, x)
  PROVE  Reasoned'
<1> DEFINE K1 == Keyed(slots, rep, Live)
           K2 == Keyed(slots', rep', Live')
           r == UnionRoot(Key(v), Key(w))
<1>1. Live' = Live
  BY DEF Live
<1>2. DOMAIN K1 = Live /\ \A x \in Live : K1[x] = Key(x)
  BY KeyedFacts
<1>3. DOMAIN K2 = Live /\ \A x \in Live : K2[x] = Key(x)'
  BY <1>1, KeyedFacts DEF Keyed, Key
<1>4. Told(K1, bound, Recorded)
  BY DEF Reasoned
<1> HIDE DEF K1
<1>5. r \in {K1[v], K1[w]}
  BY <1>2 DEF UnionRoot
<1>6. \A x \in Live : Key(x)' = IF Key(x) \in {Key(v), Key(w)} THEN r ELSE Key(x)
  BY KeyFacts DEF TableInv, United, Key
<1> HIDE DEF r
<1>7. Told(K2, bound, Recorded')
  <2> HIDE DEF K2
  <2>1. \A x \in DOMAIN K1 : K2[x] = IF K1[x] \in {K1[v], K1[w]} THEN r ELSE K1[x]
    BY <1>2, <1>3, <1>6
  <2> QED BY <1>2, <1>3, <1>4, <1>5, <2>1, ToldUniting
<1>8. SavedTold'
  BY SavedStays DEF Reasoned
<1> QED BY <1>7, <1>8 DEF Reasoned

LEMMA ReasonedFresh ==
  ASSUME TypeOK, TableInv, Reasoned, FreshVar
  PROVE  Reasoned'
<1> SUFFICES ASSUME NEW n, NEW x, n = Len(rep), x = Len(slots) + 1 PROVE Reasoned'
  OBVIOUS
<1> DEFINE K1 == Keyed(slots, rep, Live)
           K2 == Keyed(slots', rep', Live')
<1>0. UNCHANGED <<provenance, saved, silent>>
  BY DEF FreshVar
<1>1. /\ n \in Nat /\ x - 1 \in Nat /\ x \notin Live
      /\ DOMAIN varOf = 1..n /\ DOMAIN slots = 1..(x - 1)
      /\ rep'[n + 1] = n + 1 /\ \A k \in 1..n : rep'[k] = rep[k]
      /\ bound'[n + 1] = NoTy /\ \A k \in 1..n : bound'[k] = bound[k]
      /\ DOMAIN varOf' = 1..(n + 1) /\ varOf'[n + 1] = x /\ \A k \in 1..n : varOf'[k] = varOf[k]
      /\ slots'[x] = n + 1 /\ \A v \in 1..(x - 1) : slots'[v] = slots[v]
  BY FreshFacts
<1>2. Live' = Live \cup {x}
  <2>1. Live = {varOf[k] : k \in 1..n} /\ Live' = {varOf'[k] : k \in 1..(n + 1)}
    BY <1>1 DEF Live, SetOf
  <2>2. n + 1 \in 1..(n + 1) /\ \A k \in 1..(n + 1) : k \in 1..n \/ k = n + 1
    BY <1>1
  <2>3. \A k \in 1..n : k \in 1..(n + 1)
    BY <1>1
  <2> QED BY <1>1, <2>1, <2>2, <2>3
<1>3. \A v \in Live : /\ Key(v)' = Key(v) /\ bound'[Key(v)] = bound[Key(v)] /\ Key(v) # n + 1
  <2> SUFFICES ASSUME NEW v \in Live
               PROVE  Key(v)' = Key(v) /\ bound'[Key(v)] = bound[Key(v)] /\ Key(v) # n + 1
    OBVIOUS
  <2>1. v \in 1..(x - 1) /\ slots[v] \in 1..n /\ Key(v) \in 1..n
    BY <1>1, KeyFacts DEF TableInv
  <2>2. Key(v)' = Key(v)
    BY <1>1, <2>1 DEF Key
  <2> QED BY <1>1, <2>1, <2>2
<1>4. Key(x)' = n + 1
  BY <1>1 DEF Key
<1>5. /\ DOMAIN K1 = Live /\ \A v \in Live : K1[v] = Key(v)
      /\ DOMAIN K2 = Live' /\ \A v \in Live' : K2[v] = Key(v)'
  BY KeyedFacts DEF Keyed, Key
<1>6. Told(K1, bound, Recorded) /\ Recorded' = Recorded
  BY <1>0 DEF Reasoned, Recorded
<1>7. Told(K2, bound', Recorded')
  <2> HIDE DEF K1, K2
  <2>1. x \notin DOMAIN K1 /\ DOMAIN K2 = DOMAIN K1 \cup {x}
    BY <1>1, <1>2, <1>5
  <2>2. K2[x] = n + 1 /\ bound'[K2[x]] = NoTy
    BY <1>1, <1>2, <1>4, <1>5
  <2>3. \A v \in DOMAIN K1 : K2[v] = K1[v] /\ K1[v] # K2[x] /\ bound'[K1[v]] = bound[K1[v]]
    BY <1>2, <1>3, <1>5, <2>2
  <2> QED BY <1>6, <2>1, <2>2, <2>3, ToldFresh
<1>8. SavedTold'
  BY <1>0, SavedStays DEF Reasoned
<1> QED BY <1>7, <1>8 DEF Reasoned

LEMMA ReasonedSnapshot ==
  ASSUME TypeOK, TableInv, Reasoned, Snapshot
  PROVE  Reasoned'
<1>1. /\ saved' = [rep |-> rep, bound |-> bound, provenance |-> Len(provenance),
                   keys |-> Len(varOf), silent |-> silent, agreed |-> agreed]
      /\ UNCHANGED <<slots, varOf, rep, bound, provenance, silent>>
  BY DEF Snapshot, table
<1>2. SubSeq(varOf, 1, Len(varOf)) = varOf /\ SubSeq(provenance, 1, Len(provenance)) = provenance
  BY DEF TypeOK
<1>3. SavedLive' = Live /\ SavedRecorded' = Recorded
  BY <1>1, <1>2 DEF SavedLive, SavedRecorded, Recorded, Live, SetOf
<1>4. Told(Keyed(slots, rep, Live), bound, Recorded) /\ Live' = Live /\ Recorded' = Recorded
  BY <1>1 DEF Reasoned, Live, Recorded
<1>5. saved'.rep = rep /\ saved'.bound = bound
  BY <1>1
<1> QED BY <1>1, <1>3, <1>4, <1>5 DEF Reasoned, SavedTold

LEMMA ReasonedRollback ==
  ASSUME TypeOK, TableInv, Reasoned, Rollback
  PROVE  Reasoned'
<1>1. /\ rep' = saved.rep /\ bound' = saved.bound /\ varOf' = SubSeq(varOf, 1, saved.keys)
      /\ provenance' = SubSeq(provenance, 1, saved.provenance) /\ silent' = saved.silent
      /\ saved' = NoSnapshot /\ slots' = slots /\ Trying
  BY DEF Rollback, BoundAfter, KeysAfter
<1>2. Live' = SavedLive /\ Recorded' = SavedRecorded
  BY <1>1 DEF Live, SavedLive, Recorded, SavedRecorded
<1>3. Told(Keyed(slots, saved.rep, SavedLive), saved.bound, SavedRecorded)
  BY <1>1 DEF Reasoned, SavedTold
<1> QED BY <1>1, <1>2, <1>3 DEF Reasoned, SavedTold, Trying
-----------------------------------------------------------------------------
LEMMA StepReasoned == IInv /\ Reasoned /\ [Next]_vars => Reasoned'
<1> SUFFICES ASSUME IInv, Reasoned, [Next]_vars PROVE Reasoned'
  OBVIOUS
<1>0. TypeOK /\ KeysMatch /\ TableInv /\ WorkIsKnown
  BY DEF IInv, TableInv
<1>same. ASSUME UNCHANGED <<slots, varOf, rep, bound, provenance, silent>>, saved' \in {saved, NoSnapshot}
         PROVE  Reasoned'
  BY <1>same, ReasonedSame
<1>1. CASE FreshVar
  BY <1>0, <1>1, ReasonedFresh
<1>2. CASE UnifyVars
  <2> SUFFICES ASSUME NEW v, NEW w, v = Kind[First].var, w = Kind[Second].var
               PROVE  Reasoned'
    OBVIOUS
  <2>1. /\ v \in Live /\ w \in Live /\ v \in Var
        /\ UNCHANGED <<slots, varOf, bound, saved>>
        /\ \/ rep' = United(Key(v), Key(w)) /\ Record(v)
           \/ UNCHANGED <<rep, provenance, silent>>
    BY <1>0, <1>2, HeadFacts, KeyFacts DEF UnifyVars
  <2>2. CASE rep' = United(Key(v), Key(w)) /\ Record(v)
    BY <1>0, <2>1, <2>2, RecordedFacts, ReasonedUnite
  <2>3. CASE UNCHANGED <<rep, provenance, silent>>
    BY <1>same, <2>1, <2>3
  <2> QED BY <2>1, <2>2, <2>3
<1>3. CASE BindVar
  <2>1. PICK t \in {First, Second}, u \in {First, Second} : ~Idle /\ BindOrFail(t, u)
    BY <1>3 DEF BindVar
  <2> SUFFICES ASSUME NEW v, v = Kind[t].var PROVE Reasoned'
    OBVIOUS
  <2>2. /\ IsVar(t) /\ UNCHANGED <<slots, varOf, rep, saved>>
        /\ \/ bound' = [bound EXCEPT ![Key(v)] = u] /\ Record(v)
           \/ UNCHANGED <<bound, provenance, silent>>
    BY <2>1 DEF BindOrFail
  <2>3. v \in Live /\ v \in Var
    BY <1>0, <2>1, <2>2, HeadFacts, KeyFacts
  <2>4. CASE bound' = [bound EXCEPT ![Key(v)] = u] /\ Record(v)
    BY <1>0, <2>2, <2>3, <2>4, RecordedFacts, ReasonedBind
  <2>5. CASE UNCHANGED <<bound, provenance, silent>>
    BY <1>same, <2>2, <2>5
  <2> QED BY <2>2, <2>4, <2>5
<1>4. ASSUME NEW v \in Var, NEW g \in Generics, BindGeneric(v, g) PROVE Reasoned'
  <2>1. /\ v \in Live /\ bound' = [bound EXCEPT ![Key(v)] = g] /\ silent' = silent \cup {v}
        /\ UNCHANGED <<slots, varOf, rep, provenance, saved>>
    BY <1>4 DEF BindGeneric
  <2>2. Recorded \cup {v} \subseteq Recorded'
    BY <2>1 DEF Recorded
  <2> QED BY <1>0, <2>1, <2>2, ReasonedBind
<1>5. ASSUME NEW t1 \in Ty, NEW t2 \in Ty, NEW reason \in BOOLEAN, Unify(t1, t2, reason)
      PROVE  Reasoned'
  BY <1>5, <1>same DEF Unify, table
<1>6. CASE UnifyHeads \/ Commit \/ UNCHANGED vars
  BY <1>6, <1>same DEF UnifyHeads, Commit, table, vars
<1>7. CASE Snapshot
  BY <1>0, <1>7, ReasonedSnapshot
<1>8. CASE Rollback
  BY <1>0, <1>8, ReasonedRollback
<1> QED BY <1>1, <1>2, <1>3, <1>4, <1>5, <1>6, <1>7, <1>8 DEF Next, UnifyStep

(* A reason is recorded in the class of every variable that was bound or      *)
(* united with one, and rollbacks take reasons and what they explain back     *)
(* together (provenance, snapshot and rollback_to).                           *)
THEOREM EverythingExplained == Spec => []Explained
<1>1. Init => Reasoned
  <2> SUFFICES ASSUME Init PROVE Reasoned
    OBVIOUS
  <2>1. Live = {} /\ saved = NoSnapshot
    BY DEF Init, Live, SetOf
  <2>2. Explained
    BY <2>1 DEF Explained
  <2> QED BY <2>1, <2>2, ToldExplains DEF Reasoned, SavedTold, Trying
<1>2. IInv /\ Reasoned /\ [Next]_vars => Reasoned'
  BY StepReasoned
<1>3. Reasoned => Explained
  BY ToldExplains DEF Reasoned
<1> QED BY <1>1, <1>2, <1>3, TableInvariance, PTL DEF Spec
-----------------------------------------------------------------------------
(* What agreement needs: a relation whose pairs are alike up to itself, but   *)
(* for those still to be unified.                                             *)
Coherent(R, todo) ==
  /\ R \subseteq Known \X Known
  /\ \A t \in Known : <<t, t>> \in R
  /\ \A p \in R : p \in todo \/ p[1] = p[2] \/ Alike(R, p[1], p[2])
Relates(R) == Coherent(R, SetOf(work))

(* The same of any table, one to go back to for example.                      *)
ResolveIn(sl, rp, bd, t) ==
  IF IsVar(t) /\ bd[rp[sl[Kind[t].var]]] # NoTy THEN bd[rp[sl[Kind[t].var]]] ELSE t
AlikeIn(sl, rp, bd, R, t1, t2) ==
  LET k == Kind[ResolveIn(sl, rp, bd, t1)]
      l == Kind[ResolveIn(sl, rp, bd, t2)]
  IN  \/ {k.con, l.con} \cap Wildcards # {}
      \/ k.con = "Var" /\ l.con = "Var" /\ rp[sl[k.var]] = rp[sl[l.var]]
      \/ /\ k.con # "Var" /\ k.con = l.con
         /\ k.con \in FixedArity => Len(k.args) = Len(l.args)
         /\ \A i \in DOMAIN k.args \cap DOMAIN l.args : <<k.args[i], l.args[i]>> \in R
CoherentIn(sl, rp, bd, live, R) ==
  LET known == {t \in Ty : VarsOf[t] \subseteq live}
  IN  /\ R \subseteq known \X known
      /\ \A t \in known : <<t, t>> \in R
      /\ \A p \in R : p[1] = p[2] \/ AlikeIn(sl, rp, bd, R, p[1], p[2])

(* All that was unified agrees, in the table and in the one to go back to;    *)
(* what is being unified agrees once the rest of the work is done.            *)
SavedAgreement ==
  Trying => \E R : CoherentIn(slots, saved.rep, saved.bound, SavedLive, R) /\ saved.agreed \subseteq R
Agreement ==
  /\ \E R : Coherent(R, {}) /\ agreed \subseteq R
  /\ ~Idle => \E R : Relates(R) /\ equation \in R
  /\ SavedAgreement

LEMMA CoherentIs ==
  ASSUME NEW R
  PROVE  /\ Coherent(R, {}) <=> CoherentIn(slots, rep, bound, Live, R)
         /\ Coherent(R, {})' <=> CoherentIn(slots', rep', bound', Live', R)
<1>1. \A S, x, y : /\ Alike(S, x, y) <=> AlikeIn(slots, rep, bound, S, x, y)
                   /\ Alike(S, x, y)' <=> AlikeIn(slots', rep', bound', S, x, y)
  BY DEF Alike, AlikeIn, Resolve, ResolveIn, Binding, Key
<1> QED BY <1>1 DEF Coherent, CoherentIn, Known

LEMMA AlikeGrows ==
  ASSUME NEW R1, NEW R2, R1 \subseteq R2, NEW x, NEW y
  PROVE  /\ Alike(R1, x, y) => Alike(R2, x, y)
         /\ Alike(R1, x, y)' => Alike(R2, x, y)'
BY DEF Alike

(* What resolve returns for types at hand after a binding, and after a union. *)
LEMMA ResolveBound ==
  ASSUME TypeOK, TableInv, NEW v \in Live, NEW u \in Known, ~IsVar(u), bound[Key(v)] = NoTy,
         bound' = [bound EXCEPT ![Key(v)] = u], UNCHANGED <<slots, varOf, rep>>
  PROVE  /\ \A x \in Live : Key(x)' = Key(x)
         /\ \A t \in Known :
              Resolve(t)' = IF IsVar(Resolve(t)) /\ Key(Kind[Resolve(t)].var) = Key(v)
                            THEN u ELSE Resolve(t)
<1>1. \A x \in Live : Key(x)' = Key(x)
  BY DEF Key
<1>2. Key(v) \in DOMAIN bound /\ u # NoTy
  BY KeyFacts, ArenaAssumption DEF TableInv, Known
<1>3. \A k \in DOMAIN bound : bound'[k] = IF k = Key(v) THEN u ELSE bound[k]
  BY <1>2
<1> SUFFICES ASSUME NEW t \in Known
             PROVE  Resolve(t)' = IF IsVar(Resolve(t)) /\ Key(Kind[Resolve(t)].var) = Key(v)
                                  THEN u ELSE Resolve(t)
  BY <1>1
<1>4. CASE ~IsVar(t)
  BY <1>4 DEF Resolve
<1>5. CASE IsVar(t)
  <2>1. Kind[t].var \in Live
    BY <1>5, ArenaFacts DEF Known
  <2>2. Binding(t) = bound[Key(Kind[t].var)] /\ Binding(t)' = bound'[Key(Kind[t].var)]
    BY <1>1, <2>1 DEF Binding
  <2>3. Key(Kind[t].var) \in DOMAIN bound
    BY <2>1, KeyFacts DEF TableInv
  <2>4. CASE Binding(t) = NoTy
    <3>1. Resolve(t) = t
      BY <2>4 DEF Resolve
    <3>2. Binding(t)' = IF Key(Kind[t].var) = Key(v) THEN u ELSE NoTy
      BY <1>3, <2>2, <2>3, <2>4
    <3>3. Resolve(t)' = IF Binding(t)' # NoTy THEN Binding(t)' ELSE t
      BY <1>5 DEF Resolve
    <3> QED BY <1>2, <1>5, <3>1, <3>2, <3>3
  <2>5. CASE Binding(t) # NoTy
    <3>1. Resolve(t) = Binding(t) /\ ~IsVar(Binding(t))
      BY <1>5, <2>2, <2>3, <2>5 DEF Resolve, TableInv, BoundToHeads
    <3>2. Binding(t)' = Binding(t)
      BY <1>3, <2>2, <2>3, <2>5
    <3>3. Resolve(t)' = Binding(t)'
      BY <1>5, <2>5, <3>2 DEF Resolve
    <3> QED BY <3>1, <3>2, <3>3
  <2> QED BY <2>4, <2>5
<1> QED BY <1>4, <1>5

LEMMA ResolveUnited ==
  ASSUME TypeOK, TableInv, NEW v \in Live, NEW w \in Live,
         bound[Key(v)] = NoTy, bound[Key(w)] = NoTy,
         rep' = United(Key(v), Key(w)), UNCHANGED <<slots, varOf, bound>>
  PROVE  /\ \A x \in Live : Key(x)' = IF Key(x) \in {Key(v), Key(w)}
                                     THEN UnionRoot(Key(v), Key(w)) ELSE Key(x)
         /\ \A t \in Known : Resolve(t)' = Resolve(t)
<1>1. \A x \in Live : Key(x)' = IF Key(x) \in {Key(v), Key(w)}
                               THEN UnionRoot(Key(v), Key(w)) ELSE Key(x)
  BY KeyFacts DEF TableInv, United, Key
<1>2. UnionRoot(Key(v), Key(w)) \in {Key(v), Key(w)}
  BY DEF UnionRoot
<1>3. \A x \in Live : bound'[Key(x)'] = bound[Key(x)]
  BY <1>1, <1>2
<1> SUFFICES ASSUME NEW t \in Known PROVE Resolve(t)' = Resolve(t)
  BY <1>1
<1>4. CASE ~IsVar(t)
  BY <1>4 DEF Resolve
<1>5. CASE IsVar(t)
  <2>1. Kind[t].var \in Live
    BY <1>5, ArenaFacts DEF Known
  <2>2. Binding(t)' = Binding(t)
    BY <1>3, <2>1 DEF Binding
  <2> QED BY <2>2 DEF Resolve
<1> QED BY <1>4, <1>5

(* A type is alike itself.                                                    *)
LEMMA AlikeSame ==
  ASSUME NEW R, NEW x, NEW y, Resolve(x) = Resolve(y),
         \A i \in DOMAIN Kind[Resolve(x)].args :
           <<Kind[Resolve(x)].args[i], Kind[Resolve(x)].args[i]>> \in R
  PROVE  Alike(R, x, y)
BY DEF Alike

(* Pairs that were alike are alike after a binding, and after a union.        *)
LEMMA AlikeBound ==
  ASSUME TypeOK, TableInv, NEW v \in Live, NEW u \in Known, ~IsVar(u), bound[Key(v)] = NoTy,
         bound' = [bound EXCEPT ![Key(v)] = u], UNCHANGED <<slots, varOf, rep>>,
         NEW R, \A t \in Known : <<t, t>> \in R, NEW x \in Known, NEW y \in Known, Alike(R, x, y)
  PROVE  Alike(R, x, y)'
<1>1. /\ \A z \in Live : Key(z)' = Key(z)
      /\ \A t \in Known :
           Resolve(t)' = IF IsVar(Resolve(t)) /\ Key(Kind[Resolve(t)].var) = Key(v)
                         THEN u ELSE Resolve(t)
  BY ResolveBound
<1> DEFINE k == Kind[Resolve(x)]
           l == Kind[Resolve(y)]
<1>2. \A t : IsVar(t) <=> Kind[t].con = "Var"
  BY DEF IsVar
<1>3. /\ IsVar(Resolve(x)) => k.var \in Live
      /\ IsVar(Resolve(y)) => l.var \in Live
  BY ResolveFacts DEF TableInv
<1>4. CASE IsVar(Resolve(x)) /\ IsVar(Resolve(y))
  <2>1. Key(k.var) = Key(l.var)
    BY <1>4 DEF Alike, Wildcards, IsVar
  <2>2. CASE Key(k.var) = Key(v)
    <3>1. Resolve(x)' = u /\ Resolve(y)' = u
      BY <1>1, <1>4, <2>1, <2>2
    <3>2. \A i \in DOMAIN Kind[u].args : <<Kind[u].args[i], Kind[u].args[i]>> \in R
      BY KnownArgs
    <3> QED BY <3>1, <3>2 DEF Alike
  <2>3. CASE Key(k.var) # Key(v)
    <3>1. Resolve(x)' = Resolve(x) /\ Resolve(y)' = Resolve(y)
      BY <1>1, <1>4, <2>1, <2>3
    <3>2. Key(k.var)' = Key(l.var)'
      BY <1>1, <1>3, <1>4, <2>1, <3>1
    <3> QED BY <1>2, <1>4, <3>1, <3>2 DEF Alike
  <2> QED BY <2>2, <2>3
<1>5. CASE ~IsVar(Resolve(x)) /\ ~IsVar(Resolve(y))
  <2>1. Resolve(x)' = Resolve(x) /\ Resolve(y)' = Resolve(y)
    BY <1>1, <1>5
  <2> QED BY <1>5, <2>1 DEF Alike, IsVar
<1>6. CASE IsVar(Resolve(x)) /\ ~IsVar(Resolve(y))
  <2>1. l.con \in Wildcards
    BY <1>6 DEF Alike, IsVar, Wildcards
  <2>2. Resolve(y)' = Resolve(y)
    BY <1>1, <1>6
  <2> QED BY <2>1, <2>2 DEF Alike
<1>7. CASE ~IsVar(Resolve(x)) /\ IsVar(Resolve(y))
  <2>1. k.con \in Wildcards
    BY <1>7 DEF Alike, IsVar, Wildcards
  <2>2. Resolve(x)' = Resolve(x)
    BY <1>1, <1>7
  <2> QED BY <2>1, <2>2 DEF Alike
<1> QED BY <1>4, <1>5, <1>6, <1>7

LEMMA AlikeUnited ==
  ASSUME TypeOK, TableInv, NEW v \in Live, NEW w \in Live,
         bound[Key(v)] = NoTy, bound[Key(w)] = NoTy,
         rep' = United(Key(v), Key(w)), UNCHANGED <<slots, varOf, bound>>,
         NEW R, NEW x \in Known, NEW y \in Known, Alike(R, x, y)
  PROVE  Alike(R, x, y)'
<1>1. /\ \A z \in Live : Key(z)' = IF Key(z) \in {Key(v), Key(w)}
                                  THEN UnionRoot(Key(v), Key(w)) ELSE Key(z)
      /\ Resolve(x)' = Resolve(x) /\ Resolve(y)' = Resolve(y)
  BY ResolveUnited
<1>2. /\ IsVar(Resolve(x)) => Kind[Resolve(x)].var \in Live
      /\ IsVar(Resolve(y)) => Kind[Resolve(y)].var \in Live
  BY ResolveFacts DEF TableInv
<1>3. CASE /\ IsVar(Resolve(x)) /\ IsVar(Resolve(y))
           /\ Key(Kind[Resolve(x)].var) = Key(Kind[Resolve(y)].var)
  <2>1. Key(Kind[Resolve(x)].var)' = Key(Kind[Resolve(y)].var)'
    BY <1>1, <1>2, <1>3
  <2> QED BY <1>1, <1>3, <2>1 DEF Alike, IsVar
<1>4. CASE ~(/\ IsVar(Resolve(x)) /\ IsVar(Resolve(y))
             /\ Key(Kind[Resolve(x)].var) = Key(Kind[Resolve(y)].var))
  BY <1>1, <1>4 DEF Alike, IsVar
<1> QED BY <1>3, <1>4
-----------------------------------------------------------------------------
(* A step that keeps what is alike keeps what agrees.                         *)
LEMMA CoherentStays ==
  ASSUME NEW R, Coherent(R, {}), NEW R2, R \subseteq R2, R2 \subseteq Known' \X Known',
         \A t \in Known' : <<t, t>> \in R2, \A p \in R2 \ R : p[1] = p[2],
         \A x, y \in Known : Alike(R, x, y) => Alike(R, x, y)'
  PROVE  Coherent(R2, {})'
<1>1. ASSUME NEW p \in R2
      PROVE  p[1] = p[2] \/ Alike(R2, p[1], p[2])'
  <2>1. CASE p \in R
    <3>1. p[1] \in Known /\ p[2] \in Known
      BY <2>1 DEF Coherent
    <3>2. p[1] = p[2] \/ Alike(R, p[1], p[2])
      BY <2>1 DEF Coherent
    <3>3. Alike(R, p[1], p[2]) => Alike(R2, p[1], p[2])'
      BY <3>1, AlikeGrows
    <3> QED BY <3>2, <3>3
  <2> QED BY <2>1
<1> QED BY <1>1 DEF Coherent

LEMMA CoherentJoin ==
  ASSUME NEW R1, NEW R2, Coherent(R1, {})', Coherent(R2, {})'
  PROVE  Coherent(R1 \cup R2, {})'
<1>1. ASSUME NEW p \in R1 \cup R2
      PROVE  p[1] = p[2] \/ Alike(R1 \cup R2, p[1], p[2])'
  <2>1. \/ p[1] = p[2] \/ Alike(R1, p[1], p[2])'
        \/ Alike(R2, p[1], p[2])'
    BY DEF Coherent
  <2>2. R1 \subseteq R1 \cup R2 /\ R2 \subseteq R1 \cup R2
    OBVIOUS
  <2> QED BY <2>1, <2>2, AlikeGrows
<1>2. /\ R1 \cup R2 \subseteq Known' \X Known'
      /\ \A t \in Known' : <<t, t>> \in R1 \cup R2
  BY DEF Coherent
<1> QED BY <1>1, <1>2 DEF Coherent

(* A step of unification makes its own pair alike, or leaves it to others.    *)
LEMMA RelatesOnward ==
  ASSUME TypeOK, WorkIsKnown, ~Idle, NEW R, Relates(R), UNCHANGED varOf,
         NEW new \in SUBSET (Known \X Known), new \subseteq SetOf(work)',
         SetOf(Tail(work)) \subseteq SetOf(work)',
         \A x, y \in Known : Alike(R, x, y) => Alike(R, x, y)',
         NEW a, NEW b, Head(work) = <<a, b>>, Alike(R \cup new, a, b)'
  PROVE  Relates(R \cup new)'
<1>1. Known' = Known
  BY DEF Known, Live, SetOf
<1>2. \A p \in SetOf(work) : p = Head(work) \/ p \in SetOf(Tail(work))
  <2> SUFFICES ASSUME NEW i \in DOMAIN work
               PROVE  work[i] = Head(work) \/ work[i] \in SetOf(Tail(work))
    BY DEF SetOf
  <2>1. work \in Seq(Known \X Known) /\ work # << >>
    BY DEF WorkIsKnown, Idle
  <2>2. CASE i = 1
    BY <2>1, <2>2
  <2>3. CASE i # 1
    <3>1. i - 1 \in DOMAIN Tail(work) /\ Tail(work)[i - 1] = work[i]
      BY <2>1, <2>3
    <3> QED BY <3>1 DEF SetOf
  <2> QED BY <2>2, <2>3
<1>3. ASSUME NEW p \in R \cup new
      PROVE  p \in SetOf(work)' \/ p[1] = p[2] \/ Alike(R \cup new, p[1], p[2])'
  <2>1. CASE p \in SetOf(work)
    <3>1. CASE p = Head(work)
      <4>1. p[1] = a /\ p[2] = b
        BY <3>1
      <4> QED BY <4>1
    <3> QED BY <1>2, <2>1, <3>1
  <2>2. CASE p \in R /\ p \notin SetOf(work)
    <3>1. p[1] \in Known /\ p[2] \in Known
      BY <2>2 DEF Relates, Coherent
    <3>2. p[1] = p[2] \/ Alike(R, p[1], p[2])
      BY <2>2 DEF Relates, Coherent
    <3>3. Alike(R, p[1], p[2]) => Alike(R \cup new, p[1], p[2])'
      BY <3>1, AlikeGrows
    <3> QED BY <3>2, <3>3
  <2> QED BY <2>1, <2>2
<1>4. /\ R \cup new \subseteq Known \X Known
      /\ \A t \in Known : <<t, t>> \in R \cup new
  BY DEF Relates, Coherent
<1> HIDE DEF Relates
<1>5. Relates(R \cup new)' <=> /\ R \cup new \subseteq Known' \X Known'
                               /\ \A t \in Known' : <<t, t>> \in R \cup new
                               /\ \A p \in R \cup new :
                                    p \in SetOf(work)' \/ p[1] = p[2] \/ Alike(R \cup new, p[1], p[2])'
  BY DEF Relates, Coherent
<1> QED BY <1>1, <1>3, <1>4, <1>5

(* The pair that is unified is alike once its variable is bound.              *)
LEMMA AlikeOnceBound ==
  ASSUME TypeOK, TableInv, NEW x \in Known, NEW y \in Known, NEW v, NEW u \in Known,
         \/ IsVar(Resolve(x)) /\ v = Kind[Resolve(x)].var /\ Resolve(y) = u
         \/ IsVar(Resolve(y)) /\ v = Kind[Resolve(y)].var /\ Resolve(x) = u,
         ~IsVar(u), bound' = [bound EXCEPT ![Key(v)] = u], UNCHANGED <<slots, varOf, rep>>,
         NEW R, \A t \in Known : <<t, t>> \in R
  PROVE  Alike(R, x, y)'
<1>1. v \in Live /\ bound[Key(v)] = NoTy
  BY ResolveFacts DEF TableInv
<1>2. \A t \in Known :
        Resolve(t)' = IF IsVar(Resolve(t)) /\ Key(Kind[Resolve(t)].var) = Key(v)
                      THEN u ELSE Resolve(t)
  BY <1>1, ResolveBound
<1>3. Resolve(x)' = u /\ Resolve(y)' = u
  BY <1>2
<1>4. \A i \in DOMAIN Kind[u].args : <<Kind[u].args[i], Kind[u].args[i]>> \in R
  BY KnownArgs
<1> QED BY <1>3, <1>4 DEF Alike

(* After a variable is created, all that was at hand is as it was.            *)
LEMMA AlikeFresh ==
  ASSUME TypeOK, TableInv, FreshVar
  PROVE  /\ Known \subseteq Known'
         /\ \A R : \A x, y \in Known : Alike(R, x, y) => Alike(R, x, y)'
<1>1. PICK n, x : n = Len(rep) /\ x = Len(slots) + 1
  OBVIOUS
<1>2. /\ \A k \in 1..n : rep'[k] = rep[k] /\ bound'[k] = bound[k] /\ varOf'[k] = varOf[k]
      /\ \A v \in 1..(x - 1) : slots'[v] = slots[v]
      /\ DOMAIN varOf = 1..n /\ DOMAIN varOf' = 1..(n + 1) /\ n \in Nat
      /\ DOMAIN slots = 1..(x - 1) /\ DOMAIN bound = 1..n
  BY <1>1, FreshFacts
<1>3. \A z \in Live : Key(z)' = Key(z) /\ Key(z) \in 1..n
  <2>1. \A z \in Live : z \in 1..(x - 1) /\ slots[z] \in 1..n /\ Key(z) \in 1..n
    BY <1>1, <1>2, KeyFacts DEF TableInv
  <2> QED BY <1>2, <2>1 DEF Key
<1>4. Live \subseteq Live'
  BY <1>2 DEF Live, SetOf
<1>5. \A t \in Known : Resolve(t)' = Resolve(t)
  <2> SUFFICES ASSUME NEW t \in Known PROVE Resolve(t)' = Resolve(t)
    OBVIOUS
  <2>1. IsVar(t) => Kind[t].var \in Live
    BY ArenaFacts DEF Known
  <2>2. IsVar(t) => Binding(t)' = Binding(t)
    BY <1>2, <1>3, <2>1 DEF Binding
  <2> QED BY <2>2 DEF Resolve
<1>6. ASSUME NEW R, NEW t1 \in Known, NEW t2 \in Known, Alike(R, t1, t2)
      PROVE  Alike(R, t1, t2)'
  <2>1. /\ IsVar(Resolve(t1)) => Kind[Resolve(t1)].var \in Live
        /\ IsVar(Resolve(t2)) => Kind[Resolve(t2)].var \in Live
        /\ Resolve(t1)' = Resolve(t1) /\ Resolve(t2)' = Resolve(t2)
    BY <1>5, ResolveFacts DEF TableInv
  <2>2. CASE IsVar(Resolve(t1)) /\ IsVar(Resolve(t2))
    <3>1. Key(Kind[Resolve(t1)].var) = Key(Kind[Resolve(t2)].var)
      BY <1>6, <2>2 DEF Alike, IsVar, Wildcards
    <3>2. Key(Kind[Resolve(t1)].var)' = Key(Kind[Resolve(t2)].var)'
      BY <1>3, <2>1, <2>2, <3>1
    <3> QED BY <2>1, <2>2, <3>2 DEF Alike, IsVar
  <2>3. CASE ~(IsVar(Resolve(t1)) /\ IsVar(Resolve(t2)))
    BY <1>6, <2>1, <2>3 DEF Alike, IsVar
  <2> QED BY <2>2, <2>3
<1> QED BY <1>4, <1>6 DEF Known

(* The two types that the next call of unify_impl is about.                   *)
LEMMA HeadPair ==
  ASSUME TypeOK, TableInv, WorkIsKnown, ~Idle, NEW R, Relates(R)
  PROVE  \E a, b \in Known : Head(work) = <<a, b>> /\ First = Resolve(a) /\ Second = Resolve(b)
<1>1. Head(work) \in Known \X Known
  BY DEF WorkIsKnown, Idle
<1> QED BY <1>1 DEF First, Second

LEMMA RestIsWork ==
  ASSUME Continue(Tail(work))
  PROVE  SetOf(Tail(work)) \subseteq SetOf(work)'
BY DEF Continue, Return, SetOf

LEMMA ConcatHolds ==
  ASSUME NEW S, NEW s \in Seq(S), NEW t \in Seq(S)
  PROVE  /\ \A i \in DOMAIN s : i \in DOMAIN (s \o t) /\ (s \o t)[i] = s[i]
         /\ \A i \in DOMAIN t : Len(s) + i \in DOMAIN (s \o t) /\ (s \o t)[Len(s) + i] = t[i]
OBVIOUS

LEMMA AgreementVars ==
  ASSUME TypeOK, TableInv, WorkIsKnown, NEW R, Relates(R), UnifyVars
  PROVE  Relates(R)'
<1>1. /\ ~Idle /\ UNCHANGED <<slots, varOf, bound>>
      /\ Continue(Tail(work)) /\ IsVar(First) /\ IsVar(Second)
  BY DEF UnifyVars
<1>2. PICK a \in Known, b \in Known :
        Head(work) = <<a, b>> /\ First = Resolve(a) /\ Second = Resolve(b)
  BY <1>1, HeadPair
<1>3. PICK v, w : v = Kind[First].var /\ w = Kind[Second].var
  OBVIOUS
<1>4. v \in Live /\ w \in Live /\ bound[Key(v)] = NoTy /\ bound[Key(w)] = NoTy
  BY <1>1, <1>3, HeadFacts
<1>5. (\A x, y \in Known : Alike(R, x, y) => Alike(R, x, y)') /\ Alike(R \cup {}, a, b)'
  <2>1. CASE Key(v) = Key(w)
    <3>1. rep' = rep
      BY <1>3, <2>1 DEF UnifyVars
    <3>2. \A x, y : Alike(R, x, y)' <=> Alike(R, x, y)
      BY <1>1, <3>1 DEF Alike, Resolve, Binding, Key
    <3>3. Alike(R, a, b)
      BY <1>1, <1>2, <1>3, <2>1 DEF Alike, IsVar
    <3> QED BY <3>2, <3>3
  <2>2. CASE Key(v) # Key(w)
    <3>1. rep' = United(Key(v), Key(w))
      BY <1>3, <2>2 DEF UnifyVars
    <3>2. \A x, y \in Known : Alike(R, x, y) => Alike(R, x, y)'
      BY <1>1, <1>4, <3>1, AlikeUnited
    <3>3. /\ Key(v)' = UnionRoot(Key(v), Key(w)) /\ Key(w)' = UnionRoot(Key(v), Key(w))
          /\ Resolve(a)' = Resolve(a) /\ Resolve(b)' = Resolve(b)
      BY <1>1, <1>4, <3>1, ResolveUnited
    <3>4. Kind[Resolve(a)'].var = v /\ Kind[Resolve(b)'].var = w
      BY <1>2, <1>3, <3>3
    <3>5. Key(Kind[Resolve(a)].var)' = Key(Kind[Resolve(b)].var)'
      BY <3>3, <3>4
    <3>6. Alike(R, a, b)'
      BY <1>1, <1>2, <3>3, <3>5 DEF Alike, IsVar
    <3> QED BY <3>2, <3>6
  <2> QED BY <2>1, <2>2
<1>6. Relates(R \cup {})'
  BY <1>1, <1>2, <1>5, RestIsWork, RelatesOnward
<1>7. R \cup {} = R
  OBVIOUS
<1> QED BY <1>6, <1>7

LEMMA AgreementBind ==
  ASSUME TypeOK, TableInv, WorkIsKnown, NEW R, Relates(R), BindVar
  PROVE  Relates(R)' \/ (work' = << >> /\ outcome' = "err")
<1>1. PICK t \in {First, Second}, u \in {First, Second} :
        /\ ~Idle /\ BindOrFail(t, u)
        /\ (t = First /\ u = Second) \/ (t = Second /\ u = First)
  BY DEF BindVar
<1>2. /\ IsVar(t) /\ ~IsVar(u) /\ UNCHANGED <<slots, varOf, rep>>
  BY <1>1 DEF BindOrFail
<1> SUFFICES ASSUME ~(work' = << >> /\ outcome' = "err") PROVE Relates(R)'
  OBVIOUS
<1>3. PICK v : v = Kind[t].var
  OBVIOUS
<1>4. bound' = [bound EXCEPT ![Key(v)] = u] /\ Continue(Tail(work))
  BY <1>1, <1>3 DEF BindOrFail, Fail, Return
<1>5. PICK a \in Known, b \in Known :
        Head(work) = <<a, b>> /\ First = Resolve(a) /\ Second = Resolve(b)
  BY <1>1, HeadPair
<1>6. v \in Live /\ bound[Key(v)] = NoTy /\ u \in Known
  BY <1>1, <1>2, <1>3, HeadFacts
<1>7. \A x \in Known : <<x, x>> \in R
  BY DEF Relates, Coherent
<1>8. \A x, y \in Known : Alike(R, x, y) => Alike(R, x, y)'
  BY <1>2, <1>4, <1>6, <1>7, AlikeBound
<1>9. Alike(R, a, b)'
  <2>1. \/ IsVar(Resolve(a)) /\ v = Kind[Resolve(a)].var /\ Resolve(b) = u
        \/ IsVar(Resolve(b)) /\ v = Kind[Resolve(b)].var /\ Resolve(a) = u
    BY <1>1, <1>2, <1>3, <1>5
  <2> QED BY <1>2, <1>4, <1>6, <1>7, <2>1, AlikeOnceBound
<1>10. R \cup {} = R
  OBVIOUS
<1>11. Relates(R \cup {})'
  <2>1. Alike(R \cup {}, a, b)'
    BY <1>9, <1>10
  <2> QED BY <1>1, <1>2, <1>4, <1>5, <1>8, <2>1, RestIsWork, RelatesOnward
<1> QED BY <1>10, <1>11

LEMMA AgreementHeads ==
  ASSUME TypeOK, TableInv, WorkIsKnown, NEW R, Relates(R), UnifyHeads
  PROVE  (\E R2 : Relates(R2)' /\ R \subseteq R2) \/ (work' = << >> /\ outcome' = "err")
<1>1. /\ ~Idle /\ UNCHANGED <<slots, varOf, rep, bound>>
      /\ ~IsVar(First) /\ ~IsVar(Second)
  BY DEF UnifyHeads, table
<1> SUFFICES ASSUME ~(work' = << >> /\ outcome' = "err")
             PROVE  \E R2 : Relates(R2)' /\ R \subseteq R2
  OBVIOUS
<1>2. PICK a \in Known, b \in Known :
        Head(work) = <<a, b>> /\ First = Resolve(a) /\ Second = Resolve(b)
  BY <1>1, HeadPair
<1>3. \A S, x, y : Alike(S, x, y)' <=> Alike(S, x, y)
  BY <1>1 DEF Alike, Resolve, Binding, Key
<1>4. PICK k, l : k = Kind[First] /\ l = Kind[Second]
  OBVIOUS
<1>5. CASE {k.con, l.con} \cap Wildcards # {}
  <2>1. Continue(Tail(work))
    BY <1>4, <1>5 DEF UnifyHeads
  <2>2. Alike(R \cup {}, a, b)'
    BY <1>2, <1>3, <1>4, <1>5 DEF Alike
  <2> QED BY <1>1, <1>2, <1>3, <2>1, <2>2, RestIsWork, RelatesOnward
<1>6. CASE {k.con, l.con} \cap Wildcards = {}
  <2>1. Matches(k, l) /\ Continue(Zip(k.args, l.args) \o Tail(work))
    BY <1>4, <1>6 DEF UnifyHeads, Fail, Return
  <2>2. k.args \in Seq(Known) /\ l.args \in Seq(Known)
    BY <1>1, <1>4, HeadFacts, KnownArgs
  <2>3. PICK z : z = Zip(k.args, l.args)
    OBVIOUS
  <2>4. z \in Seq(Known \X Known) /\ Tail(work) \in Seq(Known \X Known)
    BY <1>1, <2>2, <2>3, ZipFacts, HeadFacts
  <2>5. work' = z \o Tail(work)
    BY <2>1, <2>3 DEF Continue, Return
  <2>6. SetOf(z) \subseteq SetOf(work)' /\ SetOf(Tail(work)) \subseteq SetOf(work)'
    <3>1. /\ \A i \in DOMAIN z : i \in DOMAIN work' /\ work'[i] = z[i]
          /\ \A i \in DOMAIN Tail(work) :
               Len(z) + i \in DOMAIN work' /\ work'[Len(z) + i] = Tail(work)[i]
      BY <2>4, <2>5, ConcatHolds, SMTT(30)
    <3>2. SetOf(work)' = {work'[i] : i \in DOMAIN work'}
      BY DEF SetOf
    <3>3. SetOf(z) \subseteq SetOf(work)'
      BY <3>1, <3>2 DEF SetOf
    <3>4. \A j \in DOMAIN Tail(work) : Tail(work)[j] \in SetOf(work)'
      BY <3>1, <3>2
    <3> QED BY <3>3, <3>4 DEF SetOf
  <2>7. SetOf(z) \in SUBSET (Known \X Known)
    BY <2>4 DEF SetOf
  <2>8. \A i \in DOMAIN k.args \cap DOMAIN l.args :
          <<k.args[i], l.args[i]>> \in SetOf(z)
    <3> SUFFICES ASSUME NEW i \in DOMAIN k.args \cap DOMAIN l.args
                 PROVE  <<k.args[i], l.args[i]>> \in SetOf(z)
      OBVIOUS
    <3>1. PICK m : m = IF Len(k.args) < Len(l.args) THEN Len(k.args) ELSE Len(l.args)
      OBVIOUS
    <3>2. i \in 1..m
      BY <2>2, <3>1
    <3>3. z = [j \in 1..m |-> <<k.args[j], l.args[j]>>]
      BY <2>3, <3>1 DEF Zip
    <3> QED BY <3>2, <3>3 DEF SetOf
  <2>9. Alike(R \cup SetOf(z), a, b)
    BY <1>1, <1>2, <1>4, <2>1, <2>8 DEF Alike, Matches, IsVar
  <2>10. Relates(R \cup SetOf(z))'
    BY <1>1, <1>2, <1>3, <2>6, <2>7, <2>9, RelatesOnward
  <2> QED BY <2>10
<1> QED BY <1>5, <1>6

LEMMA GenericKnown ==
  ASSUME NEW g \in Generics
  PROVE  g \in Known /\ ~IsVar(g)
<1>1. g \in Ty /\ ~IsVar(g) /\ Kind[g].args = << >>
  BY CallsAssumption
<1>2. ArgsClosed({g}) /\ {g} \in SUBSET Ty
  BY <1>1 DEF ArgsClosed, SetOf
<1>3. VarsOf[g] = {x \in Var : \A S \in SUBSET Ty : g \in S /\ ArgsClosed(S) =>
                                 \E u \in S : IsVar(u) /\ Kind[u].var = x}
  BY <1>1 DEF VarsOf
<1>4. VarsOf[g] = {}
  <2>1. ASSUME NEW x \in VarsOf[g] PROVE FALSE
    <3>1. \E u \in {g} : IsVar(u) /\ Kind[u].var = x
      BY <1>2, <1>3
    <3> QED BY <1>1, <3>1
  <2> QED BY <2>1
<1> QED BY <1>1, <1>4 DEF Known

(* Whatever the checker does but take an attempt back, what is alike stays so. *)
Kept(S) ==
  /\ Known \subseteq Known'
  /\ \A x, y \in Known : Alike(S, x, y) => Alike(S, x, y)'

LEMMA AlikeKept ==
  ASSUME IInv, [Next]_vars, ~Rollback, NEW S, \A t \in Known : <<t, t>> \in S
  PROVE  Kept(S)
<1>0. TypeOK /\ TableInv /\ WorkIsKnown
  BY DEF IInv, TableInv
<1>same. ASSUME UNCHANGED <<slots, varOf, rep, bound>> PROVE Kept(S)
  <2>1. \A x, y : Alike(S, x, y)' <=> Alike(S, x, y)
    BY <1>same DEF Alike, Resolve, Binding, Key
  <2>2. Known' = Known
    BY <1>same DEF Known, Live, SetOf
  <2> QED BY <2>1, <2>2 DEF Kept
<1>bound. ASSUME NEW v \in Live, NEW u \in Known, ~IsVar(u), bound[Key(v)] = NoTy,
                 bound' = [bound EXCEPT ![Key(v)] = u], UNCHANGED <<slots, varOf, rep>>
          PROVE  Kept(S)
  <2>1. Known' = Known
    BY <1>bound DEF Known, Live, SetOf
  <2>2. \A x, y \in Known : Alike(S, x, y) => Alike(S, x, y)'
    BY <1>0, <1>bound, AlikeBound
  <2> QED BY <2>1, <2>2 DEF Kept
<1>1. CASE FreshVar
  BY <1>0, <1>1, AlikeFresh DEF Kept
<1>2. CASE UnifyVars
  <2> SUFFICES ASSUME NEW v, NEW w, v = Kind[First].var, w = Kind[Second].var
               PROVE  Kept(S)
    OBVIOUS
  <2>1. /\ v \in Live /\ bound[Key(v)] = NoTy /\ w \in Live /\ bound[Key(w)] = NoTy
        /\ UNCHANGED <<slots, varOf, bound>>
        /\ rep' = United(Key(v), Key(w)) \/ rep' = rep
    BY <1>0, <1>2, HeadFacts DEF UnifyVars
  <2>2. CASE rep' = United(Key(v), Key(w))
    <3>1. Known' = Known
      BY <2>1 DEF Known, Live, SetOf
    <3>2. \A x, y \in Known : Alike(S, x, y) => Alike(S, x, y)'
      BY <1>0, <2>1, <2>2, AlikeUnited
    <3> QED BY <3>1, <3>2 DEF Kept
  <2> QED BY <1>same, <2>1, <2>2
<1>3. CASE BindVar
  <2>1. PICK t \in {First, Second}, u \in {First, Second} : ~Idle /\ BindOrFail(t, u)
    BY <1>3 DEF BindVar
  <2>2. IsVar(t) /\ ~IsVar(u) /\ UNCHANGED <<slots, varOf, rep>>
    BY <2>1 DEF BindOrFail
  <2>3. Kind[t].var \in Live /\ bound[Key(Kind[t].var)] = NoTy /\ u \in Known
    BY <1>0, <2>1, <2>2, HeadFacts
  <2>4. CASE bound' = bound
    BY <1>same, <2>2, <2>4
  <2>5. CASE bound' = [bound EXCEPT ![Key(Kind[t].var)] = u]
    <3>1. PICK v : v = Kind[t].var
      OBVIOUS
    <3>2. v \in Live /\ bound[Key(v)] = NoTy /\ bound' = [bound EXCEPT ![Key(v)] = u]
      BY <2>3, <2>5, <3>1
    <3> QED BY <1>bound, <2>2, <2>3, <3>2
  <2> QED BY <2>1, <2>4, <2>5 DEF BindOrFail
<1>4. ASSUME NEW v \in Var, NEW g \in Generics, BindGeneric(v, g) PROVE Kept(S)
  <2>1. /\ v \in Live /\ bound[Key(v)] = NoTy /\ bound' = [bound EXCEPT ![Key(v)] = g]
        /\ UNCHANGED <<slots, varOf, rep>>
    BY <1>4 DEF BindGeneric
  <2> QED BY <1>bound, <2>1, GenericKnown
<1>5. ASSUME NEW t1 \in Ty, NEW t2 \in Ty, NEW reason \in BOOLEAN, Unify(t1, t2, reason)
      PROVE  Kept(S)
  <2> QED BY <1>5, <1>same DEF Unify, table
<1>6. CASE UnifyHeads \/ Snapshot \/ Commit \/ UNCHANGED vars
  <2> QED BY <1>6, <1>same DEF UnifyHeads, Snapshot, Commit, table, vars
<1> QED BY <1>1, <1>2, <1>3, <1>4, <1>5, <1>6 DEF Next, UnifyStep

(* A step of unification keeps its relation, if it goes on or returns Ok.     *)
LEMMA RelatesStep ==
  ASSUME TypeOK, TableInv, WorkIsKnown, NEW R, Relates(R), equation \in R, UnifyStep
  PROVE  \/ Idle' /\ agreed' = agreed
         \/ /\ \E R2 : Relates(R2)' /\ equation \in R2
            /\ IF Idle' THEN agreed' = agreed \cup {equation} ELSE UNCHANGED <<agreed, equation>>
<1>1. \/ Idle' /\ agreed' = agreed
      \/ /\ ~(work' = << >> /\ outcome' = "err")
         /\ IF Idle' THEN agreed' = agreed \cup {equation} ELSE UNCHANGED <<agreed, equation>>
  <2>1. \/ Fail
        \/ \E pairs : Continue(pairs)
    BY DEF UnifyStep, UnifyVars, BindVar, BindOrFail, UnifyHeads
  <2>2. CASE Fail
    BY <2>2 DEF Fail, Return, Idle
  <2>3. ASSUME NEW pairs, Continue(pairs)
        PROVE  /\ ~(work' = << >> /\ outcome' = "err")
               /\ IF Idle' THEN agreed' = agreed \cup {equation} ELSE UNCHANGED <<agreed, equation>>
    BY <2>3 DEF Continue, Return, Idle
  <2> QED BY <2>1, <2>2, <2>3
<1> SUFFICES ASSUME ~(work' = << >> /\ outcome' = "err")
             PROVE  \E R2 : Relates(R2)' /\ equation \in R2
  BY <1>1
<1>2. CASE UnifyVars
  BY <1>2, AgreementVars
<1>3. CASE BindVar
  BY <1>3, AgreementBind
<1>4. CASE UnifyHeads
  BY <1>4, AgreementHeads
<1> QED BY <1>2, <1>3, <1>4 DEF UnifyStep

(* What agreed when the snapshot was taken is not touched while an impl is    *)
(* tried.                                                                     *)
LEMMA SavedAgreementStays ==
  ASSUME TypeOK, TableInv, SavedAgreement, saved' = saved,
         UNCHANGED <<slots, varOf>> \/ FreshVar
  PROVE  SavedAgreement'
<1> SUFFICES ASSUME Trying PROVE SavedAgreement'
  BY DEF SavedAgreement, Trying
<1>1. CASE UNCHANGED <<slots, varOf>>
  BY <1>1 DEF SavedAgreement, SavedLive, SetOf, Trying
<1>2. CASE FreshVar
  <2> DEFINE m == saved.keys
             known == {t \in Ty : VarsOf[t] \subseteq SavedLive}
  <2>1. /\ m \in Nat /\ m <= Len(rep) /\ Len(rep) \in Nat
        /\ Len(varOf) = Len(rep) /\ varOf \in Seq(Var)
    BY DEF TypeOK, Snapshots, Trying, TableInv, SnapshotIsOlder, KeysMatch
  <2>2. SubSeq(varOf', 1, m) = SubSeq(varOf, 1, m)
    <3>1. Len(slots) + 1 \in 1..Vars
      BY <1>2, VarsAssumption DEF FreshVar, TypeOK
    <3>2. varOf' = Append(varOf, Len(slots) + 1) /\ Len(slots) + 1 \in Var
      BY <1>2, <3>1 DEF FreshVar, Var
    <3> QED BY <2>1, <3>2, Prefix
  <2>3. SavedLive' = SavedLive
    BY <2>2 DEF SavedLive
  <2>4. ASSUME NEW v \in SavedLive
        PROVE  slots'[v] = slots[v] /\ slots[v] \in 1..m
    <3>1. PICK k \in 1..m : v = varOf[k]
      BY <2>1 DEF SavedLive, SetOf
    <3>2. k \in DOMAIN varOf
      BY <2>1
    <3>3. v \in DOMAIN slots /\ slots[v] = k
      BY <3>1, <3>2 DEF TableInv, KeysMatch
    <3>4. slots' = Append(slots, Len(rep) + 1) /\ slots \in Seq(Nat)
      BY <1>2 DEF FreshVar, TypeOK
    <3> QED BY <3>1, <3>3, <3>4
  <2>5. ASSUME NEW t \in known
        PROVE  /\ ResolveIn(slots', saved.rep, saved.bound, t)
                    = ResolveIn(slots, saved.rep, saved.bound, t)
               /\ IsVar(ResolveIn(slots, saved.rep, saved.bound, t)) =>
                    Kind[ResolveIn(slots, saved.rep, saved.bound, t)].var \in SavedLive
    <3>1. IsVar(t) => Kind[t].var \in SavedLive
      BY ArenaFacts
    <3>2. CASE IsVar(t)
      <4>1. PICK k : k = saved.rep[slots[Kind[t].var]]
        OBVIOUS
      <4>2. k \in 1..m /\ k = saved.rep[slots'[Kind[t].var]]
        BY <2>4, <3>1, <3>2, <4>1 DEF TableInv, SnapshotIsOlder
      <4>3. saved.bound[k] # NoTy => ~IsVar(saved.bound[k])
        BY <4>2 DEF TableInv, SnapshotIsOlder
      <4> QED BY <3>1, <3>2, <4>1, <4>2, <4>3 DEF ResolveIn
    <3>3. CASE ~IsVar(t)
      BY <3>3 DEF ResolveIn
    <3> QED BY <3>2, <3>3
  <2>6. PICK R : CoherentIn(slots, saved.rep, saved.bound, SavedLive, R) /\ saved.agreed \subseteq R
    BY DEF SavedAgreement
  <2>7. ASSUME NEW x \in known, NEW y \in known,
               AlikeIn(slots, saved.rep, saved.bound, R, x, y)
        PROVE  AlikeIn(slots', saved.rep, saved.bound, R, x, y)
    <3> HIDE DEF known
    <3>1. PICK a, b : /\ a = ResolveIn(slots, saved.rep, saved.bound, x)
                      /\ b = ResolveIn(slots, saved.rep, saved.bound, y)
      OBVIOUS
    <3>2. /\ a = ResolveIn(slots', saved.rep, saved.bound, x)
          /\ b = ResolveIn(slots', saved.rep, saved.bound, y)
          /\ IsVar(a) => slots'[Kind[a].var] = slots[Kind[a].var]
          /\ IsVar(b) => slots'[Kind[b].var] = slots[Kind[b].var]
      BY <2>4, <2>5, <3>1
    <3> QED BY <2>7, <3>1, <3>2 DEF AlikeIn, IsVar
  <2>8. CoherentIn(slots', saved.rep, saved.bound, SavedLive, R)
    <3>1. /\ R \subseteq known \X known /\ \A t \in known : <<t, t>> \in R
          /\ \A p \in R : p[1] = p[2] \/ AlikeIn(slots, saved.rep, saved.bound, R, p[1], p[2])
      BY <2>6 DEF CoherentIn
    <3>2. \A p \in R : p[1] = p[2] \/ AlikeIn(slots', saved.rep, saved.bound, R, p[1], p[2])
      <4> HIDE DEF known
      <4> QED BY <2>7, <3>1
    <3> QED BY <3>1, <3>2 DEF CoherentIn
  <2> QED BY <2>3, <2>6, <2>8 DEF SavedAgreement
<1> QED BY <1>1, <1>2

LEMMA StepSavedAgreement ==
  ASSUME IInv, Agreement, [Next]_vars
  PROVE  SavedAgreement'
<1>0. TypeOK /\ TableInv /\ SavedAgreement
  BY DEF IInv, TableInv, Agreement
<1>1. CASE Snapshot
  <2>1. /\ saved' = [rep |-> rep, bound |-> bound, provenance |-> Len(provenance),
                     keys |-> Len(varOf), silent |-> silent, agreed |-> agreed]
        /\ UNCHANGED <<slots, varOf>>
    BY <1>1 DEF Snapshot, table
  <2>2. SubSeq(varOf, 1, Len(varOf)) = varOf
    BY <1>0 DEF TypeOK
  <2>3. SavedLive' = Live
    BY <2>1, <2>2 DEF SavedLive, Live, SetOf
  <2>4. PICK R : Coherent(R, {}) /\ agreed \subseteq R
    BY DEF Agreement
  <2>5. CoherentIn(slots, rep, bound, Live, R)
    BY <2>4, CoherentIs
  <2>6. saved'.rep = rep /\ saved'.bound = bound /\ saved'.agreed = agreed
    BY <2>1
  <2> QED BY <2>1, <2>3, <2>4, <2>5, <2>6 DEF SavedAgreement
<1>2. CASE Commit \/ Rollback
  BY <1>2 DEF Commit, Rollback, SavedAgreement, Trying
<1>3. CASE FreshVar
  <2>1. saved' = saved
    BY <1>3 DEF FreshVar
  <2> QED BY <1>0, <1>3, <2>1, SavedAgreementStays
<1>4. CASE UnifyStep
  <2>1. UNCHANGED <<slots, varOf, saved>>
    BY <1>4 DEF UnifyStep, UnifyVars, BindVar, BindOrFail, UnifyHeads, table
  <2> QED BY <1>0, <2>1, SavedAgreementStays
<1>5. ASSUME NEW t1 \in Ty, NEW t2 \in Ty, NEW reason \in BOOLEAN, Unify(t1, t2, reason)
      PROVE  SavedAgreement'
  <2>1. UNCHANGED <<slots, varOf, saved>>
    BY <1>5 DEF Unify, table
  <2> QED BY <1>0, <2>1, SavedAgreementStays
<1>6. ASSUME NEW v \in Var, NEW g \in Generics, BindGeneric(v, g) PROVE SavedAgreement'
  <2>1. UNCHANGED <<slots, varOf, saved>>
    BY <1>6 DEF BindGeneric
  <2> QED BY <1>0, <2>1, SavedAgreementStays
<1>7. CASE UNCHANGED vars
  <2>1. UNCHANGED <<slots, varOf, saved>>
    BY <1>7 DEF vars
  <2> QED BY <1>0, <2>1, SavedAgreementStays
<1> QED BY <1>1, <1>2, <1>3, <1>4, <1>5, <1>6, <1>7 DEF Next

(* Later steps keep what agreed, those of unification may add to it, and a    *)
(* rollback returns to what agreed then.                                      *)
LEMMA StepSettled ==
  ASSUME IInv, Agreement, [Next]_vars
  PROVE  \E R : Coherent(R, {})' /\ agreed' \subseteq R
<1>0. TypeOK /\ TableInv /\ WorkIsKnown
  BY DEF IInv, TableInv
<1>1. CASE Rollback
  <2>1. /\ rep' = saved.rep /\ bound' = saved.bound /\ varOf' = SubSeq(varOf, 1, saved.keys)
        /\ slots' = slots /\ agreed' = saved.agreed /\ Trying
    BY <1>1 DEF Rollback, BoundAfter, KeysAfter
  <2>2. Live' = SavedLive
    BY <2>1 DEF Live, SavedLive
  <2>3. PICK R : CoherentIn(slots, saved.rep, saved.bound, SavedLive, R) /\ saved.agreed \subseteq R
    BY <2>1 DEF Agreement, SavedAgreement
  <2>4. CoherentIn(slots', rep', bound', Live', R)
    BY <2>1, <2>2, <2>3
  <2> QED BY <2>1, <2>3, <2>4, CoherentIs
<1>2. CASE ~Rollback
  <2>1. PICK R : Coherent(R, {}) /\ agreed \subseteq R
    BY DEF Agreement
  <2>2. PICK I : I = {<<t, t>> : t \in Known'}
    OBVIOUS
  <2>3. R \subseteq Known \X Known /\ \A t \in Known : <<t, t>> \in R
    BY <2>1 DEF Coherent
  <2>4. Known \subseteq Known' /\ \A x, y \in Known : Alike(R, x, y) => Alike(R, x, y)'
    BY <1>2, <2>3, AlikeKept DEF Kept
  <2>5. /\ R \cup I \subseteq Known' \X Known' /\ \A t \in Known' : <<t, t>> \in R \cup I
        /\ \A p \in (R \cup I) \ R : p[1] = p[2] /\ R \subseteq R \cup I
    BY <2>2, <2>3, <2>4
  <2>6. Coherent(R \cup I, {})'
    BY <2>1, <2>4, <2>5, CoherentStays
  <2>7. CASE agreed' = agreed
    BY <2>1, <2>6, <2>7
  <2>8. CASE agreed' # agreed
    <3>1. UnifyStep
      BY <1>2, <2>8 DEF Next, FreshVar, Unify, BindGeneric, Snapshot, Commit, vars
    <3>2. ~Idle
      BY <3>1 DEF UnifyStep, UnifyVars, BindVar, UnifyHeads
    <3>3. PICK S : Relates(S) /\ equation \in S
      BY <3>2 DEF Agreement
    <3>4. Idle' /\ agreed' = agreed \cup {equation} /\ \E R2 : Relates(R2)' /\ equation \in R2
      BY <1>0, <2>8, <3>1, <3>3, RelatesStep
    <3>5. PICK R2 : Relates(R2)' /\ equation \in R2
      BY <3>4
    <3>6. Coherent(R2, {})'
      BY <3>4, <3>5 DEF Relates, Coherent, Idle, SetOf
    <3>7. Coherent((R \cup I) \cup R2, {})'
      BY <2>6, <3>6, CoherentJoin
    <3> QED BY <2>1, <3>4, <3>5, <3>7
  <2> QED BY <2>7, <2>8
<1> QED BY <1>1, <1>2

LEMMA StepUnderway ==
  ASSUME IInv, Agreement, [Next]_vars, ~Idle'
  PROVE  \E R : Relates(R)' /\ equation' \in R
<1>0. TypeOK /\ TableInv /\ WorkIsKnown
  BY DEF IInv, TableInv
<1>1. CASE UnifyStep
  <2>1. PICK R : Relates(R) /\ equation \in R
    BY <1>1 DEF Agreement, UnifyStep, UnifyVars, BindVar, UnifyHeads
  <2>2. equation' = equation /\ \E R2 : Relates(R2)' /\ equation \in R2
    BY <1>0, <1>1, <2>1, RelatesStep
  <2> QED BY <2>2
<1>2. ASSUME NEW t1 \in Ty, NEW t2 \in Ty, NEW reason \in BOOLEAN, Unify(t1, t2, reason)
      PROVE  \E R : Relates(R)' /\ equation' \in R
  <2>1. PICK R : R = {<<t, t>> : t \in Known} \cup { <<t1, t2>> }
    OBVIOUS
  <2>2. /\ {t1, t2} \subseteq Known /\ work' = << <<t1, t2>> >>
        /\ equation' = <<t1, t2>> /\ varOf' = varOf
    BY <1>2 DEF Unify, table
  <2>3. Known' = Known
    BY <2>2 DEF Known, Live, SetOf
  <2>4. <<t1, t2>> \in SetOf(work)'
    BY <2>2 DEF SetOf
  <2>5. R \subseteq Known \X Known
    BY <2>1, <2>2
  <2>6. \A p \in R : p = <<t1, t2>> \/ p[1] = p[2]
    BY <2>1
  <2>7. (\A t \in Known : <<t, t>> \in R) /\ <<t1, t2>> \in R
    BY <2>1
  <2> QED BY <2>2, <2>3, <2>4, <2>5, <2>6, <2>7 DEF Relates, Coherent
<1>3. CASE UNCHANGED vars
  <2>1. UNCHANGED <<slots, varOf, rep, bound, work, equation>>
    BY <1>3 DEF vars
  <2>2. PICK R : Relates(R) /\ equation \in R
    BY <2>1 DEF Agreement, Idle
  <2>3. \A x, y : Alike(R, x, y)' <=> Alike(R, x, y)
    BY <2>1 DEF Alike, Resolve, Binding, Key
  <2>4. Known' = Known /\ SetOf(work)' = SetOf(work)
    BY <2>1 DEF Known, Live, SetOf
  <2>5. Relates(R)'
    BY <2>2, <2>3, <2>4 DEF Relates, Coherent
  <2> QED BY <2>1, <2>2, <2>5
<1>4. CASE FreshVar \/ Snapshot \/ Commit \/ Rollback
  BY <1>4 DEF FreshVar, Snapshot, Commit, Rollback, Proceeding, Idle
<1>5. ASSUME NEW v \in Var, NEW g \in Generics, BindGeneric(v, g)
      PROVE  \E R : Relates(R)' /\ equation' \in R
  BY <1>5 DEF BindGeneric, Idle
<1> QED BY <1>1, <1>2, <1>3, <1>4, <1>5 DEF Next

LEMMA StepAgreement == IInv /\ Agreement /\ [Next]_vars => Agreement'
<1> SUFFICES ASSUME IInv, Agreement, [Next]_vars PROVE Agreement'
  OBVIOUS
<1>1. \E R : Coherent(R, {})' /\ agreed' \subseteq R
  BY StepSettled
<1>2. ~Idle' => \E R : Relates(R)' /\ equation' \in R
  BY StepUnderway
<1>3. SavedAgreement'
  BY StepSavedAgreement
<1> QED BY <1>1, <1>2, <1>3 DEF Agreement
-----------------------------------------------------------------------------
(* What the definition by recursion of agreement to a depth says.             *)
Narrowed(R) == {p \in R : Alike(R, p[1], p[2])}
Narrowing(f, m) ==
  f = [n \in 0..m |-> IF n = 0 THEN Known \X Known ELSE Narrowed(f[n - 1])]

LEMMA NarrowingOn ==
  ASSUME NEW f, NEW m \in Nat, Narrowing(f, m)
  PROVE  \E g : Narrowing(g, m + 1)
<1> DEFINE next == Narrowed(f[m])
           base == Known \X Known
           g == [n \in 0..(m + 1) |-> IF n = m + 1 THEN next ELSE f[n]]
<1>1. \A n \in 0..m : f[n] = IF n = 0 THEN base ELSE Narrowed(f[n - 1])
  BY DEF Narrowing
<1> HIDE DEF next, base
<1>2. ASSUME NEW n \in 0..(m + 1)
      PROVE  g[n] = IF n = 0 THEN base ELSE Narrowed(g[n - 1])
  <2>1. CASE n = m + 1
    <3>1. g[n] = next /\ g[n - 1] = f[m] /\ n # 0
      BY <2>1
    <3> QED BY <3>1 DEF next
  <2>2. CASE n # m + 1
    <3>1. n \in 0..m /\ g[n] = f[n]
      BY <2>2
    <3>2. n # 0 => g[n - 1] = f[n - 1]
      BY <3>1
    <3> QED BY <1>1, <3>1, <3>2
  <2> QED BY <2>1, <2>2
<1>3. Narrowing(g, m + 1)
  <2>1. PICK h : h = [n \in 0..(m + 1) |-> IF n = 0 THEN base ELSE Narrowed(g[n - 1])]
    OBVIOUS
  <2>2. DOMAIN g = 0..(m + 1) /\ g = [n \in DOMAIN g |-> g[n]]
    OBVIOUS
  <2> HIDE DEF g
  <2>3. g = h
    BY <1>2, <2>1, <2>2
  <2> QED BY <2>1, <2>3 DEF Narrowing, base
<1> HIDE DEF g
<1> QED BY <1>3

LEMMA AgreeingIs ==
  \A n \in 0..Cardinality(Ty) :
    Agreeing[n] = IF n = 0 THEN Known \X Known ELSE Narrowed(Agreeing[n - 1])
<1> DEFINE S == {m \in Nat : \E f : Narrowing(f, m)}
<1>1. 0 \in S
  <2>1. PICK f : f = [n \in 0..0 |-> Known \X Known]
    OBVIOUS
  <2>2. f = [n \in 0..0 |-> IF n = 0 THEN Known \X Known ELSE Narrowed(f[n - 1])]
    BY <2>1
  <2> QED BY <2>2 DEF Narrowing
<1>2. \A m \in Nat : m \in S => m + 1 \in S
  BY NarrowingOn
<1>3. \A m \in Nat : m \in S
  <2> HIDE DEF S
  <2> QED BY <1>1, <1>2, EveryNatural
<1>4. Cardinality(Ty) \in Nat
  BY ArenaAssumption, FS_CardinalityType
<1>5. \E f : Narrowing(f, Cardinality(Ty))
  BY <1>3, <1>4
<1>6. Narrowing(Agreeing, Cardinality(Ty))
  BY <1>5 DEF Agreeing, Narrowing, Narrowed
<1> QED BY <1>6 DEF Narrowing

LEMMA AgreementAgrees ==
  ASSUME TypeOK, TableInv, NEW R, Coherent(R, {})
  PROVE  R \subseteq Agreeing[Cardinality(Ty)]
<1>1. R \subseteq Known \X Known
  BY DEF Coherent
<1>2. ASSUME NEW p \in R PROVE Alike(R, p[1], p[2])
  <2>1. CASE p[1] = p[2]
    <3>1. p[1] \in Known /\ Resolve(p[1]) \in Known
      BY <1>1, ResolveFacts DEF TableInv
    <3>2. \A i \in DOMAIN Kind[Resolve(p[1])].args :
            <<Kind[Resolve(p[1])].args[i], Kind[Resolve(p[1])].args[i]>> \in R
      BY <3>1, KnownArgs DEF Coherent
    <3> QED BY <2>1, <3>2 DEF Alike
  <2> QED BY <2>1 DEF Coherent
<1> DEFINE S == {n \in Nat : n <= Cardinality(Ty) => R \subseteq Agreeing[n]}
<1>3. Cardinality(Ty) \in Nat
  BY ArenaAssumption, FS_CardinalityType
<1>4. 0 \in S
  BY <1>1, <1>3, AgreeingIs
<1>5. ASSUME NEW n \in Nat, n \in S PROVE n + 1 \in S
  <2> SUFFICES ASSUME n + 1 <= Cardinality(Ty) PROVE R \subseteq Agreeing[n + 1]
    OBVIOUS
  <2>1. R \subseteq Agreeing[n]
    BY <1>3, <1>5
  <2>2. Agreeing[n + 1] = Narrowed(Agreeing[n])
    BY <1>3, AgreeingIs
  <2>3. \A p \in R : Alike(Agreeing[n], p[1], p[2])
    BY <1>2, <2>1, AlikeGrows
  <2> QED BY <2>1, <2>2, <2>3 DEF Narrowed
<1>6. \A n \in Nat : n \in S
  <2> HIDE DEF S
  <2> QED BY <1>4, <1>5, EveryNatural
<1> QED BY <1>3, <1>6

(* Whatever two types unify has returned Ok for are the same, at every depth, *)
(* and stay so for good (unify_impl): later unifications, also those that     *)
(* fail half way, generalisation and attempts at impls undo none of it, and a *)
(* rollback (speculatively) only what was unified since its snapshot.         *)
THEOREM SuccessMeansAgreement == Spec => []SuccessAgrees
<1>1. Init => Agreement
  <2> SUFFICES ASSUME Init PROVE Agreement
    OBVIOUS
  <2>1. Live = {} /\ saved = NoSnapshot /\ work = << >> /\ agreed = {}
    BY DEF Init, Live, SetOf
  <2>2. PICK I : I = {<<t, t>> : t \in Known}
    OBVIOUS
  <2>3. Coherent(I, {})
    BY <2>2 DEF Coherent
  <2> QED BY <2>1, <2>3 DEF Agreement, SavedAgreement, Idle, Trying
<1>2. IInv /\ Agreement /\ [Next]_vars => Agreement'
  BY StepAgreement
<1>3. IInv /\ Agreement => SuccessAgrees
  <2> SUFFICES ASSUME IInv, Agreement PROVE SuccessAgrees
    OBVIOUS
  <2>1. PICK R : Coherent(R, {}) /\ agreed \subseteq R
    BY DEF Agreement
  <2>2. TypeOK /\ TableInv
    BY DEF IInv, TableInv
  <2>3. R \subseteq Agreeing[Cardinality(Ty)]
    BY <2>1, <2>2, AgreementAgrees
  <2> QED BY <2>1, <2>3 DEF SuccessAgrees
<1> QED BY <1>1, <1>2, <1>3, TableInvariance, PTL DEF Spec
-----------------------------------------------------------------------------
(* What a closed solution makes of a type: the recursion of Val is over older *)
(* types only, so it is what its equation says.                               *)
Term(sigma, f, t) ==
  IF IsVar(t) THEN sigma[Kind[t].var]
  ELSE <<Kind[t].con, [i \in DOMAIN Kind[t].args |-> f[Kind[t].args[i]]]>>
Computes(sigma, f, C) == ArgsClosed(C) /\ f = [t \in C |-> Term(sigma, f, t)]

LEMMA ComputesIs ==
  ASSUME NEW sigma, NEW f, NEW C \in SUBSET Ty, Computes(sigma, f, C), NEW t \in C
  PROVE  /\ f[t] = Term(sigma, f, t)
         /\ \A i \in DOMAIN Kind[t].args : Kind[t].args[i] \in C
BY DEF Computes, ArgsClosed, SetOf

LEMMA ComputesOne ==
  ASSUME NEW sigma, NEW f, NEW g, NEW C \in SUBSET Ty, NEW D \in SUBSET Ty,
         Computes(sigma, f, C), Computes(sigma, g, D)
  PROVE  \A t \in C \cap D : f[t] = g[t]
<1> DEFINE S == {t \in C \cap D : f[t] # g[t]}
<1>1. SUFFICES ASSUME S # {} PROVE FALSE
  OBVIOUS
<1>2. PICK t \in S : SetOf(Kind[t].args) \cap S = {}
  <2>1. S \in SUBSET Ty
    OBVIOUS
  <2> HIDE DEF S
  <2> QED BY <1>1, <2>1, ArenaAssumption
<1>3. /\ f[t] = Term(sigma, f, t) /\ g[t] = Term(sigma, g, t)
      /\ \A i \in DOMAIN Kind[t].args : Kind[t].args[i] \in C \cap D
  BY <1>2, ComputesIs
<1>4. \A i \in DOMAIN Kind[t].args : f[Kind[t].args[i]] = g[Kind[t].args[i]]
  BY <1>2, <1>3 DEF SetOf
<1>5. Term(sigma, f, t) = Term(sigma, g, t)
  BY <1>4 DEF Term
<1> QED BY <1>2, <1>3, <1>5

LEMMA SameTerm ==
  ASSUME NEW sigma, NEW f, NEW g, NEW t \in Ty,
         \A i \in DOMAIN Kind[t].args : f[Kind[t].args[i]] = g[Kind[t].args[i]]
  PROVE  Term(sigma, f, t) = Term(sigma, g, t)
BY DEF Term

LEMMA ComputesAll ==
  ASSUME NEW sigma
  PROVE  \E f : Computes(sigma, f, Ty)
<1> DEFINE Reached(t, x) == \E C \in SUBSET Ty : \E f : t \in C /\ Computes(sigma, f, C) /\ x = f[t]
           B == {t \in Ty : \E x : Reached(t, x)}
           F == [t \in B |-> CHOOSE x : Reached(t, x)]
<1>1. ASSUME NEW C \in SUBSET Ty, NEW f, Computes(sigma, f, C), NEW t \in C
      PROVE  t \in B /\ F[t] = f[t]
  <2>1. Reached(t, f[t])
    BY <1>1
  <2>2. t \in B /\ Reached(t, F[t])
    BY <2>1
  <2>3. PICK D \in SUBSET Ty : \E g : t \in D /\ Computes(sigma, g, D) /\ F[t] = g[t]
    BY <2>2
  <2>4. PICK g : t \in D /\ Computes(sigma, g, D) /\ F[t] = g[t]
    BY <2>3
  <2>5. f[t] = g[t]
    BY <1>1, <2>4, ComputesOne
  <2> QED BY <2>2, <2>4, <2>5
<1>2. ASSUME NEW t \in B
      PROVE  /\ \A i \in DOMAIN Kind[t].args : Kind[t].args[i] \in B
             /\ F[t] = Term(sigma, F, t)
  <2>1. PICK C \in SUBSET Ty : \E f : t \in C /\ Computes(sigma, f, C)
    OBVIOUS
  <2>0. PICK f : t \in C /\ Computes(sigma, f, C)
    BY <2>1
  <2> HIDE DEF B, F, Reached
  <2>2. /\ f[t] = Term(sigma, f, t)
        /\ \A i \in DOMAIN Kind[t].args : Kind[t].args[i] \in C
    BY <2>0, ComputesIs
  <2>3. /\ F[t] = f[t]
        /\ \A i \in DOMAIN Kind[t].args :
             Kind[t].args[i] \in B /\ F[Kind[t].args[i]] = f[Kind[t].args[i]]
    BY <1>1, <2>0, <2>2
  <2>4. t \in Ty
    BY <2>0
  <2>5. Term(sigma, F, t) = Term(sigma, f, t)
    BY <2>3, <2>4, SameTerm
  <2> QED BY <2>2, <2>3, <2>5
<1>3. B \in SUBSET Ty /\ DOMAIN F = B /\ F = [t \in DOMAIN F |-> F[t]]
  OBVIOUS
<1> HIDE DEF B, F, Reached
<1>4. ArgsClosed(B)
  BY <1>2 DEF ArgsClosed, SetOf
<1>5. B = Ty
  <2> SUFFICES ASSUME Ty \ B # {} PROVE FALSE
    BY <1>3
  <2>1. PICK t \in Ty \ B : SetOf(Kind[t].args) \cap (Ty \ B) = {}
    BY ArenaAssumption
  <2>2. \A i \in DOMAIN Kind[t].args : Kind[t].args[i] \in B
    BY <2>1, ArenaFacts DEF SetOf
  <2> DEFINE C == B \cup {t}
             g == [u \in C |-> IF u \in B THEN F[u] ELSE Term(sigma, F, t)]
  <2>3. ArgsClosed(C)
    BY <1>4, <2>2 DEF ArgsClosed, SetOf
  <2>4. ASSUME NEW u \in C PROVE g[u] = Term(sigma, g, u)
    <3>1. \A i \in DOMAIN Kind[u].args : Kind[u].args[i] \in B
      BY <1>2, <2>2
    <3>2. \A i \in DOMAIN Kind[u].args : g[Kind[u].args[i]] = F[Kind[u].args[i]]
      BY <3>1
    <3>3. g[u] = Term(sigma, F, u)
      BY <1>2, <2>1
    <3>4. u \in Ty
      BY <1>3
    <3> HIDE DEF g
    <3> QED BY <3>2, <3>3, <3>4, SameTerm
  <2>5. DOMAIN g = C /\ g = [u \in DOMAIN g |-> g[u]]
    OBVIOUS
  <2>6. C \in SUBSET Ty /\ t \in C
    BY <1>3
  <2> HIDE DEF g, C
  <2>7. Computes(sigma, g, C)
    BY <2>3, <2>4, <2>5 DEF Computes
  <2> QED BY <1>1, <2>1, <2>6, <2>7
<1>6. F = [t \in B |-> Term(sigma, F, t)]
  BY <1>2, <1>3
<1>7. Computes(sigma, F, Ty)
  BY <1>4, <1>5, <1>6 DEF Computes
<1> QED BY <1>7

LEMMA ValIs ==
  ASSUME NEW sigma, NEW t \in Ty
  PROVE  Val(sigma, t) = IF IsVar(t) THEN sigma[Kind[t].var]
                         ELSE <<Kind[t].con, [i \in DOMAIN Kind[t].args |-> Val(sigma, Kind[t].args[i])]>>
<1> DEFINE f == CHOOSE g : g = [u \in Ty |-> Term(sigma, g, u)]
<1>1. \A u : Val(sigma, u) = f[u]
  BY DEF Val, Term
<1>2. f = [u \in Ty |-> Term(sigma, f, u)]
  BY ComputesAll DEF Computes
<1> HIDE DEF f
<1>3. f[t] = Term(sigma, f, t)
  BY <1>2
<1> QED BY <1>1, <1>3 DEF Term

LEMMA ValVar ==
  ASSUME NEW sigma, NEW t \in Ty, IsVar(t)
  PROVE  Val(sigma, t) = sigma[Kind[t].var]
BY ValIs

(* Two applications of constructors have the same value if the constructors   *)
(* are the same, and the values of their arguments.                           *)
LEMMA ValHeads ==
  ASSUME NEW sigma, NEW t \in Ty, NEW u \in Ty, ~IsVar(t), ~IsVar(u)
  PROVE  Val(sigma, t) = Val(sigma, u) <=>
           /\ Kind[t].con = Kind[u].con
           /\ Len(Kind[t].args) = Len(Kind[u].args)
           /\ \A i \in DOMAIN Kind[t].args : Val(sigma, Kind[t].args[i]) = Val(sigma, Kind[u].args[i])
<1>1. PICK k, l : k = Kind[t] /\ l = Kind[u]
  OBVIOUS
<1>2. PICK p, q : /\ p = [i \in DOMAIN k.args |-> Val(sigma, k.args[i])]
                  /\ q = [i \in DOMAIN l.args |-> Val(sigma, l.args[i])]
  OBVIOUS
<1>3. Val(sigma, t) = <<k.con, p>> /\ Val(sigma, u) = <<l.con, q>>
  BY <1>1, <1>2, ValIs
<1>4. /\ Len(k.args) \in Nat /\ Len(l.args) \in Nat
      /\ DOMAIN k.args = 1..Len(k.args) /\ DOMAIN l.args = 1..Len(l.args)
  BY <1>1, ArenaAssumption
<1>5. p = q <=> /\ Len(k.args) = Len(l.args)
                /\ \A i \in DOMAIN k.args : Val(sigma, k.args[i]) = Val(sigma, l.args[i])
  <2>1. ASSUME p = q PROVE Len(k.args) = Len(l.args) /\ \A i \in DOMAIN k.args : p[i] = q[i]
    <3>1. 1..Len(k.args) = 1..Len(l.args)
      BY <1>2, <1>4, <2>1
    <3> QED BY <1>4, <2>1, <3>1
  <2>2. ASSUME Len(k.args) = Len(l.args), \A i \in DOMAIN k.args : Val(sigma, k.args[i]) = Val(sigma, l.args[i])
        PROVE  p = q
    <3>1. DOMAIN k.args = DOMAIN l.args
      BY <1>4, <2>2
    <3> QED BY <1>2, <2>2, <3>1
  <2> QED BY <1>2, <1>4, <2>1, <2>2
<1>6. <<k.con, p>> = <<l.con, q>> <=> k.con = l.con /\ p = q
  OBVIOUS
<1> QED BY <1>1, <1>3, <1>5, <1>6
-----------------------------------------------------------------------------
(* The three things asked of a solution.                                      *)
OnClasses(sigma) == \A v, w \in Live : Key(v) = Key(w) => sigma[v] = sigma[w]
OnBindings(sigma) == \A v \in Live : bound[Key(v)] # NoTy => sigma[v] = Val(sigma, bound[Key(v)])
OnPairs(sigma, pairs) == \A p \in SetOf(pairs) : Val(sigma, p[1]) = Val(sigma, p[2])

LEMMA SolutionsAre ==
  /\ Solutions = {sigma \in [Live -> Ground] : OnClasses(sigma) /\ OnBindings(sigma) /\ OnPairs(sigma, work)}
  /\ Solutions' = {sigma \in [Live' -> Ground] : OnClasses(sigma)' /\ OnBindings(sigma)' /\ OnPairs(sigma, work')}
BY DEF Solutions, OnClasses, OnBindings, OnPairs, SetOf

LEMMA ValResolved ==
  ASSUME TypeOK, KeysMatch, NothingDangles, BoundToHeads, NEW t \in Known,
         NEW sigma, OnBindings(sigma)
  PROVE  Val(sigma, Resolve(t)) = Val(sigma, t)
<1>1. t \in Ty
  BY DEF Known
<1>2. CASE IsVar(t) /\ Binding(t) # NoTy
  <2>1. Kind[t].var \in Live
    BY <1>1, <1>2, ArenaFacts DEF Known
  <2>2. Val(sigma, t) = sigma[Kind[t].var]
    BY <1>1, <1>2, ValVar
  <2> QED BY <1>2, <2>1, <2>2 DEF Resolve, Binding, OnBindings
<1>3. CASE ~(IsVar(t) /\ Binding(t) # NoTy)
  BY <1>3 DEF Resolve
<1> QED BY <1>2, <1>3

(* What is asked of a solution that has met the bindings: to make what the    *)
(* two types at hand resolve to the same, and what is left to do.             *)
LEMMA OnWork ==
  ASSUME TypeOK, TableInv, WorkIsKnown, ~Idle, NEW sigma, OnBindings(sigma)
  PROVE  OnPairs(sigma, work) <=>
           Val(sigma, First) = Val(sigma, Second) /\ OnPairs(sigma, Tail(work))
<1>1. work \in Seq(Known \X Known) /\ work # << >>
  BY DEF WorkIsKnown, Idle
<1>2. PICK h, rest : h = Head(work) /\ rest = Tail(work)
  OBVIOUS
<1>3. SetOf(work) = {h} \cup SetOf(rest)
  <2>1. h = work[1] /\ 1 \in DOMAIN work
    BY <1>1, <1>2
  <2>2. \A i \in DOMAIN rest : i + 1 \in DOMAIN work /\ rest[i] = work[i + 1]
    BY <1>1, <1>2
  <2>3. \A i \in DOMAIN work : i = 1 \/ (i - 1 \in DOMAIN rest /\ rest[i - 1] = work[i])
    BY <1>1, <1>2
  <2> QED BY <2>1, <2>2, <2>3 DEF SetOf
<1>4. h[1] \in Known /\ h[2] \in Known
  BY <1>1, <1>2
<1>5. Val(sigma, First) = Val(sigma, h[1]) /\ Val(sigma, Second) = Val(sigma, h[2])
  BY <1>2, <1>4, ValResolved DEF First, Second, TableInv
<1> QED BY <1>2, <1>3, <1>5 DEF OnPairs

LEMMA OnConcat ==
  ASSUME NEW S, NEW s \in Seq(S), NEW t \in Seq(S), NEW sigma
  PROVE  OnPairs(sigma, s \o t) <=> OnPairs(sigma, s) /\ OnPairs(sigma, t)
<1>1. PICK c : c = s \o t
  OBVIOUS
<1>2. \A i \in DOMAIN c : (i \in DOMAIN s /\ c[i] = s[i]) \/ (i - Len(s) \in DOMAIN t /\ c[i] = t[i - Len(s)])
  BY <1>1
<1>3. /\ \A i \in DOMAIN s : i \in DOMAIN c /\ c[i] = s[i]
      /\ \A i \in DOMAIN t : Len(s) + i \in DOMAIN c /\ c[Len(s) + i] = t[i]
  BY <1>1, ConcatHolds
<1>4. SetOf(c) = SetOf(s) \cup SetOf(t)
  BY <1>2, <1>3 DEF SetOf
<1> QED BY <1>1, <1>4 DEF OnPairs

(* The steps.  Each leaves the variables in use, and of the pairs the rest.   *)
LEMMA SolvesVars ==
  ASSUME TypeOK, TableInv, WorkIsKnown, UnifyVars, NEW sigma \in [Live -> Ground]
  PROVE  OnClasses(sigma) /\ OnBindings(sigma) /\ OnPairs(sigma, work) <=>
         OnClasses(sigma)' /\ OnBindings(sigma)' /\ OnPairs(sigma, work')
<1>1. /\ ~Idle /\ UNCHANGED <<slots, varOf, bound>> /\ Live' = Live
      /\ work' = Tail(work) /\ IsVar(First) /\ IsVar(Second)
  BY DEF UnifyVars, Continue, Return, Live, SetOf
<1>2. PICK v, w : v = Kind[First].var /\ w = Kind[Second].var
  OBVIOUS
<1>3. v \in Live /\ w \in Live /\ bound[Key(v)] = NoTy /\ bound[Key(w)] = NoTy
  BY <1>1, <1>2, HeadFacts
<1>4. OnBindings(sigma) =>
        (OnPairs(sigma, work) <=> sigma[v] = sigma[w] /\ OnPairs(sigma, work'))
  <2>1. First \in Ty /\ Second \in Ty
    BY <1>1, HeadFacts DEF Known
  <2>2. Val(sigma, First) = sigma[v] /\ Val(sigma, Second) = sigma[w]
    BY <1>1, <1>2, <2>1, ValVar
  <2> QED BY <1>1, <2>2, OnWork
<1>5. CASE Key(v) = Key(w)
  <2>1. rep' = rep
    BY <1>2, <1>5 DEF UnifyVars
  <2>2. (OnClasses(sigma)' <=> OnClasses(sigma)) /\ (OnBindings(sigma)' <=> OnBindings(sigma))
    BY <1>1, <2>1 DEF OnClasses, OnBindings, Key
  <2>3. OnClasses(sigma) => sigma[v] = sigma[w]
    BY <1>3, <1>5 DEF OnClasses
  <2> QED BY <1>4, <2>2, <2>3
<1>6. CASE Key(v) # Key(w)
  <2>1. rep' = United(Key(v), Key(w))
    BY <1>2, <1>6 DEF UnifyVars
  <2>2. PICK r : r = UnionRoot(Key(v), Key(w)) /\ r \in {Key(v), Key(w)} /\ bound[r] = NoTy
    BY <1>3 DEF UnionRoot
  <2>3. \A x \in Live : Key(x)' = IF Key(x) \in {Key(v), Key(w)} THEN r ELSE Key(x)
    <3> SUFFICES ASSUME NEW x \in Live
                 PROVE  Key(x)' = IF Key(x) \in {Key(v), Key(w)} THEN r ELSE Key(x)
      OBVIOUS
    <3>1. slots[x] \in DOMAIN rep
      BY KeyFacts DEF TableInv
    <3> QED BY <1>1, <2>1, <2>2, <3>1 DEF Key, United
  <2>4. OnBindings(sigma)' <=> OnBindings(sigma)
    <3>1. OnBindings(sigma)' <=>
            \A x \in Live : bound[Key(x)'] # NoTy => sigma[x] = Val(sigma, bound[Key(x)'])
      BY <1>1 DEF OnBindings
    <3> QED BY <1>3, <2>2, <2>3, <3>1 DEF OnBindings
  <2>5. OnClasses(sigma)' <=> OnClasses(sigma) /\ sigma[v] = sigma[w]
    <3>1. OnClasses(sigma)' <=> \A x, y \in Live : Key(x)' = Key(y)' => sigma[x] = sigma[y]
      BY <1>1 DEF OnClasses
    <3> QED BY <1>3, <2>2, <2>3, <3>1 DEF OnClasses
  <2> QED BY <1>4, <2>4, <2>5
<1> QED BY <1>5, <1>6

(* What occurs in a type is the variable itself or occurs in a part of it.    *)
LEMMA OccursBelow ==
  ASSUME TypeOK, TableInv, NEW v \in Live, NEW t \in Ty, Occurs(v, t)
  PROVE  \/ IsVar(t) /\ Kind[t].var \in Live /\ Key(Kind[t].var) = Key(v)
         \/ \E p \in Parts(t) : Occurs(v, p)
<1> DEFINE ofClass(u) == IsVar(u) /\ Kind[u].var \in Live /\ Key(Kind[u].var) = Key(v)
           Free == {u \in Ty : ~Occurs(v, u)}
<1>1. SUFFICES ASSUME ~ofClass(t), \A p \in Parts(t) : ~Occurs(v, p)
               PROVE  FALSE
  OBVIOUS
<1>2. \A u \in Ty : Parts(u) \subseteq Ty
  <2> SUFFICES ASSUME NEW u \in Ty, NEW p \in Parts(u) PROVE p \in Ty
    OBVIOUS
  <2>1. CASE ~IsVar(u)
    BY <2>1, ArenaFacts DEF Parts
  <2>2. CASE IsVar(u)
    <3>1. p = Binding(u) /\ Kind[u].var \in Live /\ Binding(u) # NoTy
      BY <2>2 DEF Parts
    <3>2. Key(Kind[u].var) \in DOMAIN bound
      BY <3>1, KeyFacts DEF TableInv
    <3> QED BY <3>1, <3>2 DEF Binding, TypeOK
  <2> QED BY <2>1, <2>2
<1>3. ASSUME NEW u \in Free PROVE ~ofClass(u) /\ Parts(u) \subseteq Free
  <2>1. PICK S \in SUBSET Ty : u \in S /\ Closed(S) /\ \A w \in S : ~ofClass(w)
    BY DEF Occurs
  <2>2. \A p \in Parts(u) : p \in S
    BY <2>1 DEF Closed
  <2>3. \A p \in S : ~Occurs(v, p)
    BY <2>1 DEF Occurs
  <2> QED BY <2>1, <2>2, <2>3
<1>4. Closed(Free \cup {t}) /\ Free \cup {t} \in SUBSET Ty
  <2>1. Parts(t) \subseteq Free
    BY <1>1, <1>2
  <2> HIDE DEF Free
  <2>2. Free \subseteq Ty
    BY DEF Free
  <2> QED BY <1>3, <2>1, <2>2 DEF Closed
<1>5. \A w \in Free \cup {t} : ~ofClass(w)
  <2> HIDE DEF Free, ofClass
  <2> QED BY <1>1, <1>3
<1> HIDE DEF Free
<1> QED BY <1>4, <1>5 DEF Occurs

(* A variable that occurs in what it would be bound to: no finite type is a   *)
(* part of itself.                                                            *)
LEMMA OccursUnsolvable ==
  ASSUME TypeOK, TableInv, NEW v \in Live, bound[Key(v)] = NoTy,
         NEW u \in Known, ~IsVar(u), Occurs(v, u),
         NEW sigma \in [Live -> Ground], OnClasses(sigma), OnBindings(sigma),
         sigma[v] = Val(sigma, u)
  PROVE  FALSE
<1> DEFINE G == {g \in Ground : \E t \in Known : Occurs(v, t) /\ g = Val(sigma, t)}
<1>1. Val(sigma, u) \in G
  <2>1. sigma[v] \in Ground
    OBVIOUS
  <2> QED BY <2>1
<1>2. PICK g \in G : SetOf(g[2]) \cap G = {}
  <2>1. G \in SUBSET Ground /\ G # {}
    BY <1>1
  <2> HIDE DEF G
  <2> QED BY <2>1, GroundAssumption
<1>3. PICK t \in Known : Occurs(v, t) /\ g = Val(sigma, t)
  BY <1>2
<1>4. PICK c \in Known : ~IsVar(c) /\ Occurs(v, c) /\ g = Val(sigma, c)
  <2>1. CASE ~IsVar(t)
    BY <1>3, <2>1
  <2>2. CASE IsVar(t)
    <3>1. t \in Ty /\ Kind[t].var \in Live
      BY <2>2, ArenaFacts DEF Known
    <3>2. Val(sigma, t) = sigma[Kind[t].var]
      BY <2>2, <3>1, ValVar
    <3>3. CASE Key(Kind[t].var) = Key(v)
      <4>1. sigma[Kind[t].var] = sigma[v]
        BY <3>1, <3>3 DEF OnClasses
      <4> QED BY <1>3, <3>2, <4>1
    <3>4. CASE Key(Kind[t].var) # Key(v)
      <4>1. PICK p \in Parts(t) : Occurs(v, p)
        BY <1>3, <3>1, <3>4, OccursBelow
      <4>2. p = Binding(t) /\ Binding(t) # NoTy
        BY <2>2, <4>1 DEF Parts
      <4>3. Key(Kind[t].var) \in DOMAIN bound
        BY <3>1, KeyFacts DEF TableInv
      <4>4. p \in Known /\ ~IsVar(p)
        BY <4>2, <4>3 DEF Binding, TableInv, NothingDangles, BoundToHeads
      <4>5. sigma[Kind[t].var] = Val(sigma, p)
        BY <3>1, <4>2 DEF OnBindings, Binding
      <4> QED BY <1>3, <3>2, <4>1, <4>4, <4>5
    <3> QED BY <3>3, <3>4
  <2> QED BY <2>1, <2>2
<1>5. c \in Ty /\ Kind[c].args \in Seq(Known)
  BY KnownArgs DEF Known
<1>6. PICK i \in DOMAIN Kind[c].args : Occurs(v, Kind[c].args[i])
  <2>1. \E p \in Parts(c) : Occurs(v, p)
    BY <1>4, <1>5, OccursBelow
  <2> QED BY <1>4, <2>1 DEF Parts, SetOf
<1>7. Kind[c].args[i] \in Known
  BY <1>5
<1>8. Val(sigma, Kind[c].args[i]) \in SetOf(g[2])
  <2>1. g = <<Kind[c].con, [j \in DOMAIN Kind[c].args |-> Val(sigma, Kind[c].args[j])]>>
    BY <1>4, <1>5, ValIs
  <2>2. g[2] = [j \in DOMAIN Kind[c].args |-> Val(sigma, Kind[c].args[j])]
    BY <2>1
  <2> QED BY <2>2 DEF SetOf
<1>9. Val(sigma, Kind[c].args[i]) \in Ground
  BY <1>2, <1>8, GroundAssumption
<1> QED BY <1>2, <1>6, <1>7, <1>8, <1>9

LEMMA SolvesBind ==
  ASSUME TypeOK, TableInv, WorkIsKnown, BindVar, NEW sigma \in [Live -> Ground]
  PROVE  IF outcome' = "err"
         THEN ~(OnClasses(sigma) /\ OnBindings(sigma) /\ OnPairs(sigma, work))
         ELSE OnClasses(sigma) /\ OnBindings(sigma) /\ OnPairs(sigma, work) <=>
              OnClasses(sigma)' /\ OnBindings(sigma)' /\ OnPairs(sigma, work')
<1>1. PICK t \in {First, Second}, u \in {First, Second} :
        /\ ~Idle /\ BindOrFail(t, u)
        /\ (t = First /\ u = Second) \/ (t = Second /\ u = First)
  BY DEF BindVar
<1>2. /\ IsVar(t) /\ ~IsVar(u) /\ UNCHANGED <<slots, varOf, rep>> /\ Live' = Live
  BY <1>1 DEF BindOrFail, Live, SetOf
<1>3. PICK v : v = Kind[t].var
  OBVIOUS
<1>4. v \in Live /\ bound[Key(v)] = NoTy /\ u \in Known /\ t \in Ty
  BY <1>1, <1>2, <1>3, HeadFacts DEF Known
<1>5. OnBindings(sigma) =>
        (OnPairs(sigma, work) <=> sigma[v] = Val(sigma, u) /\ OnPairs(sigma, Tail(work)))
  <2>1. Val(sigma, t) = sigma[v]
    BY <1>2, <1>3, <1>4, ValVar
  <2>2. OnBindings(sigma) =>
        (OnPairs(sigma, work) <=> Val(sigma, First) = Val(sigma, Second) /\ OnPairs(sigma, Tail(work)))
    BY <1>1, OnWork
  <2> QED BY <1>1, <2>1, <2>2
<1>6. CASE Occurs(v, u)
  <2>1. outcome' = "err"
    BY <1>1, <1>3, <1>6 DEF BindOrFail, Fail, Return
  <2> QED BY <1>2, <1>4, <1>5, <1>6, <2>1, OccursUnsolvable
<1>7. CASE ~Occurs(v, u)
  <2>1. bound' = [bound EXCEPT ![Key(v)] = u] /\ work' = Tail(work) /\ outcome' # "err"
    BY <1>1, <1>3, <1>7 DEF BindOrFail, Continue, Return, TypeOK, CallOK
  <2>2. \A x \in Live : /\ Key(x)' = Key(x)
                        /\ bound'[Key(x)] = IF Key(x) = Key(v) THEN u ELSE bound[Key(x)]
    <3>1. \A x \in Live : Key(x) \in DOMAIN bound
      BY KeyFacts DEF TableInv
    <3> QED BY <1>2, <2>1, <3>1 DEF Key
  <2>3. OnClasses(sigma)' <=> OnClasses(sigma)
    <3>1. OnClasses(sigma)' <=> \A x, y \in Live : Key(x)' = Key(y)' => sigma[x] = sigma[y]
      BY <1>2 DEF OnClasses
    <3> QED BY <2>2, <3>1 DEF OnClasses
  <2>4. u # NoTy
    BY <1>4, ArenaAssumption DEF Known
  <2>5. OnClasses(sigma) => (OnBindings(sigma)' <=> OnBindings(sigma) /\ sigma[v] = Val(sigma, u))
    <3>1. OnBindings(sigma)' <=>
            \A x \in Live : bound'[Key(x)'] # NoTy => sigma[x] = Val(sigma, bound'[Key(x)'])
      BY <1>2 DEF OnBindings
    <3>2. OnBindings(sigma)' <=>
            \A x \in Live : IF Key(x) = Key(v) THEN sigma[x] = Val(sigma, u)
                            ELSE bound[Key(x)] # NoTy => sigma[x] = Val(sigma, bound[Key(x)])
      BY <2>2, <2>4, <3>1
    <3>3. OnBindings(sigma) <=>
            \A x \in Live : Key(x) # Key(v) => (bound[Key(x)] # NoTy => sigma[x] = Val(sigma, bound[Key(x)]))
      BY <1>4 DEF OnBindings
    <3>4. OnClasses(sigma) => \A x \in Live : Key(x) = Key(v) => sigma[x] = sigma[v]
      BY <1>4 DEF OnClasses
    <3> QED BY <1>4, <3>2, <3>3, <3>4
  <2> QED BY <1>5, <2>1, <2>3, <2>5
<1> QED BY <1>6, <1>7

LEMMA SolvesHeads ==
  ASSUME TypeOK, TableInv, WorkIsKnown, UnifyHeads, ~LetThrough(Kind[First], Kind[Second]),
         NEW sigma \in [Live -> Ground]
  PROVE  IF outcome' = "err"
         THEN ~(OnClasses(sigma) /\ OnBindings(sigma) /\ OnPairs(sigma, work))
         ELSE OnClasses(sigma) /\ OnBindings(sigma) /\ OnPairs(sigma, work) <=>
              OnClasses(sigma)' /\ OnBindings(sigma)' /\ OnPairs(sigma, work')
<1>1. /\ ~Idle /\ UNCHANGED <<slots, varOf, rep, bound>> /\ Live' = Live
      /\ ~IsVar(First) /\ ~IsVar(Second)
  BY DEF UnifyHeads, table, Live, SetOf
<1>2. (OnClasses(sigma)' <=> OnClasses(sigma)) /\ (OnBindings(sigma)' <=> OnBindings(sigma))
  BY <1>1 DEF OnClasses, OnBindings, Key
<1>3. PICK k, l : k = Kind[First] /\ l = Kind[Second]
  OBVIOUS
<1>4. /\ First \in Ty /\ Second \in Ty /\ Tail(work) \in Seq(Known \X Known)
      /\ k.args \in Seq(Known) /\ l.args \in Seq(Known)
  BY <1>1, <1>3, HeadFacts, KnownArgs DEF Known
<1>5. Val(sigma, First) = Val(sigma, Second) <=>
        /\ k.con = l.con
        /\ Len(k.args) = Len(l.args)
        /\ \A i \in DOMAIN k.args : Val(sigma, k.args[i]) = Val(sigma, l.args[i])
  BY <1>1, <1>3, <1>4, ValHeads
<1>6. OnBindings(sigma) =>
        (OnPairs(sigma, work) <=> Val(sigma, First) = Val(sigma, Second) /\ OnPairs(sigma, Tail(work)))
  BY <1>1, OnWork
<1>7. /\ {k.con, l.con} \cap Wildcards = {}
      /\ k.con = l.con /\ k.con \notin FixedArity => Len(k.args) = Len(l.args)
  BY <1>3 DEF LetThrough
<1>8. CASE ~Matches(k, l)
  <2>1. outcome' = "err"
    BY <1>3, <1>7, <1>8 DEF UnifyHeads, Fail, Return
  <2>2. ~(k.con = l.con /\ Len(k.args) = Len(l.args))
    BY <1>8 DEF Matches
  <2> QED BY <1>5, <1>6, <2>1, <2>2
<1>9. CASE Matches(k, l)
  <2>1. Continue(Zip(k.args, l.args) \o Tail(work))
    BY <1>3, <1>7, <1>9 DEF UnifyHeads
  <2>2. k.con = l.con /\ Len(k.args) = Len(l.args)
    BY <1>7, <1>9 DEF Matches
  <2>3. PICK z : z = Zip(k.args, l.args)
    OBVIOUS
  <2>4. z \in Seq(Known \X Known)
    BY <1>4, <2>3, ZipFacts
  <2>5. PICK n : n = Len(k.args) /\ n \in Nat /\ n = Len(l.args) /\ DOMAIN k.args = 1..n
    <3>1. Len(k.args) \in Nat /\ DOMAIN k.args = 1..Len(k.args)
      BY <1>4
    <3> QED BY <2>2, <3>1
  <2>6. z = [i \in 1..n |-> <<k.args[i], l.args[i]>>]
    BY <2>3, <2>5 DEF Zip
  <2>7. OnPairs(sigma, z) <=> \A i \in 1..n : Val(sigma, k.args[i]) = Val(sigma, l.args[i])
    <3>1. DOMAIN z = 1..n
      BY <2>6
    <3>2. \A i \in 1..n : z[i][1] = k.args[i] /\ z[i][2] = l.args[i]
      BY <2>6
    <3>3. OnPairs(sigma, z) <=> \A i \in 1..n : Val(sigma, z[i][1]) = Val(sigma, z[i][2])
      BY <3>1 DEF OnPairs, SetOf
    <3> QED BY <3>2, <3>3
  <2>8. work' = z \o Tail(work) /\ outcome' # "err"
    BY <1>1, <2>1, <2>3 DEF Continue, Return, TypeOK, CallOK
  <2>9. OnPairs(sigma, work') <=> OnPairs(sigma, z) /\ OnPairs(sigma, Tail(work))
    BY <1>4, <2>4, <2>8, OnConcat
  <2> QED BY <1>2, <1>5, <1>6, <2>2, <2>5, <2>7, <2>8, <2>9
<1> QED BY <1>8, <1>9

Faithful ==
  ~Idle /\ ~LetThrough(Kind[First], Kind[Second]) =>
    IF outcome' = "err" THEN Solutions = {} ELSE Solutions' = Solutions

LEMMA StepFaithful ==
  ASSUME IInv, Next
  PROVE  Faithful
<1> SUFFICES ASSUME ~Idle, ~LetThrough(Kind[First], Kind[Second])
             PROVE  IF outcome' = "err" THEN Solutions = {} ELSE Solutions' = Solutions
  BY DEF Faithful
<1>1. TypeOK /\ TableInv /\ WorkIsKnown
  BY DEF IInv, TableInv
<1>2. UnifyVars \/ BindVar \/ UnifyHeads
  BY DEF Next, UnifyStep, FreshVar, Proceeding, Unify, BindGeneric, Snapshot, Commit, Rollback
<1>3. Live' = Live
  BY <1>2 DEF UnifyVars, BindVar, BindOrFail, UnifyHeads, table, Live, SetOf
<1>4. \A sigma \in [Live -> Ground] :
        IF outcome' = "err"
        THEN ~(OnClasses(sigma) /\ OnBindings(sigma) /\ OnPairs(sigma, work))
        ELSE OnClasses(sigma) /\ OnBindings(sigma) /\ OnPairs(sigma, work) <=>
             OnClasses(sigma)' /\ OnBindings(sigma)' /\ OnPairs(sigma, work')
  <2> SUFFICES ASSUME NEW sigma \in [Live -> Ground]
               PROVE  IF outcome' = "err"
                      THEN ~(OnClasses(sigma) /\ OnBindings(sigma) /\ OnPairs(sigma, work))
                      ELSE OnClasses(sigma) /\ OnBindings(sigma) /\ OnPairs(sigma, work) <=>
                           OnClasses(sigma)' /\ OnBindings(sigma)' /\ OnPairs(sigma, work')
    OBVIOUS
  <2>1. CASE UnifyVars
    <3>1. outcome' # "err"
      BY <1>1, <2>1 DEF UnifyVars, Continue, Return, TypeOK, CallOK
    <3> QED BY <1>1, <2>1, <3>1, SolvesVars
  <2>2. CASE BindVar
    BY <1>1, <2>2, SolvesBind
  <2>3. CASE UnifyHeads
    BY <1>1, <2>3, SolvesHeads
  <2> QED BY <1>2, <2>1, <2>2, <2>3
<1>5. CASE outcome' = "err"
  BY <1>4, <1>5, SolutionsAre
<1>6. CASE outcome' # "err"
  BY <1>3, <1>4, <1>6, SolutionsAre
<1> QED BY <1>5, <1>6

(* No step of a unification gains or loses a solution, and where unify fails  *)
(* there is none: what the checker infers is the most general type there is,  *)
(* and an error it reports is one no choice of types would have avoided.      *)
THEOREM UnificationIsMostGeneral == Spec => MostGeneral
<1>1. IInv /\ [Next]_vars => [Faithful]_vars
  BY StepFaithful
<1>2. [][Faithful]_vars <=> MostGeneral
  BY PTL DEF MostGeneral, Faithful
<1>3. QED
  BY <1>1, <1>2, TableInvariance, PTL DEF Spec
=============================================================================
