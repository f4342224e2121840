------------------------- MODULE VmDiscipline_proofs -------------------------
(***************************************************************************)
(* What holds of every program on the virtual machine, for every width of  *)
(* integers, with or without overflow checks; and that the calling         *)
(* convention is enough, for every disciplined program: what a function's  *)
(* callers have on the stack is safe from it, and only values can be at    *)
(* fault.                                                                  *)
(***************************************************************************)
EXTENDS VmDiscipline, TLAPS


Given == {"TypeMismatch", "DivisionByZero", "ShiftOverflow", "Overflow"}
Result == Scalar \cup ({"Err"} \X Given)
-----------------------------------------------------------------------------
(* Operations on values give a value of that width, or an error of theirs.    *)

LEMMA WidthFacts ==
  /\ MinInt \in Int /\ MaxInt \in Int
  /\ MinInt < 0 /\ MaxInt = -MinInt - 1
  /\ 2^Width \in Nat /\ 2^Width = MaxInt - MinInt + 1
<1>1. Width - 1 \in Nat /\ Width - 1 \in 0..Width /\ Width \in 0..Width
  BY WidthAssumption
<1>2. 2^(Width - 1) \in Int /\ 2^Width \in Int
  BY <1>1, SMT
<1>3. 2^(Width - 1) > 0 /\ 2^Width > 0 /\ 2^Width = 2 * 2^(Width - 1)
  BY <1>1, WidthAssumption
<1> QED
  BY <1>2, <1>3 DEF MinInt, MaxInt

LEMMA IntResult == ASSUME NEW n \in Ints PROVE IntOf(n) \in Result
  BY DEF IntOf, Result, Scalar

LEMMA BoolResult == ASSUME NEW p \in BOOLEAN PROVE BoolOf(p) \in Result
  BY DEF BoolOf, Result, Scalar

LEMMA FailureResult == ASSUME NEW e \in Given PROVE Failure(e) \in Result
  BY DEF Failure, Result

LEMMA FitResult == ASSUME NEW n \in Int PROVE Fit(n) \in Result
<1>1. CASE n \in Ints
  BY <1>1, IntResult DEF Fit
<1>2. CASE n \notin Ints
  BY <1>2, FailureResult DEF Fit, Given
<1> QED BY <1>1, <1>2

LEMMA DivBounds ==
  ASSUME NEW n \in Nat, NEW m \in Nat \ {0}
  PROVE  /\ n \div m \in 0..n
         /\ m >= 2 => 2 * (n \div m) <= n
         /\ n - m * (n \div m) \in 0..n
         /\ n - m * (n \div m) < m
<1> DEFINE q == n \div m
<1>1. q \in Int /\ n = m * q + (n % m) /\ n % m \in 0..(m - 1)
  BY SMT
<1>2. q >= 0
  BY SMT
<1>3. m * q >= q /\ (m >= 2 => m * q >= 2 * q)
  BY <1>1, <1>2, SMT
<1>4. m * q \in Int
  BY <1>1
<1> QED BY <1>1, <1>2, <1>3, <1>4

LEMMA QuotientFits ==
  ASSUME NEW a \in Ints, NEW b \in Ints, b # 0, ~(a = MinInt /\ b = -1)
  PROVE  Quotient(a, b) \in Ints /\ a - b * Quotient(a, b) \in Ints
<1> DEFINE p == IF a >= 0 THEN a ELSE -a
           d == IF b > 0 THEN b ELSE -b
           q == p \div d
<1>0. MinInt \in Int /\ MaxInt \in Int /\ MinInt < 0 /\ MaxInt = -MinInt - 1
  BY WidthFacts
<1>1. a \in Int /\ b \in Int /\ a >= MinInt /\ a <= MaxInt /\ b >= MinInt /\ b <= MaxInt
  BY <1>0 DEF Ints
<1>2. p \in Nat /\ d \in Nat \ {0} /\ p <= MaxInt + 1
  BY <1>0, <1>1
<1>3. q \in 0..p /\ (d >= 2 => 2 * q <= p) /\ p - d * q \in 0..p
  BY <1>2, DivBounds
<1>4. d * q \in Int
  BY <1>2, <1>3
<1>5. b > 0 /\ a >= 0 => Quotient(a, b) = q /\ a - b * Quotient(a, b) = p - d * q
  BY <1>1, <1>3 DEF Quotient
<1>6. b > 0 /\ a < 0 => Quotient(a, b) = -q /\ a - b * Quotient(a, b) = -(p - d * q)
  BY <1>1, <1>3 DEF Quotient
<1>7. b < 0 /\ a >= 0 => Quotient(a, b) = -q /\ a - b * Quotient(a, b) = p - d * q
  BY <1>1, <1>3 DEF Quotient
<1>8. b < 0 /\ a < 0 => Quotient(a, b) = q /\ a - b * Quotient(a, b) = -(p - d * q)
  BY <1>1, <1>3 DEF Quotient
<1>9. b < 0 /\ a < 0 => q <= MaxInt
  <2> SUFFICES ASSUME b < 0, a < 0 PROVE q <= MaxInt
    OBVIOUS
  <2>1. CASE d >= 2
    BY <2>1, <1>0, <1>2, <1>3
  <2>2. CASE d = 1
    <3>1. b = -1
      BY <2>2, <1>1
    <3>2. p <= MaxInt
      BY <3>1, <1>0, <1>1
    <3> QED BY <3>2, <1>0, <1>3, <1>2
  <2> QED BY <2>1, <2>2, <1>2
<1> HIDE DEF q
<1>10. CASE b > 0 /\ a >= 0
  BY <1>10, <1>5, <1>0, <1>1, <1>3 DEF Ints
<1>11. CASE b > 0 /\ a < 0
  BY <1>11, <1>6, <1>0, <1>1, <1>2, <1>3, <1>4 DEF Ints
<1>12. CASE b < 0 /\ a >= 0
  BY <1>12, <1>7, <1>0, <1>1, <1>2, <1>3, <1>4 DEF Ints
<1>13. CASE b < 0 /\ a < 0
  BY <1>13, <1>8, <1>9, <1>0, <1>1, <1>2, <1>3, <1>4 DEF Ints
<1> QED BY <1>1, <1>10, <1>11, <1>12, <1>13

LEMMA DividedResult ==
  ASSUME NEW a \in Ints, NEW b \in Ints
  PROVE  /\ Divided(a, b, Quotient(a, b)) \in Result
         /\ Divided(a, b, a - b * Quotient(a, b)) \in Result
<1>1. CASE b = 0
  BY <1>1, FailureResult DEF Divided, Given
<1>2. CASE b # 0 /\ a = MinInt /\ b = -1
  BY <1>2, FailureResult DEF Divided, Given
<1>3. CASE b # 0 /\ ~(a = MinInt /\ b = -1)
  BY <1>3, QuotientFits, IntResult DEF Divided
<1> QED BY <1>1, <1>2, <1>3

LEMMA ShiftedResult ==
  ASSUME NEW a \in Ints, NEW b \in Ints
  PROVE  Shifted(b, Wrapped(a * 2^b)) \in Result /\ Shifted(b, a \div 2^b) \in Result
<1>0. MinInt \in Int /\ MaxInt \in Int /\ MinInt < 0 /\ MaxInt = -MinInt - 1
  BY WidthFacts
<1>1. a \in Int /\ b \in Int /\ a >= MinInt /\ a <= MaxInt
  BY <1>0 DEF Ints
<1>2. CASE b \notin 0..(Width - 1)
  BY <1>2, FailureResult DEF Shifted, Given
<1>3. CASE b \in 0..(Width - 1)
  <2>1. b \in 0..Width /\ Width \in Nat
    BY <1>1, <1>3, WidthAssumption
  <2>2. 2^b > 0 /\ 2^b \in Int
    BY <2>1, WidthAssumption, SMT
  <2> DEFINE d == 2^b
             n == a * d
             q == a \div d
  <2>3. d \in Int /\ d > 0 /\ n \in Int
    BY <1>1, <2>2
  <2>4. Wrapped(n) \in Ints
    <3> DEFINE m == 2^Width
               k == n - MinInt
    <3>1. m \in Int /\ m > 0 /\ m = MaxInt - MinInt + 1
      BY <1>0, WidthFacts
    <3>2. k \in Int
      BY <1>0, <2>3
    <3>3. k % m \in 0..(m - 1)
      <4> HIDE DEF k, m
      <4> QED BY <3>1, <3>2
    <3>4. Wrapped(n) = (k % m) + MinInt
      BY DEF Wrapped
    <3> HIDE DEF k, m, n
    <3> QED BY <1>0, <3>1, <3>3, <3>4 DEF Ints
  <2>5. q \in Ints
    <3>1. q \in Int /\ a = d * q + (a % d) /\ a % d \in 0..(d - 1)
      <4> HIDE DEF d
      <4> QED BY <1>1, <2>3
    <3>2. d * q \in Int
      BY <2>3, <3>1
    <3> HIDE DEF d, q
    <3>3. a >= 0 => q >= 0
      BY <1>1, <2>3, <3>1, <3>2
    <3>4. a >= 0 => q <= a
      BY <1>1, <2>3, <3>1, <3>2, <3>3
    <3>5. a < 0 => q < 0
      BY <1>1, <2>3, <3>1, <3>2
    <3>6. a < 0 => q >= a
      <4> SUFFICES ASSUME a < 0, q < a PROVE FALSE
        BY <1>1, <3>1
      <4>1. q <= a - 1 /\ q <= 0
        BY <1>1, <3>1
      <4>2. d * q <= q
        BY <4>1, <2>3, <3>1
      <4>3. d * q <= d * (a - 1)
        BY <4>1, <2>3, <3>1, <1>1
      <4>4. d * (a - 1) = d * a - d /\ d * a <= a
        BY <2>3, <1>1
      <4> QED BY <4>3, <4>4, <3>1, <3>2, <2>3, <1>1
    <3> QED BY <1>0, <1>1, <3>1, <3>3, <3>4, <3>5, <3>6 DEF Ints
  <2> HIDE DEF d, n, q
  <2>6. IntOf(Wrapped(n)) \in Result /\ IntOf(q) \in Result
    BY <2>4, <2>5, IntResult
  <2> QED BY <1>3, <2>6 DEF Shifted, d, n, q
<1> QED BY <1>2, <1>3

LEMMA BitResult ==
  ASSUME NEW op \in Logic, NEW a \in Ints, NEW b \in Ints
  PROVE  BitByBit(op, a, b) \in Result
<1> DEFINE f == [i \in 0..(Width - 1) |-> OnBits(op, Bit(a, i), Bit(b, i))]
<1>1. a \in Int /\ b \in Int
  BY WidthFacts DEF Ints
<1>2. ASSUME NEW n \in Int, NEW i \in 0..(Width - 1) PROVE Bit(n, i) \in {0, 1}
  <2>1. i \in 0..Width
    BY WidthAssumption
  <2>2. 2^i > 0 /\ 2^i \in Int
    BY <2>1, WidthAssumption, SMT
  <2> DEFINE d == 2^i
             q == n \div d
  <2>3. q \in Int
    <3>1. d \in Int /\ d > 0
      BY <2>2
    <3> HIDE DEF d
    <3> QED BY <3>1
  <2>4. Bit(n, i) = q % 2
    BY DEF Bit
  <2> HIDE DEF q
  <2> QED BY <2>3, <2>4
<1>3. ASSUME NEW x \in {0, 1}, NEW y \in {0, 1} PROVE OnBits(op, x, y) \in {0, 1}
  BY DEF OnBits, Logic
<1>4. \A i \in 0..(Width - 1) : OnBits(op, Bit(a, i), Bit(b, i)) \in {0, 1}
  BY <1>1, <1>2, <1>3
<1>5. f \in [0..(Width - 1) -> {0, 1}]
  BY <1>4
<1>6. PICK n \in Ints : \A i \in 0..(Width - 1) : Bit(n, i) = f[i]
  BY <1>5, BitsAssumption
<1>7. \A i \in 0..(Width - 1) : Bit(n, i) = OnBits(op, Bit(a, i), Bit(b, i))
  BY <1>6
<1>8. (CHOOSE m \in Ints : \A i \in 0..(Width - 1) : Bit(m, i) = OnBits(op, Bit(a, i), Bit(b, i))) \in Ints
  BY <1>7
<1> QED BY <1>8, IntResult DEF BitByBit

LEMMA OnIntsResult ==
  ASSUME NEW op \in BinaryOps, NEW a \in Ints, NEW b \in Ints
  PROVE  OnInts(op, a, b) \in Result
<1>1. a \in Int /\ b \in Int
  BY WidthFacts DEF Ints
<1>2. CASE op \in {"Add", "Sub", "Mul"}
  <2>1. a + b \in Int /\ a - b \in Int /\ a * b \in Int
    BY <1>1
  <2>2. Fit(a + b) \in Result /\ Fit(a - b) \in Result /\ Fit(a * b) \in Result
    BY <2>1, FitResult
  <2>3. CASE op = "Add"
    BY <2>2, <2>3 DEF OnInts, Logic
  <2>4. CASE op = "Sub"
    BY <2>2, <2>4 DEF OnInts, Logic
  <2>5. CASE op = "Mul"
    BY <2>2, <2>5 DEF OnInts, Logic
  <2> QED BY <1>2, <2>3, <2>4, <2>5
<1>3. CASE op \in {"Div", "Rem"}
  <2>1. CASE op = "Div"
    BY <2>1, DividedResult DEF OnInts, Logic
  <2>2. CASE op = "Rem"
    BY <2>2, DividedResult DEF OnInts, Logic
  <2> QED BY <1>3, <2>1, <2>2
<1>4. CASE op \in Logic
  <2>1. OnInts(op, a, b) = BitByBit(op, a, b)
    BY <1>4 DEF OnInts, Logic
  <2> QED BY <1>4, <2>1, BitResult
<1>5. CASE op \in {"Shl", "Shr"}
  <2>1. CASE op = "Shl"
    BY <2>1, ShiftedResult DEF OnInts, Logic
  <2>2. CASE op = "Shr"
    BY <2>2, ShiftedResult DEF OnInts, Logic
  <2> QED BY <1>5, <2>1, <2>2
<1>6. CASE op \in Equality \cup Ordering
  <2>1. /\ BoolOf(a = b) \in Result /\ BoolOf(a # b) \in Result
        /\ BoolOf(a < b) \in Result /\ BoolOf(a <= b) \in Result
        /\ BoolOf(a > b) \in Result /\ BoolOf(a >= b) \in Result
    <3>1. /\ (a = b) \in BOOLEAN /\ (a # b) \in BOOLEAN
          /\ (a < b) \in BOOLEAN /\ (a <= b) \in BOOLEAN
          /\ (a > b) \in BOOLEAN /\ (a >= b) \in BOOLEAN
      BY <1>1
    <3> QED BY <3>1, BoolResult, Zenon
  <2>2. CASE op = "Eq"
    BY <2>1, <2>2 DEF OnInts, Logic
  <2>3. CASE op = "Ne"
    BY <2>1, <2>3 DEF OnInts, Logic
  <2>4. CASE op = "Lt"
    BY <2>1, <2>4 DEF OnInts, Logic
  <2>5. CASE op = "Le"
    BY <2>1, <2>5 DEF OnInts, Logic
  <2>6. CASE op = "Gt"
    BY <2>1, <2>6 DEF OnInts, Logic
  <2>7. CASE op = "Ge"
    BY <2>1, <2>7 DEF OnInts, Logic
  <2> QED BY <1>6, <2>2, <2>3, <2>4, <2>5, <2>6, <2>7 DEF Equality, Ordering
<1> QED BY <1>2, <1>3, <1>4, <1>5, <1>6 DEF BinaryOps, Arithmetic

LEMMA OnBoolsResult ==
  ASSUME NEW op, NEW a \in BOOLEAN, NEW b \in BOOLEAN
  PROVE  OnBools(op, a, b) \in Result
<1>1. OnBools(op, a, b) = Mismatch \/ \E p \in BOOLEAN : OnBools(op, a, b) = BoolOf(p)
  BY DEF OnBools
<1>2. Mismatch \in Result
  BY FailureResult DEF Mismatch, Given
<1> QED BY <1>1, <1>2, BoolResult

LEMMA KindFacts ==
  ASSUME NEW v \in Value
  PROVE  \/ Kind(v) = "Int" /\ Val(v) \in Ints
         \/ Kind(v) = "Bool" /\ Val(v) \in BOOLEAN
         \/ Kind(v) = "Float"
         \/ Kind(v) = "Ref" /\ Val(v) \in Nat
  BY DEF Value, Scalar, Float, Kind, Val

(* What the two operands are decides which operation it is: an error, or a    *)
(* value that is no reference.                                                *)
LEMMA BinaryResult ==
  ASSUME NEW op \in BinaryOps, NEW v \in Value, NEW w \in Value
  PROVE  Binary(op, v, w) \subseteq Result
<1>1. Mismatch \in Result /\ Float \in Result
  BY FailureResult DEF Mismatch, Given, Result, Scalar
<1>2. CASE Kind(v) # Kind(w)
  BY <1>1, <1>2 DEF Binary
<1>3. CASE Kind(v) = Kind(w) /\ Kind(v) = "Int"
  <2>1. Val(v) \in Ints /\ Val(w) \in Ints
    BY <1>3, KindFacts
  <2> QED BY <1>3, <2>1, OnIntsResult DEF Binary
<1>4. CASE Kind(v) = Kind(w) /\ Kind(v) = "Bool"
  <2>1. Val(v) \in BOOLEAN /\ Val(w) \in BOOLEAN
    BY <1>4, KindFacts
  <2>2. OnBools(op, Val(v), Val(w)) \in Result
    BY <2>1, OnBoolsResult
  <2> QED BY <1>4, <2>2 DEF Binary
<1>5. CASE Kind(v) = Kind(w) /\ Kind(v) = "Float"
  <2>1. OnFloats(op) \subseteq Result
    BY <1>1, BoolResult DEF OnFloats
  <2> QED BY <1>5, <2>1 DEF Binary
<1>6. CASE Kind(v) = Kind(w) /\ Kind(v) = "Ref"
  BY <1>1, <1>6 DEF Binary
<1> QED BY <1>2, <1>3, <1>4, <1>5, <1>6, KindFacts

LEMMA UnaryResult ==
  ASSUME NEW op \in UnaryOps, NEW v \in Value
  PROVE  Unary(op, v) \in Result
<1>1. Mismatch \in Result /\ Float \in Result
  BY FailureResult DEF Mismatch, Given, Result, Scalar
<1>2. CASE Kind(v) = "Int"
  <2>1. Val(v) \in Ints /\ Val(v) \in Int
    BY <1>2, KindFacts, WidthFacts DEF Ints
  <2>2. -Val(v) - 1 \in Ints
    BY <2>1, WidthFacts DEF Ints
  <2>3. -Val(v) \in Int
    BY <2>1
  <2>4. Fit(-Val(v)) \in Result /\ IntOf(-Val(v) - 1) \in Result
    BY <2>2, <2>3, FitResult, IntResult
  <2> QED BY <1>2, <2>4 DEF Unary
<1>3. CASE Kind(v) = "Bool"
  <2>1. BoolOf(~Val(v)) \in Result
    BY BoolResult
  <2> QED BY <1>1, <1>3, <2>1 DEF Unary
<1>4. CASE Kind(v) \in {"Float", "Ref"}
  BY <1>1, <1>4 DEF Unary
<1> QED BY <1>2, <1>3, <1>4, KindFacts

LEMMA IdenticalResult ==
  ASSUME NEW v \in Value, NEW w \in Value
  PROVE  Identical(v, w) \subseteq Result
  BY BoolResult DEF Identical

-----------------------------------------------------------------------------
(* The inductive invariant: a reference is one the heap has given out, and    *)
(* only values that hold, never errors, are on the stack or in an object.     *)
Held == Scalar \cup ({"Ref"} \X DOMAIN heap)
Reported == Errors \ {"InvalidHeapRef"}
Statuses == {"running", "halted", "panic"} \cup Reported
Machine ==
  /\ unit \in Units
  /\ ip \in Nat
  /\ stack \in Seq(Held)
  /\ frames \in Seq(Frames)
  /\ heap \in Seq(Objects(Held)) /\ Len(unit.strings) <= Len(heap)
  /\ StringsWhole
  /\ status \in Statuses

LEMMA HeldFacts ==
  ASSUME heap \in Seq(Objects(Held))
  PROVE  /\ Held \subseteq Value
         /\ \A v \in Held : Kind(v) # "Err" /\ (Kind(v) = "Ref" => Val(v) \in DOMAIN heap)
<1>1. DOMAIN heap \subseteq Nat
  BY DEF Held
<1> QED BY <1>1 DEF Held, Value, Scalar, Float, Kind, Val

(* A type of sequences grows with the type of its members.                    *)
LEMMA SeqGrows ==
  ASSUME NEW S, NEW T, S \subseteq T, NEW s \in Seq(S)
  PROVE  s \in Seq(T)
OBVIOUS

LEMMA ObjectsGrow ==
  ASSUME NEW S, NEW T, S \subseteq T
  PROVE  Objects(S) \subseteq Objects(T)
<1>1. Seq(S) \subseteq Seq(T)
  BY SeqGrows
<1> QED BY <1>1 DEF Objects

(* What an object is made of depends on its kind.                             *)
LEMMA ObjectFacts ==
  ASSUME NEW S, NEW o \in Objects(S)
  PROVE  \/ o.kind = "String" /\ o.bytes \in Seq(STRING) /\ o = StringObject(o.bytes)
         \/ o.kind = "Array" /\ o.items \in Seq(S) /\ o = ArrayObject(o.items)
         \/ /\ o.kind = "Adt" /\ o.items \in Seq(S) /\ o.tag \in Nat
            /\ o = AdtObject(o.tag, o.items)
  BY DEF Objects, StringObject, ArrayObject, AdtObject

LEMMA MadeObjects ==
  ASSUME NEW S
  PROVE  /\ \A b \in Seq(STRING) : StringObject(b) \in Objects(S)
         /\ \A s \in Seq(S) : ArrayObject(s) \in Objects(S)
         /\ \A s \in Seq(S), n \in Nat : AdtObject(n, s) \in Objects(S)
  BY DEF Objects, StringObject, ArrayObject, AdtObject

(* A step that leaves the heap alone.                                         *)
LEMMA QuietStep ==
  ASSUME Machine, UNCHANGED <<unit, heap>>,
         stack' \in Seq(Held), ip' \in Nat, frames' \in Seq(Frames), status' \in Statuses
  PROVE  Machine'
<1>1. Held' = Held
  BY DEF Held
<1>2. heap' \in Seq(Objects(Held'))
  BY <1>1 DEF Machine
<1>3. StringsWhole'
  BY DEF Machine, StringsWhole
<1> QED BY <1>1, <1>2, <1>3 DEF Machine

LEMMA BelowFacts ==
  ASSUME NEW S, stack \in Seq(S), NEW n \in 0..Len(stack)
  PROVE  /\ Below(n) \in Seq(S) /\ Len(Below(n)) = Len(stack) - n
         /\ \A i \in 1..(Len(stack) - n) : Below(n)[i] = stack[i]
  BY DEF Below

LEMMA GoesStep ==
  ASSUME Machine, NEW s \in Seq(Held), NEW addr \in Nat, Goes(s, addr), Rest
  PROVE  Machine'
<1>1. status' \in Statuses /\ stack' \in Seq(Held) /\ ip' \in Nat /\ frames' \in Seq(Frames)
  BY DEF Goes, Rest, Machine, Statuses
<1> QED BY <1>1, QuietStep DEF Rest

LEMMA FailsStep ==
  ASSUME Machine, NEW s \in Seq(Held), NEW e \in Statuses, Fails(e, s), Rest
  PROVE  Machine'
<1>1. status' \in Statuses /\ stack' \in Seq(Held) /\ ip' \in Nat /\ frames' \in Seq(Frames)
  BY DEF Fails, Rest, Machine
<1> QED BY <1>1, QuietStep DEF Rest

LEMMA YieldsStep ==
  ASSUME Machine, NEW n \in 0..Len(stack),
         NEW v \in Held \cup ({"Err"} \X Reported), Yields(n, v), Rest
  PROVE  Machine'
<1>0. stack \in Seq(Held) /\ ip \in Nat /\ heap \in Seq(Objects(Held))
  BY DEF Machine
<1>1. Below(n) \in Seq(Held)
  BY <1>0, BelowFacts
<1>2. CASE Kind(v) = "Err"
  <2>1. Val(v) \in Statuses
    <3>1. v \notin Held
      BY <1>0, <1>2, HeldFacts
    <3> QED BY <3>1 DEF Val, Statuses
  <2>2. Fails(Val(v), Below(n))
    BY <1>2 DEF Yields
  <2> QED BY <1>1, <2>1, <2>2, FailsStep
<1>3. CASE Kind(v) # "Err"
  <2>1. v \in Held
    BY <1>3 DEF Kind
  <2>2. Append(Below(n), v) \in Seq(Held) /\ ip + 1 \in Nat
    BY <1>0, <1>1, <2>1
  <2>3. Goes(Append(Below(n), v), ip + 1)
    BY <1>3 DEF Yields
  <2> QED BY <2>2, <2>3, GoesStep
<1> QED BY <1>2, <1>3

LEMMA AllocatesStep ==
  ASSUME Machine, NEW n \in 0..Len(stack), NEW o \in Objects(Held),
         o.kind = "String" => Whole(o.bytes), Allocates(n, o)
  PROVE  Machine'
<1>0. stack \in Seq(Held) /\ ip \in Nat /\ heap \in Seq(Objects(Held)) /\ Len(heap) \in Nat
  BY DEF Machine
<1>1. heap' = Append(heap, o) /\ DOMAIN heap' = DOMAIN heap \cup {Len(heap) + 1}
  BY <1>0 DEF Allocates
<1>2. Held \subseteq Held'
  BY <1>1 DEF Held
<1>3. Objects(Held) \subseteq Objects(Held')
  BY <1>2, ObjectsGrow
<1>4. heap' \in Seq(Objects(Held'))
  <2> DEFINE T == Objects(Held')
  <2>1. heap \in Seq(T) /\ o \in T
    BY <1>0, <1>3
  <2> HIDE DEF T
  <2>2. Append(heap, o) \in Seq(T)
    BY <2>1
  <2> QED BY <1>1, <2>2 DEF T
<1>5. stack' \in Seq(Held')
  <2>1. Below(n) \in Seq(Held)
    BY <1>0, BelowFacts
  <2> DEFINE T == Held'
             r == RefTo(Len(heap) + 1)
  <2>2. r \in T
    BY <1>1 DEF Held, RefTo
  <2>3. stack' = Append(Below(n), r)
    BY DEF Allocates, Goes
  <2>4. Below(n) \in Seq(T)
    BY <2>1, <1>2
  <2> HIDE DEF T, r
  <2>5. stack' \in Seq(T)
    BY <2>2, <2>3, <2>4
  <2> QED BY <2>5 DEF T
<1>6. StringsWhole'
  <2> SUFFICES ASSUME NEW id \in DOMAIN heap', heap'[id].kind = "String"
               PROVE  Whole(heap'[id].bytes)
    BY DEF StringsWhole
  <2>1. CASE id \in DOMAIN heap
    BY <1>0, <1>1, <2>1 DEF Machine, StringsWhole
  <2>2. CASE id = Len(heap) + 1
    BY <1>0, <1>1, <2>2
  <2> QED BY <1>1, <2>1, <2>2
<1>7. unit' \in Units /\ ip' \in Nat /\ frames' \in Seq(Frames) /\ status' \in Statuses
  BY DEF Allocates, Goes, Machine, Statuses
<1>8. Len(unit'.strings) <= Len(heap')
  <2>1. unit.strings \in Seq(Seq(STRING)) /\ Len(unit.strings) <= Len(heap)
    BY ProgramsAssumption DEF Machine, WellFormed
  <2> QED BY <1>0, <1>1, <2>1 DEF Allocates
<1> QED BY <1>4, <1>5, <1>6, <1>7, <1>8 DEF Machine

(* An object written to: its items are others, and all else stays.            *)
LEMMA WritesStep ==
  ASSUME Machine, NEW n \in 0..Len(stack), NEW id \in DOMAIN heap,
         heap[id].kind \in Containers, NEW items \in Seq(Held), Writes(n, id, items)
  PROVE  Machine'
<1>0. stack \in Seq(Held) /\ ip \in Nat /\ heap \in Seq(Objects(Held))
  BY DEF Machine
<1> DEFINE o == [heap[id] EXCEPT !.items = items]
           T == Objects(Held)
<1>1. heap[id] \in T
  BY <1>0
<1>2. o \in T /\ o.kind = heap[id].kind
  <2>1. CASE heap[id].kind = "Array"
    BY <1>1, <2>1 DEF Objects
  <2>2. CASE heap[id].kind = "Adt"
    BY <1>1, <2>2 DEF Objects
  <2> QED BY <2>1, <2>2 DEF Containers
<1>3. heap' = [heap EXCEPT ![id] = o]
  BY DEF Writes
<1> HIDE DEF o, T
<1>4. heap' \in Seq(T) /\ DOMAIN heap' = DOMAIN heap
  BY <1>0, <1>2, <1>3 DEF T
<1>5. Held' = Held
  BY <1>4 DEF Held
<1>6. heap' \in Seq(Objects(Held'))
  BY <1>4, <1>5 DEF T
<1>7. Below(n) \in Seq(Held)
  BY <1>0, BelowFacts
<1>8. StringsWhole'
  <2> SUFFICES ASSUME NEW k \in DOMAIN heap', heap'[k].kind = "String"
               PROVE  Whole(heap'[k].bytes)
    BY DEF StringsWhole
  <2>1. k # id
    BY <1>0, <1>2, <1>3 DEF Containers
  <2> QED BY <1>0, <1>3, <1>4, <2>1 DEF Machine, StringsWhole
<1>9. /\ unit' \in Units /\ ip' \in Nat /\ frames' \in Seq(Frames) /\ status' \in Statuses
      /\ stack' \in Seq(Held)
  BY <1>7 DEF Writes, Goes, Machine, Statuses
<1>10. unit' = unit /\ Len(heap') = Len(heap)
  BY <1>0, <1>3 DEF Writes
<1> QED BY <1>5, <1>6, <1>8, <1>9, <1>10 DEF Machine
-----------------------------------------------------------------------------
(* Operands, once an instruction has them all.                                *)
LEMMA SeveralFacts ==
  ASSUME NEW n \in Nat
  PROVE  /\ Several(n) \in Seq({"any"}) /\ Len(Several(n)) = n
         /\ DOMAIN Append(Several(n), "usize") = 1..(n + 1)
         /\ \A i \in 1..n : Append(Several(n), "usize")[i] = "any"
         /\ Append(Several(n), "usize")[n + 1] = "usize"
<1>1. Several(n) \in Seq({"any"}) /\ Len(Several(n)) = n
  BY DEF Several
<1> QED BY <1>1

LEMMA ReadyFacts ==
  ASSUME Machine, NEW op, Ready(op), NEW i \in DOMAIN Operands, i \in Nat \ {0}
  PROVE  /\ i <= Len(stack) /\ Operand(i) \in Held /\ Operand(i) \in Value
         /\ Operands[i] = "bool" => Val(Operand(i)) \in BOOLEAN
         /\ Operands[i] = "usize" => Val(Operand(i)) \in Nat
         /\ Operands[i] = "ref" => Val(Operand(i)) \in DOMAIN heap
<1>0. stack \in Seq(Held) /\ heap \in Seq(Objects(Held)) /\ Len(stack) \in Nat
  BY DEF Machine
<1>1. OperandFault(i) = "none"
  BY DEF Ready
<1>2. i <= Len(stack)
  BY <1>1 DEF OperandFault
<1>3. Operand(i) \in Held /\ Operand(i) \in Value
  BY <1>0, <1>2, HeldFacts DEF Operand
<1>4. Fault(Operands[i], Operand(i)) = "none"
  BY <1>1, <1>2 DEF OperandFault
<1>5. Operands[i] = "bool" => Kind(Operand(i)) = "Bool"
  BY <1>4 DEF Fault
<1>6. Operands[i] = "usize" => Kind(Operand(i)) = "Int" /\ ~(Val(Operand(i)) < 0)
  BY <1>4 DEF Fault
<1>7. Operands[i] = "ref" => Kind(Operand(i)) = "Ref"
  BY <1>4 DEF Fault
<1>8. Val(Operand(i)) \in Ints => Val(Operand(i)) \in Int
  BY WidthFacts DEF Ints
<1> QED BY <1>0, <1>2, <1>3, <1>5, <1>6, <1>7, <1>8, KindFacts, HeldFacts

(* What a unit holds at the instruction to be executed.                       *)
LEMMA UnitFacts ==
  ASSUME Machine, ip \in DOMAIN unit.code
  PROVE  /\ Op = "Push" => Arg \in Scalar
         /\ Op \in WithNumber => Arg \in Nat
         /\ unit.strings \in Seq(Seq(STRING))
         /\ unit.fns \in Seq([entry : Nat, arity : Nat])
  BY ProgramsAssumption DEF Machine, WellFormed, Op, Arg

LEMMA ErrorFacts ==
  ASSUME Machine
  PROVE  /\ Result \subseteq Held \cup ({"Err"} \X Reported)
         /\ \A e \in Reported : Failure(e) \in Held \cup ({"Err"} \X Reported)
         /\ \A id \in DOMAIN heap : HeapFault(id) \in Held \cup ({"Err"} \X Reported)
         /\ \A n \in Nat : Fit(n) \in Held \cup ({"Err"} \X Reported)
<1>1. Result \subseteq Held \cup ({"Err"} \X Reported)
  BY DEF Result, Held, Given, Reported, Errors
<1>2. \A e \in Reported : Failure(e) \in Held \cup ({"Err"} \X Reported)
  BY DEF Failure
<1>3. \A id \in DOMAIN heap : HeapFault(id) = Failure("TypeMismatch")
  BY DEF HeapFault
<1>4. "TypeMismatch" \in Reported
  BY DEF Reported, Errors
<1>5. \A n \in Nat : Fit(n) \in Result
  BY FitResult
<1> QED BY <1>1, <1>2, <1>3, <1>4, <1>5

(* Which operands each instruction takes.                                     *)
LEMMA OperandsOf ==
  /\ Op \in BinaryOps \cup {"Is"} => Operands = <<"any", "any">>
  /\ Op \in UnaryOps \cup {"Pop", "SetLocal"} => Operands = <<"any">>
  /\ Op = "JumpIfFalse" => Operands = <<"bool">>
  /\ Op = "Concat" => Operands = <<"ref", "ref">>
  /\ Op = "Slice" => Operands = <<"usize", "usize", "ref">>
  /\ Op \in {"Index", "Remove"} => Operands = <<"usize", "ref">>
  /\ Op \in {"IndexMut", "Insert"} => Operands = <<"any", "usize", "ref">>
  /\ Op \in {"Len", "Tag"} => Operands = <<"ref">>
  /\ Op = "Call" => Operands = <<"usize">>
  /\ Op = "Array" => Operands = Several(Arg)
  /\ Op = "Adt" => Operands = Append(Several(Arg), "usize")
  BY DEF Operands, BinaryOps, UnaryOps, Arithmetic, Logic, Equality, Ordering

(* Instructions that take their operands and go on, or give one value.        *)
LEMMA StackActions ==
  ASSUME Machine,
         \/ Nop \/ Halt \/ Push \/ Pop \/ Jump \/ JumpIfFalse \/ Dup \/ BinaryOp \/ UnaryOp \/ Is
  PROVE  Machine'
<1>0. stack \in Seq(Held) /\ ip \in Nat /\ heap \in Seq(Objects(Held)) /\ Len(stack) \in Nat
  BY DEF Machine
<1>1. CASE Nop
  BY <1>0, <1>1, GoesStep DEF Nop
<1>2. CASE Halt
  BY <1>0, <1>2, FailsStep DEF Halt, Statuses
<1>3. CASE Push
  <2>1. Arg \in Held
    BY <1>3, UnitFacts DEF Push, Ready, At, Held
  <2> QED BY <1>0, <1>3, <2>1, YieldsStep DEF Push
<1>4. CASE Pop
  <2>1. Ready("Pop") /\ Operands = <<"any">>
    BY <1>4, OperandsOf DEF Pop, Ready, At
  <2>2. 1 \in 0..Len(stack)
    BY <1>0, <2>1, ReadyFacts
  <2> QED BY <1>0, <1>4, <2>2, BelowFacts, GoesStep DEF Pop
<1>5. CASE Jump
  BY <1>0, <1>5, UnitFacts, GoesStep DEF Jump, Ready, At, WithNumber
<1>6. CASE JumpIfFalse
  <2>1. Ready("JumpIfFalse") /\ Operands = <<"bool">>
    BY <1>6, OperandsOf DEF JumpIfFalse, Ready, At
  <2>2. 1 \in 0..Len(stack)
    BY <1>0, <2>1, ReadyFacts
  <2>3. Arg \in Nat
    BY <1>6, UnitFacts DEF JumpIfFalse, Ready, At, WithNumber
  <2>4. Below(1) \in Seq(Held)
    BY <1>0, <2>2, BelowFacts
  <2>5. \E a \in {ip + 1, Arg} : Goes(Below(1), a)
    BY <1>6 DEF JumpIfFalse
  <2> QED BY <1>0, <1>6, <2>3, <2>4, <2>5, GoesStep DEF JumpIfFalse
<1>7. CASE Dup
  <2>1. CASE stack = << >>
    BY <1>0, <1>7, <2>1, FailsStep DEF Dup, Statuses, Reported, Errors
  <2>2. CASE stack # << >>
    <3>1. Operand(1) \in Held
      BY <1>0, <2>2 DEF Operand
    <3> QED BY <1>0, <1>7, <2>2, <3>1, YieldsStep DEF Dup
  <2> QED BY <2>1, <2>2
<1>8. CASE BinaryOp
  <2>1. Ready(Op) /\ Op \in BinaryOps /\ Operands = <<"any", "any">>
    BY <1>8, OperandsOf DEF BinaryOp
  <2>2. 2 \in 0..Len(stack) /\ Operand(1) \in Value /\ Operand(2) \in Value
    BY <1>0, <2>1, ReadyFacts
  <2>3. PICK v \in Binary(Op, Operand(2), Operand(1)) : Yields(2, v)
    BY <1>8 DEF BinaryOp
  <2>4. v \in Held \cup ({"Err"} \X Reported)
    BY <2>1, <2>2, <2>3, BinaryResult, ErrorFacts
  <2> QED BY <1>8, <2>2, <2>3, <2>4, YieldsStep DEF BinaryOp
<1>9. CASE UnaryOp
  <2>1. Ready(Op) /\ Op \in UnaryOps /\ Operands = <<"any">>
    BY <1>9, OperandsOf DEF UnaryOp
  <2>2. 1 \in 0..Len(stack) /\ Operand(1) \in Value
    BY <1>0, <2>1, ReadyFacts
  <2>3. Unary(Op, Operand(1)) \in Held \cup ({"Err"} \X Reported)
    BY <2>1, <2>2, UnaryResult, ErrorFacts
  <2> QED BY <1>9, <2>2, <2>3, YieldsStep DEF UnaryOp
<1>10. CASE Is
  <2>1. Ready("Is") /\ Operands = <<"any", "any">>
    BY <1>10, OperandsOf DEF Is, Ready, At
  <2>2. 2 \in 0..Len(stack) /\ Operand(1) \in Value /\ Operand(2) \in Value
    BY <1>0, <2>1, ReadyFacts
  <2>3. PICK v \in Identical(Operand(2), Operand(1)) : Yields(2, v)
    BY <1>10 DEF Is
  <2>4. v \in Held \cup ({"Err"} \X Reported)
    BY <2>2, <2>3, IdenticalResult, ErrorFacts
  <2> QED BY <1>10, <2>2, <2>3, <2>4, YieldsStep DEF Is
<1> QED BY <1>1, <1>2, <1>3, <1>4, <1>5, <1>6, <1>7, <1>8, <1>9, <1>10

(* Instructions on strings.                                                   *)
LEMMA JoinedIsWhole ==
  ASSUME NEW s \in Seq(STRING), NEW t \in Seq(STRING), Whole(s), Whole(t)
  PROVE  s \o t \in Seq(STRING) /\ Whole(s \o t)
<1>1. s \o t \in Seq(STRING) /\ Len(s \o t) = Len(s) + Len(t)
  OBVIOUS
<1>2. /\ \A i \in 1..Len(s) : (s \o t)[i] = s[i]
      /\ \A i \in 1..Len(t) : (s \o t)[Len(s) + i] = t[i]
  OBVIOUS
<1> DEFINE r == s \o t
<1>3. ASSUME NEW i \in 0..Len(r)
      PROVE  (i > 0 /\ r[i] = "e") <=> (i < Len(r) /\ r[i + 1] \in Later)
  <2>1. CASE i < Len(s)
    <3>1. (i > 0 /\ s[i] = "e") <=> (i < Len(s) /\ s[i + 1] \in Later)
      BY <2>1, <1>1, <1>3 DEF Whole
    <3>2. (i > 0 => r[i] = s[i]) /\ r[i + 1] = s[i + 1] /\ i < Len(r)
      BY <2>1, <1>1, <1>2, <1>3
    <3> QED BY <2>1, <3>1, <3>2
  <2>2. CASE i = Len(s)
    <3>1. ~(i > 0 /\ s[i] = "e")
      BY <2>2 DEF Whole
    <3>2. ~(0 < Len(t) /\ t[0 + 1] \in Later)
      BY DEF Whole
    <3>3. (i > 0 => r[i] = s[i]) /\ (0 < Len(t) => r[i + 1] = t[0 + 1])
      BY <2>2, <1>1, <1>2
    <3> QED BY <2>2, <1>1, <3>1, <3>2, <3>3
  <2>3. CASE i > Len(s)
    <3> DEFINE j == i - Len(s)
    <3>1. j \in 1..Len(t)
      BY <2>3, <1>1, <1>3
    <3>2. (j > 0 /\ t[j] = "e") <=> (j < Len(t) /\ t[j + 1] \in Later)
      BY <3>1 DEF Whole
    <3>3. r[i] = t[j] /\ (j < Len(t) => r[i + 1] = t[j + 1])
      <4>1. i = Len(s) + j /\ (j < Len(t) => i + 1 = Len(s) + (j + 1) /\ j + 1 \in 1..Len(t))
        BY <3>1, <1>3, <1>1
      <4> QED BY <4>1, <3>1, <1>2
    <3> QED BY <3>1, <3>2, <3>3, <2>3, <1>1, <1>3
  <2> QED BY <1>1, <1>3, <2>1, <2>2, <2>3
<1> QED BY <1>1, <1>3 DEF Whole

LEMMA SliceIsWhole ==
  ASSUME NEW s \in Seq(STRING), Whole(s), NEW start \in Nat, NEW end \in Nat,
         start <= end, end <= Len(s), Boundary(s, start), Boundary(s, end)
  PROVE  SubSeq(s, start + 1, end) \in Seq(STRING) /\ Whole(SubSeq(s, start + 1, end))
<1> DEFINE r == SubSeq(s, start + 1, end)
<1>1. r \in Seq(STRING) /\ Len(r) = end - start /\ \A i \in 1..Len(r) : r[i] = s[start + i]
  OBVIOUS
<1> HIDE DEF r
<1>2. ASSUME NEW i \in 0..Len(r)
      PROVE  (i > 0 /\ r[i] = "e") <=> (i < Len(r) /\ r[i + 1] \in Later)
  <2> DEFINE k == start + i
  <2>1. k \in 0..Len(s) /\ k <= end /\ (i = 0 <=> k = start) /\ (i < Len(r) <=> k < end)
    BY <1>1, <1>2
  <2>2. (k > 0 /\ s[k] = "e") <=> (k < Len(s) /\ s[k + 1] \in Later)
    BY <2>1 DEF Whole
  <2>3. (i > 0 => r[i] = s[k]) /\ (i < Len(r) => r[i + 1] = s[k + 1])
    <3>1. i > 0 => i \in 1..Len(r)
      BY <1>1, <1>2
    <3>2. i < Len(r) => i + 1 \in 1..Len(r) /\ start + (i + 1) = k + 1
      BY <1>1, <1>2
    <3> QED BY <1>1, <3>1, <3>2
  <2>4. k = start => ~(k < Len(s) /\ s[k + 1] \in Later)
    BY DEF Boundary
  <2>5. k = end => ~(k < Len(s) /\ s[k + 1] \in Later)
    BY DEF Boundary
  <2>6. CASE i = 0
    BY <2>6, <2>1, <2>3, <2>4, <1>1
  <2>7. CASE i > 0 /\ i < Len(r)
    BY <2>7, <2>1, <2>2, <2>3, <1>1
  <2>8. CASE i > 0 /\ i = Len(r)
    BY <2>8, <2>1, <2>2, <2>3, <2>5, <1>1
  <2> QED BY <1>1, <1>2, <2>6, <2>7, <2>8
<1> QED BY <1>1, <1>2 DEF Whole, r

LEMMA StringActions ==
  ASSUME Machine, LoadString \/ Concat \/ Slice \/ EqualityOp
  PROVE  Machine'
<1>0. /\ stack \in Seq(Held) /\ ip \in Nat /\ heap \in Seq(Objects(Held)) /\ Len(stack) \in Nat
      /\ \A id \in DOMAIN heap : heap[id] \in Objects(Held)
  BY DEF Machine
<1>1. ASSUME NEW id, Holds(id, {"String"})
      PROVE  /\ id \in DOMAIN heap /\ heap[id].bytes \in Seq(STRING) /\ Whole(heap[id].bytes)
  <2>1. id \in DOMAIN heap /\ heap[id].kind = "String"
    BY <1>1 DEF Holds
  <2>2. heap[id].bytes \in Seq(STRING)
    BY <1>0, <2>1, ObjectFacts
  <2> QED BY <2>1, <2>2 DEF Machine, StringsWhole
<1>2. ASSUME NEW b \in Seq(STRING), Whole(b)
      PROVE  /\ StringObject(b) \in Objects(Held)
             /\ StringObject(b).kind = "String" => Whole(StringObject(b).bytes)
  BY <1>2, MadeObjects DEF StringObject
<1>3. CASE LoadString
  <2>1. Arg \in Nat /\ unit.strings \in Seq(Seq(STRING))
    BY <1>3, UnitFacts DEF LoadString, Ready, At, WithNumber
  <2>2. CASE Arg < Len(unit.strings)
    <3>1. Yields(0, RefTo(Arg + 1)) /\ Rest
      BY <1>3, <2>2 DEF LoadString
    <3>2. Arg + 1 \in DOMAIN heap
      BY <1>0, <2>1, <2>2 DEF Machine
    <3> QED BY <1>0, <3>1, <3>2, YieldsStep DEF RefTo, Held
  <2>3. CASE ~(Arg < Len(unit.strings))
    <3>1. Fails("panic", stack) /\ Rest
      BY <1>3, <2>3 DEF LoadString, Panics, Fails
    <3> QED BY <1>0, <3>1, FailsStep DEF Statuses
  <2> QED BY <2>2, <2>3
<1>4. CASE Concat
  <2> DEFINE b == Val(Operand(1))
             a == Val(Operand(2))
  <2>1. Ready("Concat") /\ Operands = <<"ref", "ref">>
    BY <1>4, OperandsOf DEF Concat, Ready, At
  <2>2. 2 \in 0..Len(stack) /\ a \in DOMAIN heap /\ b \in DOMAIN heap
    BY <1>0, <2>1, ReadyFacts
  <2>3. CASE ~Holds(a, {"String"})
    BY <1>4, <2>2, <2>3, ErrorFacts, YieldsStep DEF Concat
  <2>4. CASE Holds(a, {"String"}) /\ ~Holds(b, {"String"})
    BY <1>4, <2>2, <2>4, ErrorFacts, YieldsStep DEF Concat
  <2>5. CASE Holds(a, {"String"}) /\ Holds(b, {"String"})
    <3> DEFINE o == StringObject(heap[a].bytes \o heap[b].bytes)
    <3>1. o \in Objects(Held) /\ (o.kind = "String" => Whole(o.bytes))
      BY <1>1, <1>2, <2>5, JoinedIsWhole
    <3>2. Allocates(2, o)
      BY <1>4, <2>5 DEF Concat
    <3> HIDE DEF o
    <3> QED BY <2>2, <3>1, <3>2, AllocatesStep
  <2> QED BY <2>3, <2>4, <2>5
<1>5. CASE Slice
  <2> DEFINE end == Val(Operand(1))
             start == Val(Operand(2))
             id == Val(Operand(3))
             s == heap[id].bytes
  <2>1. Ready("Slice") /\ Operands = <<"usize", "usize", "ref">>
    BY <1>5, OperandsOf DEF Slice, Ready, At
  <2>2. 3 \in 0..Len(stack) /\ id \in DOMAIN heap /\ start \in Nat /\ end \in Nat
    BY <1>0, <2>1, ReadyFacts
  <2>3. CASE ~Holds(id, {"String"})
    BY <1>5, <2>2, <2>3, ErrorFacts, YieldsStep DEF Slice
  <2>4. CASE Holds(id, {"String"}) /\ (start > end \/ end > Len(s))
    <3>1. Yields(3, Failure("IndexOutOfBounds")) /\ Rest
      BY <1>5, <2>4 DEF Slice
    <3> QED BY <2>2, <3>1, ErrorFacts, YieldsStep DEF Reported, Errors
  <2>5. CASE Holds(id, {"String"}) /\ ~(start > end \/ end > Len(s)) /\ ~Sliceable(s, start, end)
    <3>1. Yields(3, Failure("InvalidUtf8Boundary")) /\ Rest
      BY <1>5, <2>5 DEF Slice
    <3> QED BY <2>2, <3>1, ErrorFacts, YieldsStep DEF Reported, Errors
  <2>6. CASE Holds(id, {"String"}) /\ ~(start > end \/ end > Len(s)) /\ Sliceable(s, start, end)
    <3> DEFINE o == StringObject(SubSeq(s, start + 1, end))
    <3>1. s \in Seq(STRING) /\ Whole(s)
      BY <1>1, <2>6
    <3>2. start <= end /\ end <= Len(s)
      BY <2>2, <2>6, <3>1
    <3>3. SubSeq(s, start + 1, end) \in Seq(STRING) /\ Whole(SubSeq(s, start + 1, end))
      <4> HIDE DEF s, start, end
      <4> QED BY <2>2, <2>6, <3>1, <3>2, SliceIsWhole DEF Sliceable
    <3>4. o \in Objects(Held) /\ (o.kind = "String" => Whole(o.bytes))
      BY <1>2, <3>3
    <3>5. Allocates(3, o)
      BY <1>5, <2>6 DEF Slice
    <3> HIDE DEF o
    <3> QED BY <2>2, <3>4, <3>5, AllocatesStep
  <2> QED BY <2>3, <2>4, <2>5, <2>6
<1>6. CASE EqualityOp
  <2> DEFINE b == Operand(1)
             a == Operand(2)
  <2>1. Ready(Op) /\ Op \in BinaryOps /\ Operands = <<"any", "any">>
    BY <1>6, OperandsOf DEF EqualityOp, BinaryOps
  <2>2. 2 \in 0..Len(stack) /\ a \in Value /\ b \in Value /\ a \in Held /\ b \in Held
    BY <1>0, <2>1, ReadyFacts
  <2>3. Rest
    BY <1>6 DEF EqualityOp
  <2>4. CASE Kind(a) = "Ref" /\ Kind(b) = "Ref"
    <3>1. Val(a) \in DOMAIN heap /\ Val(b) \in DOMAIN heap
      BY <1>0, <2>2, <2>4, HeldFacts
    <3>2. \A p \in BOOLEAN : BoolOf(p) \in Held \cup ({"Err"} \X Reported)
      BY BoolResult, ErrorFacts
    <3> DEFINE p == (heap[Val(a)].bytes = heap[Val(b)].bytes) = (Op = "Eq")
    <3>3. \/ Yields(2, HeapFault(Val(a))) \/ Yields(2, HeapFault(Val(b))) \/ Yields(2, BoolOf(p))
      BY <1>6, <2>4 DEF EqualityOp
    <3>4. p \in BOOLEAN
      OBVIOUS
    <3> HIDE DEF p, a, b
    <3> QED BY <2>2, <2>3, <3>1, <3>2, <3>3, <3>4, ErrorFacts, YieldsStep
  <2>5. CASE ~(Kind(a) = "Ref" /\ Kind(b) = "Ref")
    <3>1. PICK v \in Binary(Op, a, b) : Yields(2, v)
      BY <1>6, <2>5 DEF EqualityOp
    <3>2. v \in Held \cup ({"Err"} \X Reported)
      BY <2>1, <2>2, <3>1, BinaryResult, ErrorFacts
    <3> QED BY <2>2, <2>3, <3>1, <3>2, YieldsStep
  <2> QED BY <2>4, <2>5
<1> QED BY <1>3, <1>4, <1>5, <1>6

LEMMA TopFacts ==
  ASSUME NEW S, stack \in Seq(S), NEW n \in 0..Len(stack)
  PROVE  Top(n) \in Seq(S)
  BY DEF Top

LEMMA PutFacts ==
  ASSUME NEW S, NEW s \in Seq(S), NEW v \in S, NEW i \in 1..Len(s)
  PROVE  [s EXCEPT ![i] = v] \in Seq(S)
OBVIOUS

(* Inserting into a sequence and removing from one.                           *)
LEMMA SpliceFacts ==
  ASSUME NEW S, NEW s \in Seq(S), NEW v \in S, NEW i \in Nat
  PROVE  /\ i <= Len(s) => Append(SubSeq(s, 1, i), v) \o SubSeq(s, i + 1, Len(s)) \in Seq(S)
         /\ i < Len(s) => SubSeq(s, 1, i) \o SubSeq(s, i + 2, Len(s)) \in Seq(S)
<1>1. ASSUME i <= Len(s) PROVE Append(SubSeq(s, 1, i), v) \o SubSeq(s, i + 1, Len(s)) \in Seq(S)
  <2>1. SubSeq(s, 1, i) \in Seq(S) /\ SubSeq(s, i + 1, Len(s)) \in Seq(S)
    BY <1>1
  <2>2. Append(SubSeq(s, 1, i), v) \in Seq(S)
    BY <2>1
  <2> QED BY <2>1, <2>2
<1>2. ASSUME i < Len(s) PROVE SubSeq(s, 1, i) \o SubSeq(s, i + 2, Len(s)) \in Seq(S)
  <2>1. SubSeq(s, 1, i) \in Seq(S) /\ SubSeq(s, i + 2, Len(s)) \in Seq(S)
    BY <1>2
  <2> QED BY <2>1
<1> QED BY <1>1, <1>2

LEMMA AllocatingActions ==
  ASSUME Machine, Array \/ Adt
  PROVE  Machine'
<1>0. stack \in Seq(Held) /\ heap \in Seq(Objects(Held)) /\ Len(stack) \in Nat
  BY DEF Machine
<1>1. CASE Array
  <2>1. Ready("Array") /\ Operands = Several(Arg) /\ Arg \in Nat
    BY <1>1, OperandsOf, UnitFacts DEF Array, Ready, At, WithNumber
  <2>2. Arg \in 0..Len(stack)
    <3>1. DOMAIN Operands = 1..Arg
      BY <2>1, SeveralFacts
    <3>2. CASE Arg = 0
      BY <1>0, <3>2
    <3>3. CASE Arg > 0
      BY <1>0, <2>1, <3>1, <3>3, ReadyFacts
    <3> QED BY <2>1, <3>2, <3>3
  <2> DEFINE o == ArrayObject(Top(Arg))
  <2>3. o \in Objects(Held) /\ o.kind # "String"
    BY <1>0, <2>2, TopFacts, MadeObjects DEF ArrayObject
  <2>4. Allocates(Arg, o)
    BY <1>1 DEF Array
  <2> HIDE DEF o
  <2> QED BY <2>2, <2>3, <2>4, AllocatesStep
<1>2. CASE Adt
  <2>1. Ready("Adt") /\ Operands = Append(Several(Arg), "usize") /\ Arg \in Nat
    BY <1>2, OperandsOf, UnitFacts DEF Adt, Ready, At, WithNumber
  <2>2. Arg + 1 \in DOMAIN Operands /\ Operands[Arg + 1] = "usize" /\ Arg + 1 \in Nat \ {0}
    <3>1. /\ DOMAIN Append(Several(Arg), "usize") = 1..(Arg + 1)
          /\ Append(Several(Arg), "usize")[Arg + 1] = "usize"
      BY <2>1, SeveralFacts
    <3>2. Arg + 1 \in 1..(Arg + 1) /\ Arg + 1 \in Nat \ {0}
      BY <2>1
    <3> QED BY <2>1, <3>1, <3>2, Zenon
  <2>3. Arg + 1 \in 0..Len(stack) /\ Val(Operand(Arg + 1)) \in Nat
    <3>1. SUFFICES ASSUME NEW i, i = Arg + 1
                   PROVE  i \in 0..Len(stack) /\ Val(Operand(i)) \in Nat
      OBVIOUS
    <3>2. i \in DOMAIN Operands /\ Operands[i] = "usize" /\ i \in Nat \ {0}
      BY <2>2, <3>1
    <3>3. i <= Len(stack) /\ Val(Operand(i)) \in Nat
      BY <2>1, <3>2, ReadyFacts
    <3> QED BY <1>0, <3>2, <3>3
  <2> DEFINE o == AdtObject(Val(Operand(Arg + 1)), Top(Arg))
  <2>4. o \in Objects(Held) /\ o.kind # "String"
    <3>1. Top(Arg) \in Seq(Held)
      BY <1>0, <2>1, <2>3, TopFacts
    <3> QED BY <2>3, <3>1, MadeObjects DEF AdtObject
  <2>5. Allocates(Arg + 1, o)
    BY <1>2 DEF Adt
  <2> HIDE DEF o
  <2> QED BY <2>3, <2>4, <2>5, AllocatesStep
<1> QED BY <1>1, <1>2

LEMMA ContainerActions ==
  ASSUME Machine, Index \/ IndexMut \/ Insert \/ Remove \/ LenOf \/ Tag
  PROVE  Machine'
<1>0. /\ stack \in Seq(Held) /\ heap \in Seq(Objects(Held)) /\ Len(stack) \in Nat
      /\ \A id \in DOMAIN heap : heap[id] \in Objects(Held)
  BY DEF Machine
<1>1. ASSUME NEW id \in DOMAIN heap, heap[id].kind \in Containers
      PROVE  heap[id].items \in Seq(Held) /\ (heap[id].kind = "Adt" => heap[id].tag \in Nat)
  BY <1>0, <1>1, ObjectFacts DEF Containers
<1>2. Failure("IndexOutOfBounds") \in Held \cup ({"Err"} \X Reported)
  BY ErrorFacts DEF Reported, Errors
<1>3. CASE Index
  <2> DEFINE index == Val(Operand(1))
             id == Val(Operand(2))
             v == IF ~Holds(id, Containers) THEN HeapFault(id)
                  ELSE IF index >= Len(heap[id].items) THEN Failure("IndexOutOfBounds")
                  ELSE heap[id].items[index + 1]
  <2>1. Ready("Index") /\ Operands = <<"usize", "ref">>
    BY <1>3, OperandsOf DEF Index, Ready, At
  <2>2. 2 \in 0..Len(stack) /\ index \in Nat /\ id \in DOMAIN heap
    BY <1>0, <2>1, ReadyFacts
  <2>3. v \in Held \cup ({"Err"} \X Reported)
    <3>1. CASE ~Holds(id, Containers)
      BY <2>2, <3>1, ErrorFacts
    <3>2. CASE Holds(id, Containers) /\ index >= Len(heap[id].items)
      BY <1>2, <3>2
    <3>3. CASE Holds(id, Containers) /\ ~(index >= Len(heap[id].items))
      <4>1. heap[id].items \in Seq(Held)
        BY <1>1, <2>2, <3>3 DEF Holds
      <4>2. heap[id].items[index + 1] \in Held
        BY <4>1, <2>2, <3>3
      <4> QED BY <3>3, <4>2
    <3> QED BY <3>1, <3>2, <3>3
  <2>4. Yields(2, v) /\ Rest
    BY <1>3 DEF Index
  <2> HIDE DEF v
  <2> QED BY <2>2, <2>3, <2>4, YieldsStep
<1>4. CASE IndexMut
  <2> DEFINE index == Val(Operand(2))
             id == Val(Operand(3))
             items == [heap[id].items EXCEPT ![index + 1] = Operand(1)]
  <2>1. Ready("IndexMut") /\ Operands = <<"any", "usize", "ref">>
    BY <1>4, OperandsOf DEF IndexMut, Ready, At
  <2>2. 3 \in 0..Len(stack) /\ Operand(1) \in Held /\ index \in Nat /\ id \in DOMAIN heap
    BY <1>0, <2>1, ReadyFacts
  <2>3. CASE ~Holds(id, Containers)
    BY <1>4, <2>2, <2>3, ErrorFacts, YieldsStep DEF IndexMut
  <2>4. CASE Holds(id, Containers) /\ index >= Len(heap[id].items)
    BY <1>4, <1>2, <2>2, <2>4, YieldsStep DEF IndexMut
  <2>5. CASE Holds(id, Containers) /\ ~(index >= Len(heap[id].items))
    <3>1. heap[id].kind \in Containers /\ heap[id].items \in Seq(Held)
      BY <1>1, <2>2, <2>5 DEF Holds
    <3>2. index + 1 \in 1..Len(heap[id].items)
      BY <3>1, <2>2, <2>5
    <3>3. items \in Seq(Held)
      BY <3>1, <3>2, <2>2, PutFacts
    <3>4. Writes(3, id, items)
      BY <1>4, <2>5 DEF IndexMut
    <3> HIDE DEF items
    <3> QED BY <2>2, <3>1, <3>3, <3>4, WritesStep
  <2> QED BY <2>3, <2>4, <2>5
<1>5. CASE Insert
  <2> DEFINE index == Val(Operand(2))
             id == Val(Operand(3))
             s == heap[id].items
             items == Append(SubSeq(s, 1, index), Operand(1)) \o SubSeq(s, index + 1, Len(s))
  <2>1. Ready("Insert") /\ Operands = <<"any", "usize", "ref">>
    BY <1>5, OperandsOf DEF Insert, Ready, At
  <2>2. 3 \in 0..Len(stack) /\ Operand(1) \in Held /\ index \in Nat /\ id \in DOMAIN heap
    BY <1>0, <2>1, ReadyFacts
  <2>3. CASE ~Holds(id, Growable)
    BY <1>5, <2>2, <2>3, ErrorFacts, YieldsStep DEF Insert
  <2>4. CASE Holds(id, Growable) /\ index > Len(s)
    BY <1>5, <1>2, <2>2, <2>4, YieldsStep DEF Insert
  <2>5. CASE Holds(id, Growable) /\ ~(index > Len(s))
    <3>1. heap[id].kind \in Containers /\ s \in Seq(Held)
      BY <1>1, <2>2, <2>5 DEF Holds, Growable, Containers
    <3>2. index <= Len(s)
      BY <3>1, <2>2, <2>5
    <3>3. items \in Seq(Held)
      <4> HIDE DEF s, index
      <4> QED BY <2>2, <3>1, <3>2, SpliceFacts
    <3>4. Writes(3, id, items)
      BY <1>5, <2>5 DEF Insert
    <3> HIDE DEF items
    <3> QED BY <2>2, <3>1, <3>3, <3>4, WritesStep
  <2> QED BY <2>3, <2>4, <2>5
<1>6. CASE Remove
  <2> DEFINE index == Val(Operand(1))
             id == Val(Operand(2))
             s == heap[id].items
             items == SubSeq(s, 1, index) \o SubSeq(s, index + 2, Len(s))
  <2>1. Ready("Remove") /\ Operands = <<"usize", "ref">>
    BY <1>6, OperandsOf DEF Remove, Ready, At
  <2>2. 2 \in 0..Len(stack) /\ index \in Nat /\ id \in DOMAIN heap
    BY <1>0, <2>1, ReadyFacts
  <2>3. CASE ~Holds(id, Growable)
    BY <1>6, <2>2, <2>3, ErrorFacts, YieldsStep DEF Remove
  <2>4. CASE Holds(id, Growable) /\ index >= Len(s)
    BY <1>6, <1>2, <2>2, <2>4, YieldsStep DEF Remove
  <2>5. CASE Holds(id, Growable) /\ ~(index >= Len(s))
    <3>1. heap[id].kind \in Containers /\ s \in Seq(Held)
      BY <1>1, <2>2, <2>5 DEF Holds, Growable, Containers
    <3>2. index < Len(s)
      BY <3>1, <2>2, <2>5
    <3>3. items \in Seq(Held)
      <4>1. PICK v \in Held : TRUE
        BY <3>1, <3>2, <2>2
      <4> HIDE DEF s, index
      <4> QED BY <2>2, <3>1, <3>2, <4>1, SpliceFacts
    <3>4. Writes(2, id, items)
      BY <1>6, <2>5 DEF Remove
    <3> HIDE DEF items
    <3> QED BY <2>2, <3>1, <3>3, <3>4, WritesStep
  <2> QED BY <2>3, <2>4, <2>5
<1>7. CASE LenOf
  <2> DEFINE id == Val(Operand(1))
  <2>1. Ready("Len") /\ Operands = <<"ref">>
    BY <1>7, OperandsOf DEF LenOf, Ready, At
  <2>2. 1 \in 0..Len(stack) /\ id \in DOMAIN heap
    BY <1>0, <2>1, ReadyFacts
  <2> DEFINE n == IF heap[id].kind = "String" THEN Len(heap[id].bytes) ELSE Len(heap[id].items)
  <2>3. n \in Nat
    BY <1>0, <2>2, ObjectFacts
  <2>4. Yields(1, Fit(n)) /\ Rest
    BY <1>7, <2>2 DEF LenOf
  <2> HIDE DEF n
  <2> QED BY <2>2, <2>3, <2>4, ErrorFacts, YieldsStep
<1>8. CASE Tag
  <2> DEFINE id == Val(Operand(1))
  <2>1. Ready("Tag") /\ Operands = <<"ref">>
    BY <1>8, OperandsOf DEF Tag, Ready, At
  <2>2. 1 \in 0..Len(stack) /\ id \in DOMAIN heap
    BY <1>0, <2>1, ReadyFacts
  <2>3. CASE Holds(id, {"Adt"})
    <3>1. heap[id].tag \in Nat
      BY <1>1, <2>2, <2>3 DEF Holds, Containers
    <3> QED BY <1>8, <2>2, <2>3, <3>1, ErrorFacts, YieldsStep DEF Tag
  <2>4. CASE ~Holds(id, {"Adt"})
    BY <1>8, <2>2, <2>4, ErrorFacts, YieldsStep DEF Tag
  <2> QED BY <2>3, <2>4
<1> QED BY <1>3, <1>4, <1>5, <1>6, <1>7, <1>8

LEMMA TruncatedFacts ==
  ASSUME NEW S, NEW s \in Seq(S), NEW n \in Int
  PROVE  Truncated(s, n) \in Seq(S)
<1>1. CASE n \in 0..Len(s)
  <2>1. SubSeq(s, 1, n) \in Seq(S)
    BY <1>1
  <2> QED BY <1>1, <2>1 DEF Truncated
<1>2. CASE n \notin 0..Len(s)
  BY <1>2 DEF Truncated
<1> QED BY <1>1, <1>2

LEMMA ElementFacts ==
  ASSUME NEW S, NEW s \in Seq(S), NEW i \in Nat, ~(i >= Len(s))
  PROVE  s[i + 1] \in S
<1>1. i + 1 \in 1..Len(s)
  OBVIOUS
<1> QED BY <1>1

LEMMA CallActions ==
  ASSUME Machine, Call \/ Ret \/ GetLocal \/ SetLocal
  PROVE  Machine'
<1>0. /\ stack \in Seq(Held) /\ heap \in Seq(Objects(Held)) /\ Len(stack) \in Nat /\ ip \in Nat
      /\ frames \in Seq(Frames)
  BY DEF Machine
<1>1. \A e \in {"StackUnderflow", "CallStackUnderflow", "InvalidFnRef", "InvalidLocalIndex"} :
        e \in Reported /\ e \in Statuses
  BY DEF Statuses, Reported, Errors
<1>2. frames # << >> => Frame \in Frames /\ SubSeq(frames, 1, Len(frames) - 1) \in Seq(Frames)
  BY <1>0 DEF Frame
<1>3. CASE Call
  <2> DEFINE id == Val(Operand(1))
             top == FrameTop(unit.fns[id + 1].arity)
  <2>1. Ready("Call") /\ Operands = <<"usize">>
    BY <1>3, OperandsOf DEF Call, Ready, At
  <2>2. 1 \in 0..Len(stack) /\ id \in Nat
    BY <1>0, <2>1, ReadyFacts
  <2>3. Below(1) \in Seq(Held)
    BY <1>0, <2>2, BelowFacts
  <2>4. CASE id >= Len(unit.fns)
    <3>1. Fails("InvalidFnRef", Below(1)) /\ Rest
      BY <1>3, <2>4 DEF Call, Rest
    <3> QED BY <1>1, <2>3, <3>1, FailsStep
  <2>5. CASE ~(id >= Len(unit.fns)) /\ Checked /\ top < 0
    <3>1. Fails("panic", Below(1)) /\ Rest
      BY <1>3, <2>5 DEF Call, Rest, Panics, Fails
    <3> QED BY <2>3, <3>1, FailsStep DEF Statuses
  <2>6. CASE ~(id >= Len(unit.fns)) /\ ~(Checked /\ top < 0)
    <3>1. unit.fns \in Seq([entry : Nat, arity : Nat])
      BY <1>3, UnitFacts DEF Call, Ready, At
    <3>2. unit.fns[id + 1] \in [entry : Nat, arity : Nat]
      BY <2>2, <2>6, <3>1, ElementFacts
    <3>3. top \in Int
      BY <1>0, <3>2 DEF FrameTop
    <3>4. /\ frames' = Append(frames, [top |-> top, savedpc |-> ip + 1])
          /\ Goes(Below(1), unit.fns[id + 1].entry)
          /\ UNCHANGED <<unit, heap>>
      BY <1>3, <2>6 DEF Call
    <3>5. [top |-> top, savedpc |-> ip + 1] \in Frames
      BY <1>0, <3>3 DEF Frames
    <3> HIDE DEF top
    <3>6. frames' \in Seq(Frames)
      BY <1>0, <3>4, <3>5
    <3>7. ip' \in Nat /\ stack' \in Seq(Held) /\ status' \in Statuses
      BY <2>3, <3>2, <3>4 DEF Goes, Statuses
    <3> QED BY <3>4, <3>6, <3>7, QuietStep
  <2> QED BY <2>4, <2>5, <2>6
<1>4. CASE Ret
  <2>0. UNCHANGED <<unit, heap>>
    BY <1>4 DEF Ret
  <2>1. CASE frames = << >>
    <3>1. Fails("CallStackUnderflow", stack) /\ Rest
      BY <1>4, <2>1 DEF Ret, Rest
    <3> QED BY <1>0, <1>1, <3>1, FailsStep
  <2>2. CASE frames # << >> /\ stack = << >>
    <3>1. frames' \in Seq(Frames) /\ Fails("StackUnderflow", stack)
      BY <1>2, <1>4, <2>2 DEF Ret
    <3> QED BY <1>0, <1>1, <2>0, <3>1, QuietStep DEF Fails
  <2>3. CASE frames # << >> /\ stack # << >>
    <3>1. frames' \in Seq(Frames) /\ 1 \in 0..Len(stack) /\ Operand(1) \in Held
      <4>1. frames' = SubSeq(frames, 1, Len(frames) - 1)
        BY <1>4, <2>3 DEF Ret
      <4>2. Len(stack) \in 1..Len(stack)
        BY <1>0, <2>3
      <4>3. stack[Len(stack)] \in Held /\ Len(stack) + 1 - 1 = Len(stack)
        BY <1>0, <4>2
      <4> QED BY <1>2, <2>3, <4>1, <4>2, <4>3 DEF Operand
    <3>2. Below(1) \in Seq(Held) /\ Len(Below(1)) \in Nat
      BY <1>0, <3>1, BelowFacts
    <3>3. Frame.top \in Int /\ Frame.savedpc \in Nat
      BY <1>2, <2>3 DEF Frames
    <3>4. Truncated(Below(1), Frame.top) \in Seq(Held)
      BY <3>2, <3>3, TruncatedFacts
    <3>5. CASE Checked /\ Len(stack) - 1 < Frame.top
      <4>1. Fails("panic", Below(1))
        BY <1>4, <2>3, <3>5 DEF Ret, Panics, Fails
      <4> QED BY <1>0, <2>0, <3>1, <3>2, <4>1, QuietStep DEF Fails, Statuses
    <3>6. CASE ~(Checked /\ Len(stack) - 1 < Frame.top)
      <4>1. Goes(Append(Truncated(Below(1), Frame.top), Operand(1)), Frame.savedpc)
        BY <1>4, <2>3, <3>6 DEF Ret
      <4>2. Append(Truncated(Below(1), Frame.top), Operand(1)) \in Seq(Held)
        BY <3>1, <3>4
      <4> QED BY <2>0, <3>1, <3>3, <4>1, <4>2, QuietStep DEF Goes, Statuses
    <3> QED BY <3>5, <3>6
  <2> QED BY <2>1, <2>2, <2>3
<1>5. CASE GetLocal
  <2> DEFINE v == IF frames = << >> THEN Failure("CallStackUnderflow")
                  ELSE IF Slot \notin DOMAIN stack THEN Failure("InvalidLocalIndex")
                  ELSE stack[Slot]
  <2>1. v \in Held \cup ({"Err"} \X Reported)
    BY <1>0, <1>1, ErrorFacts
  <2>2. Yields(0, v) /\ Rest
    BY <1>5 DEF GetLocal
  <2> HIDE DEF v
  <2> QED BY <1>0, <2>1, <2>2, YieldsStep
<1>6. CASE SetLocal
  <2>1. Ready("SetLocal") /\ Operands = <<"any">>
    BY <1>6, OperandsOf DEF SetLocal, Ready, At
  <2>2. 1 \in 0..Len(stack) /\ Operand(1) \in Held
    BY <1>0, <2>1, ReadyFacts
  <2>3. Below(1) \in Seq(Held) /\ Rest
    BY <1>0, <1>6, <2>2, BelowFacts DEF SetLocal
  <2>4. CASE frames = << >>
    <3>1. Fails("CallStackUnderflow", Below(1))
      BY <1>6, <2>4 DEF SetLocal
    <3> QED BY <1>1, <2>3, <3>1, FailsStep
  <2>5. CASE frames # << >> /\ Slot \notin DOMAIN Below(1)
    <3>1. Fails("InvalidLocalIndex", Below(1))
      BY <1>6, <2>5 DEF SetLocal
    <3> QED BY <1>1, <2>3, <3>1, FailsStep
  <2>6. CASE frames # << >> /\ Slot \in DOMAIN Below(1)
    <3>1. Goes([Below(1) EXCEPT ![Slot] = Operand(1)], ip + 1)
      BY <1>6, <2>6 DEF SetLocal
    <3>2. Slot \in 1..Len(Below(1))
      BY <2>3, <2>6
    <3>3. [Below(1) EXCEPT ![Slot] = Operand(1)] \in Seq(Held)
      BY <2>2, <2>3, <3>2, PutFacts
    <3>4. ip + 1 \in Nat
      BY <1>0
    <3> DEFINE s == [Below(1) EXCEPT ![Slot] = Operand(1)]
    <3>5. s \in Seq(Held) /\ Goes(s, ip + 1)
      BY <3>1, <3>3
    <3> HIDE DEF s
    <3> QED BY <2>3, <3>4, <3>5, GoesStep
  <2> QED BY <2>4, <2>5, <2>6
<1> QED BY <1>3, <1>4, <1>5, <1>6

LEMMA FaultActions ==
  ASSUME Machine, BadOperand \/ OutOfProgram
  PROVE  Machine'
<1>0. /\ stack \in Seq(Held) /\ heap \in Seq(Objects(Held)) /\ Len(stack) \in Nat /\ ip \in Nat
      /\ << >> \in Seq(Held)
  BY DEF Machine
<1>1. CASE OutOfProgram
  <2>1. Fails("panic", stack) /\ Rest
    BY <1>1 DEF OutOfProgram, Panics, Fails
  <2> QED BY <1>0, <2>1, FailsStep DEF Statuses
<1>2. CASE BadOperand
  <2>1. PICK i \in DOMAIN Operands :
          /\ OperandFault(i) # "none"
          /\ Fails(OperandFault(i),
                   IF i <= Len(stack) THEN Below(i)
                   ELSE IF Op = "Adt" /\ i <= Arg THEN stack ELSE << >>)
    BY <1>2 DEF BadOperand
  <2>2. Rest /\ ip \in DOMAIN unit.code
    BY <1>2 DEF BadOperand, Rest
  <2>3. /\ i \in Nat \ {0}
        /\ Operands[i] \in {"any", "bool", "ref", "usize"}
    <3>1. CASE Op \in {"Array", "Adt"}
      <4>1. Arg \in Nat
        BY <2>2, <3>1, UnitFacts DEF WithNumber
      <4>2. /\ Several(Arg) \in Seq({"any"}) /\ Len(Several(Arg)) = Arg
            /\ DOMAIN Append(Several(Arg), "usize") = 1..(Arg + 1)
            /\ \A k \in 1..Arg : Append(Several(Arg), "usize")[k] = "any"
            /\ Append(Several(Arg), "usize")[Arg + 1] = "usize"
        BY <4>1, SeveralFacts
      <4>3. CASE Op = "Array"
        BY <4>1, <4>2, <4>3, <2>1, OperandsOf
      <4>4. CASE Op = "Adt"
        <5>1. Operands = Append(Several(Arg), "usize")
          BY <4>4, OperandsOf
        <5>2. i \in 1..(Arg + 1)
          BY <2>1, <4>2, <5>1, Zenon
        <5>3. i \in 1..Arg \/ i = Arg + 1
          BY <4>1, <5>2
        <5>4. Operands[i] \in {"any", "usize"}
          BY <4>2, <5>1, <5>3, Zenon
        <5> QED BY <4>1, <5>2, <5>4
      <4> QED BY <3>1, <4>3, <4>4
    <3>2. CASE Op \notin {"Array", "Adt"}
      <4>1. Operands \in {<<"any", "any">>, <<"any">>, <<"bool">>, <<"ref", "ref">>,
                          <<"usize", "usize", "ref">>, <<"usize", "ref">>,
                          <<"any", "usize", "ref">>, <<"ref">>, <<"usize">>, << >>}
        BY <3>2 DEF Operands
      <4> QED BY <2>1, <4>1
    <3> QED BY <3>1, <3>2
  <2>4. OperandFault(i) \in {"StackUnderflow", "TypeMismatch", "Overflow"}
    BY <2>1, <2>3 DEF OperandFault, Fault
  <2>5. OperandFault(i) \in Statuses
    BY <2>4 DEF Statuses, Reported, Errors
  <2> DEFINE s == IF i <= Len(stack) THEN Below(i)
                  ELSE IF Op = "Adt" /\ i <= Arg THEN stack ELSE << >>
  <2>6. s \in Seq(Held)
    <3>1. i <= Len(stack) => Below(i) \in Seq(Held)
      BY <1>0, <2>3, BelowFacts
    <3> QED BY <1>0, <3>1
  <2>7. Fails(OperandFault(i), s)
    BY <2>1
  <2> HIDE DEF s
  <2> QED BY <2>2, <2>5, <2>6, <2>7, FailsStep
<1> QED BY <1>1, <1>2
-----------------------------------------------------------------------------
LEMMA BuiltFacts ==
  ASSUME NEW S, NEW n \in Nat, NEW f, f = [i \in 1..n |-> f[i]], \A i \in 1..n : f[i] \in S
  PROVE  f \in Seq(S) /\ Len(f) = n /\ DOMAIN f = 1..n
  OBVIOUS

LEMMA InitMachine == Init => Machine
<1> SUFFICES ASSUME Init PROVE Machine
  OBVIOUS
<1>1. /\ unit \in Units /\ unit.strings \in Seq(Seq(STRING))
      /\ \A i \in DOMAIN unit.strings : Whole(unit.strings[i])
  BY ProgramsAssumption DEF Init, WellFormed
<1>2. heap = [i \in DOMAIN unit.strings |-> StringObject(unit.strings[i])]
  BY DEF Init
<1>3. \A i \in DOMAIN unit.strings :
        StringObject(unit.strings[i]) \in Objects(Held) /\ StringObject(unit.strings[i]).bytes = unit.strings[i]
  BY <1>1, MadeObjects DEF StringObject
<1> DEFINE T == Objects(Held)
<1>4. heap \in Seq(T) /\ Len(heap) = Len(unit.strings) /\ DOMAIN heap = DOMAIN unit.strings
  <2>1. DOMAIN unit.strings = 1..Len(unit.strings) /\ Len(unit.strings) \in Nat
    BY <1>1
  <2>2. \A i \in DOMAIN unit.strings : heap[i] \in T
    BY <1>2, <1>3
  <2>3. heap = [i \in 1..Len(unit.strings) |-> heap[i]]
    BY <1>2, <2>1
  <2> HIDE DEF T
  <2> QED BY <2>1, <2>2, <2>3, BuiltFacts
<1>5. StringsWhole
  BY <1>1, <1>2, <1>3, <1>4 DEF StringsWhole
<1>6. ip \in Nat /\ stack \in Seq(Held) /\ frames \in Seq(Frames) /\ status \in Statuses
  BY DEF Init, Statuses
<1>7. Len(unit.strings) \in Nat
  BY <1>1
<1> QED BY <1>1, <1>4, <1>5, <1>6, <1>7 DEF Machine

LEMMA StepMachine == Machine /\ [Next]_vars => Machine'
<1> SUFFICES ASSUME Machine, [Next]_vars PROVE Machine'
  OBVIOUS
<1>1. CASE UNCHANGED vars
  <2>1. stack' \in Seq(Held) /\ ip' \in Nat /\ frames' \in Seq(Frames) /\ status' \in Statuses
    BY <1>1 DEF vars, Machine
  <2> QED BY <1>1, <2>1, QuietStep DEF vars
<1>2. CASE Next
  BY <1>2, StackActions, StringActions, AllocatingActions, ContainerActions, CallActions,
     FaultActions DEF Next
<1> QED BY <1>1, <1>2

LEMMA MachineHolds == Spec => []Machine
  BY InitMachine, StepMachine, PTL DEF Spec

(* Every instruction leaves values of their kinds on the stack and the heap,  *)
(* and integers that fit, whatever the program does (value.rs, checked        *)
(* operations).                                                               *)
THEOREM MachineTyped == Spec => []TypeOK
<1>1. Machine => TypeOK
  <2> SUFFICES ASSUME Machine PROVE TypeOK
    OBVIOUS
  <2>1. Held \subseteq Value
    BY HeldFacts DEF Machine
  <2>2. stack \in Seq(Value)
    BY <2>1, SeqGrows DEF Machine
  <2>3. heap \in Seq(Objects(Value))
    BY <2>1, ObjectsGrow, SeqGrows DEF Machine
  <2> QED BY <2>2, <2>3 DEF Machine, TypeOK, Statuses, Reported
<1> QED BY <1>1, MachineHolds, PTL

(* No program makes a reference that leads nowhere: InvalidHeapRef is never   *)
(* returned (Heap::get).                                                      *)
THEOREM ReferencesLead == Spec => []NoDanglingRef
<1>1. Machine => NoDanglingRef
  <2> SUFFICES ASSUME Machine PROVE NoDanglingRef
    OBVIOUS
  <2>1. Reachable \subseteq Held
    <3>1. SetOf(stack) \subseteq Held
      BY DEF Machine, SetOf
    <3>2. ASSUME NEW id \in DOMAIN heap, heap[id].kind \in Containers
          PROVE  SetOf(heap[id].items) \subseteq Held
      <4>1. heap[id].items \in Seq(Held)
        BY <3>2, ObjectFacts DEF Machine, Containers
      <4> QED BY <4>1 DEF SetOf
    <3> QED BY <3>1, <3>2 DEF Reachable
  <2>2. status # "InvalidHeapRef"
    BY DEF Machine, Statuses, Reported
  <2> QED BY <2>1, <2>2, HeldFacts DEF NoDanglingRef, Machine
<1> QED BY <1>1, MachineHolds, PTL

(* Strings stay whole characters through any joining and slicing: what        *)
(* Slice's check of both ends is for.                                         *)
THEOREM StringsStayWhole == Spec => []StringsWhole
<1>1. Machine => StringsWhole
  BY DEF Machine
<1> QED BY <1>1, MachineHolds, PTL

(* What a step leaves of each object (ObjectsKeepShape).                      *)
ShapeKept ==
  \A id \in DOMAIN heap :
    /\ id \in DOMAIN heap' /\ heap'[id].kind = heap[id].kind
    /\ heap[id].kind = "String" => heap'[id] = heap[id]
    /\ heap[id].kind = "Adt" => /\ heap'[id].tag = heap[id].tag
                               /\ Len(heap'[id].items) = Len(heap[id].items)

LEMMA QuietShape == ASSUME UNCHANGED heap PROVE ShapeKept
  BY DEF ShapeKept

LEMMA AllocatesShape ==
  ASSUME Machine, NEW n, NEW o, Allocates(n, o)
  PROVE  ShapeKept
<1>1. heap \in Seq(Objects(Held)) /\ heap' = Append(heap, o)
  BY DEF Machine, Allocates
<1>2. ASSUME NEW id \in DOMAIN heap PROVE id \in DOMAIN heap' /\ heap'[id] = heap[id]
  BY <1>1
<1> QED BY <1>2 DEF ShapeKept

LEMMA WritesShape ==
  ASSUME Machine, NEW n, NEW id \in DOMAIN heap, NEW items, Writes(n, id, items),
         heap[id].kind \in Containers, heap[id].kind = "Adt" => Len(items) = Len(heap[id].items)
  PROVE  ShapeKept
<1>1. heap \in Seq(Objects(Held)) /\ heap' = [heap EXCEPT ![id].items = items]
  BY DEF Machine, Writes
<1>2. \A k \in DOMAIN heap : k \in DOMAIN heap' /\ (k # id => heap'[k] = heap[k])
  BY <1>1
<1>3. /\ heap'[id].kind = heap[id].kind /\ heap[id].kind # "String"
      /\ heap[id].kind = "Adt" => heap'[id].tag = heap[id].tag /\ heap'[id].items = items
  <2>1. heap'[id] = [heap[id] EXCEPT !.items = items]
    BY <1>1
  <2>2. heap[id] \in Objects(Held)
    BY <1>1
  <2>3. CASE heap[id].kind = "Array"
    BY <2>1, <2>2, <2>3 DEF Objects
  <2>4. CASE heap[id].kind = "Adt"
    BY <2>1, <2>2, <2>4 DEF Objects
  <2> QED BY <2>3, <2>4 DEF Containers
<1> QED BY <1>2, <1>3 DEF ShapeKept

LEMMA PutLength ==
  ASSUME NEW S, NEW s \in Seq(S), NEW v, NEW i
  PROVE  Len([s EXCEPT ![i] = v]) = Len(s)
OBVIOUS

LEMMA StepShape == Machine /\ [Next]_vars => ShapeKept
<1> SUFFICES ASSUME Machine, [Next]_vars PROVE ShapeKept
  OBVIOUS
<1>1. CASE UNCHANGED vars
  BY <1>1, QuietShape DEF vars
<1>2. CASE BadOperand \/ OutOfProgram
  BY <1>2, QuietShape DEF BadOperand, OutOfProgram, Rest
<1>3. CASE \/ Nop \/ Halt \/ Push \/ Pop \/ Jump \/ JumpIfFalse \/ Dup \/ BinaryOp \/ UnaryOp
           \/ Is \/ LoadString \/ EqualityOp \/ Index \/ LenOf \/ Tag \/ GetLocal \/ SetLocal
  <2>1. Rest
    BY <1>3 DEF Nop, Halt, Push, Pop, Jump, JumpIfFalse, Dup, BinaryOp, UnaryOp, Is, LoadString,
               EqualityOp, Index, LenOf, Tag, GetLocal, SetLocal
  <2> QED BY <2>1, QuietShape DEF Rest
<1>4. CASE Call \/ Ret
  BY <1>4, QuietShape DEF Call, Ret
<1>5. CASE Concat
  BY <1>5, QuietShape, AllocatesShape DEF Concat, Rest
<1>6. CASE Slice
  BY <1>6, QuietShape, AllocatesShape DEF Slice, Rest
<1>7. CASE Array \/ Adt
  BY <1>7, AllocatesShape DEF Array, Adt
<1>8. CASE IndexMut
  <2> DEFINE index == Val(Operand(2))
             id == Val(Operand(3))
             items == [heap[id].items EXCEPT ![index + 1] = Operand(1)]
  <2>1. UNCHANGED heap \/ (Holds(id, Containers) /\ Writes(3, id, items))
    BY <1>8 DEF IndexMut, Rest
  <2>2. ASSUME Holds(id, Containers), Writes(3, id, items) PROVE ShapeKept
    <3>1. id \in DOMAIN heap /\ heap[id].kind \in Containers /\ heap[id].items \in Seq(Held)
      BY <2>2, ObjectFacts DEF Holds, Containers, Machine
    <3>2. Len(items) = Len(heap[id].items)
      BY <3>1, PutLength
    <3> HIDE DEF items, id
    <3> QED BY <2>2, <3>1, <3>2, WritesShape
  <2> QED BY <2>1, <2>2, QuietShape
<1>9. CASE Insert
  <2> DEFINE index == Val(Operand(2))
             id == Val(Operand(3))
             s == heap[id].items
             items == Append(SubSeq(s, 1, index), Operand(1)) \o SubSeq(s, index + 1, Len(s))
  <2>1. UNCHANGED heap \/ (Holds(id, Growable) /\ Writes(3, id, items))
    BY <1>9 DEF Insert, Rest
  <2> HIDE DEF items, id
  <2> QED BY <2>1, QuietShape, WritesShape DEF Holds, Growable, Containers
<1>10. CASE Remove
  <2> DEFINE index == Val(Operand(1))
             id == Val(Operand(2))
             s == heap[id].items
             items == SubSeq(s, 1, index) \o SubSeq(s, index + 2, Len(s))
  <2>1. UNCHANGED heap \/ (Holds(id, Growable) /\ Writes(2, id, items))
    BY <1>10 DEF Remove, Rest
  <2> HIDE DEF items, id
  <2> QED BY <2>1, QuietShape, WritesShape DEF Holds, Growable, Containers
<1> QED BY <1>1, <1>2, <1>3, <1>4, <1>5, <1>6, <1>7, <1>8, <1>9, <1>10 DEF Next

(* An object keeps its kind, a string its bytes and a variant its tag and     *)
(* size, however a program writes to the heap (IndexMut, Insert, Remove).     *)
THEOREM ObjectsStay == Spec => ObjectsKeepShape
<1>1. Machine /\ [Next]_vars => [ShapeKept]_vars
  BY StepShape
<1>2. ObjectsKeepShape <=> [][ShapeKept]_vars
  BY DEF ObjectsKeepShape, ShapeKept
<1> QED BY <1>1, <1>2, MachineHolds, PTL DEF Spec
-----------------------------------------------------------------------------
(* The calling convention.                                                    *)
(* The errors that values can cause, and the ways a machine stops.            *)
DataErrors == Given \cup {"IndexOutOfBounds", "InvalidUtf8Boundary"}
Stops == {"halted"} \cup DataErrors

(* The inductive invariant.                                                   *)
Convention ==
  /\ Machine
  /\ CallersKept
  /\ NeverMisuses
  /\ kept \in Seq(Seq(Value))
-----------------------------------------------------------------------------
(* What each instruction takes and leaves, and where it may go.               *)
Effect(takes, leaves, follow) ==
  Takes(unit, ip) = takes /\ Leaves(unit, ip) = leaves /\ Follow(unit, ip) = follow

LEMMA EffectOf ==
  /\ Op \in BinaryOps \cup {"Is", "Concat", "Index"} => Effect(2, 1, {ip + 1})
  /\ Op = "Remove" => Effect(2, 0, {ip + 1})
  /\ Op = "Slice" => Effect(3, 1, {ip + 1})
  /\ Op \in {"IndexMut", "Insert"} => Effect(3, 0, {ip + 1})
  /\ Op \in UnaryOps \cup {"Len", "Tag"} => Effect(1, 1, {ip + 1})
  /\ Op \in {"Pop", "SetLocal"} => Effect(1, 0, {ip + 1})
  /\ Op = "JumpIfFalse" => Effect(1, 0, {ip + 1, Arg})
  /\ Op = "Dup" => Effect(1, 2, {ip + 1})
  /\ Op = "Ret" => Effect(1, 1, {})
  /\ Op = "Array" => Effect(Arg, 1, {ip + 1})
  /\ Op = "Adt" => Effect(Arg + 1, 1, {ip + 1})
  /\ Op = "Call" => Effect(Callee(unit, ip).arity + 1, 1, {ip + 1})
  /\ Op = "Nop" => Effect(0, 0, {ip + 1})
  /\ Op = "Halt" => Effect(0, 0, {})
  /\ Op = "Jump" => Effect(0, 0, {Arg})
  /\ Op \in {"Push", "LoadString", "GetLocal"} => Effect(0, 1, {ip + 1})
<1>1. Op = CodeOp(unit, ip) /\ Arg = CodeArg(unit, ip)
  BY DEF Op, Arg, CodeOp, CodeArg
<1>2. Op \in BinaryOps \cup {"Is", "Concat", "Index"} => Effect(2, 1, {ip + 1})
  <2> SUFFICES ASSUME Op \in BinaryOps \cup {"Is", "Concat", "Index"} PROVE Effect(2, 1, {ip + 1})
    OBVIOUS
  <2>1. Takes(unit, ip) = 2
    BY <1>1 DEF Takes, BinaryOps, UnaryOps, Arithmetic, Logic, Equality, Ordering
  <2>2. Leaves(unit, ip) = 1
    BY <1>1 DEF Leaves, BinaryOps, Arithmetic, Logic, Equality, Ordering
  <2>3. Follow(unit, ip) = {ip + 1}
    BY <1>1 DEF Follow, BinaryOps, Arithmetic, Logic, Equality, Ordering
  <2> QED BY <2>1, <2>2, <2>3 DEF Effect
<1>3. /\ Op = "Remove" => Effect(2, 0, {ip + 1})
      /\ Op = "Slice" => Effect(3, 1, {ip + 1})
      /\ Op \in {"IndexMut", "Insert"} => Effect(3, 0, {ip + 1})
  <2>1. /\ Op = "Remove" => Takes(unit, ip) = 2
        /\ Op \in {"Slice", "IndexMut", "Insert"} => Takes(unit, ip) = 3
    BY <1>1 DEF Takes, BinaryOps, UnaryOps, Arithmetic, Logic, Equality, Ordering
  <2>2. /\ Op \in {"Remove", "IndexMut", "Insert"} => Leaves(unit, ip) = 0
        /\ Op = "Slice" => Leaves(unit, ip) = 1
    BY <1>1 DEF Leaves
  <2>3. Op \in {"Remove", "Slice", "IndexMut", "Insert"} => Follow(unit, ip) = {ip + 1}
    BY <1>1 DEF Follow
  <2> QED BY <2>1, <2>2, <2>3 DEF Effect
<1>4. Op \in UnaryOps \cup {"Len", "Tag"} => Effect(1, 1, {ip + 1})
  BY <1>1 DEF Effect, Takes, Leaves, Follow, BinaryOps, UnaryOps, Arithmetic, Logic, Equality, Ordering
<1>5. /\ Op \in {"Pop", "SetLocal"} => Effect(1, 0, {ip + 1})
      /\ Op = "JumpIfFalse" => Effect(1, 0, {ip + 1, Arg})
      /\ Op = "Dup" => Effect(1, 2, {ip + 1})
      /\ Op = "Ret" => Effect(1, 1, {})
  BY <1>1 DEF Effect, Takes, Leaves, Follow, BinaryOps, UnaryOps, Arithmetic, Logic, Equality, Ordering
<1>6. /\ Op = "Array" => Effect(Arg, 1, {ip + 1})
      /\ Op = "Adt" => Effect(Arg + 1, 1, {ip + 1})
      /\ Op = "Call" => Effect(Callee(unit, ip).arity + 1, 1, {ip + 1})
  BY <1>1 DEF Effect, Takes, Leaves, Follow, BinaryOps, UnaryOps, Arithmetic, Logic, Equality, Ordering
<1>7. /\ Op = "Nop" => Effect(0, 0, {ip + 1})
      /\ Op = "Halt" => Effect(0, 0, {})
      /\ Op = "Jump" => Effect(0, 0, {Arg})
      /\ Op \in {"Push", "LoadString", "GetLocal"} => Effect(0, 1, {ip + 1})
  BY <1>1 DEF Effect, Takes, Leaves, Follow, BinaryOps, UnaryOps, Arithmetic, Logic, Equality, Ordering
<1> QED BY <1>2, <1>3, <1>4, <1>5, <1>6, <1>7, Zenon
-----------------------------------------------------------------------------
(* Where the running function's part of the stack begins.                     *)
Base == FrameTopOf(Len(frames))

LEMMA RunningFacts ==
  ASSUME Convention, status = "running"
  PROVE  /\ stack \in Seq(Value) /\ Len(stack) \in Nat /\ ip \in Nat
         /\ frames \in Seq(Frames) /\ Len(frames) \in Nat
         /\ ip \in DOMAIN unit.code
         /\ Base \in Nat /\ unit.depth[ip] \in Nat
         /\ Len(stack) = Base + unit.depth[ip]
         /\ Takes(unit, ip) <= unit.depth[ip]
         /\ Disciplined(unit) /\ WellFormed(unit)
<1>1. Machine /\ DepthsAgree /\ unit \in Units
  BY DEF Convention, CallersKept, Machine
<1>2. Disciplined(unit) /\ WellFormed(unit)
  BY <1>1, UnitsAssumption, ProgramsAssumption
<1>3. /\ stack \in Seq(Held) /\ ip \in Nat /\ frames \in Seq(Frames)
      /\ Held \subseteq Value
  BY <1>1, HeldFacts DEF Machine
<1>4. stack \in Seq(Value)
  BY <1>3, SeqGrows
<1>5. /\ ip \in DOMAIN unit.code
      /\ Len(stack) = Base + unit.depth[ip]
      /\ \A i \in DOMAIN frames : 0 <= frames[i].top
  BY <1>1 DEF DepthsAgree, Base
<1>6. unit.depth[ip] \in Nat /\ Takes(unit, ip) <= unit.depth[ip]
  BY <1>2, <1>5 DEF Disciplined
<1>7. Base \in Nat
  <2>1. CASE Len(frames) = 0
    BY <2>1 DEF Base, FrameTopOf
  <2>2. CASE Len(frames) # 0
    <3>1. Len(frames) \in DOMAIN frames /\ frames[Len(frames)] \in Frames
      BY <1>3, <2>2
    <3>2. frames[Len(frames)].top \in Int
      BY <3>1 DEF Frames
    <3> QED BY <1>5, <2>2, <3>1, <3>2 DEF Base, FrameTopOf
  <2> QED BY <2>1, <2>2
<1>8. Len(stack) \in Nat /\ Len(frames) \in Nat
  BY <1>3, <1>4
<1> QED BY <1>2, <1>3, <1>4, <1>5, <1>6, <1>7, <1>8

(* A step inside one function: it leaves the stack below the function's part, *)
(* and goes on where its code says with the depth its code says, or stops.    *)
KeepsBase(s) ==
  /\ s \in Seq(Value)
  /\ Len(s) >= Base
  /\ \A i \in 1..Base : s[i] = stack[i]

GoesOn ==
  /\ status' = "running"
  /\ ip' \in Follow(unit, ip)
  /\ Len(stack') = Len(stack) - Takes(unit, ip) + Leaves(unit, ip)
  /\ Op = "Push" => stack'[Len(stack')] = Arg

Local ==
  /\ UNCHANGED <<unit, frames>>
  /\ KeepsBase(stack')
  /\ GoesOn \/ status' \in Stops

LEMMA BelowKeeps ==
  ASSUME stack \in Seq(Value), Base \in Nat, NEW n \in Nat, Base + n <= Len(stack)
  PROVE  /\ KeepsBase(Below(n)) /\ Len(Below(n)) = Len(stack) - n
         /\ \A v \in Value : /\ KeepsBase(Append(Below(n), v))
                             /\ Len(Append(Below(n), v)) = Len(stack) - n + 1
                             /\ Append(Below(n), v)[Len(stack) - n + 1] = v
<1>1. Len(stack) \in Nat /\ n \in 0..Len(stack)
  OBVIOUS
<1>2. /\ Below(n) \in Seq(Value) /\ Len(Below(n)) = Len(stack) - n
      /\ \A i \in 1..(Len(stack) - n) : Below(n)[i] = stack[i]
  BY <1>1, BelowFacts
<1>3. ASSUME NEW v \in Value
      PROVE  /\ KeepsBase(Append(Below(n), v))
             /\ Len(Append(Below(n), v)) = Len(stack) - n + 1
             /\ Append(Below(n), v)[Len(stack) - n + 1] = v
  <2> DEFINE s == Below(n)
  <2>1. s \in Seq(Value) /\ Len(s) = Len(stack) - n
    BY <1>2
  <2> HIDE DEF s
  <2>2. /\ Append(s, v) \in Seq(Value) /\ Len(Append(s, v)) = Len(s) + 1
        /\ \A i \in 1..Len(s) : Append(s, v)[i] = s[i]
        /\ Append(s, v)[Len(s) + 1] = v
    BY <2>1
  <2>3. \A i \in 1..Base : i \in 1..Len(s)
    BY <1>1, <2>1
  <2>4. \A i \in 1..Base : Append(s, v)[i] = stack[i]
    BY <1>2, <2>1, <2>2, <2>3 DEF s
  <2> QED BY <1>1, <2>1, <2>2, <2>4 DEF KeepsBase, s
<1> QED BY <1>1, <1>2, <1>3 DEF KeepsBase

LEMMA GoesLocal ==
  ASSUME NEW s, NEW addr \in Follow(unit, ip), Goes(s, addr), UNCHANGED <<unit, frames>>,
         KeepsBase(s), Len(s) = Len(stack) - Takes(unit, ip) + Leaves(unit, ip), Op # "Push"
  PROVE  Local
  BY DEF Goes, Local, GoesOn

LEMMA FailsLocal ==
  ASSUME NEW s, NEW e \in Stops, Fails(e, s), UNCHANGED <<unit, frames>>, KeepsBase(s)
  PROVE  Local
  BY DEF Fails, Local

(* A value or an error of values in place of the operands.                    *)
Answers == Value \cup ({"Err"} \X DataErrors)

LEMMA YieldsLocal ==
  ASSUME Convention, status = "running", Rest, NEW n \in Nat, n <= Takes(unit, ip),
         Takes(unit, ip) \in Nat, Leaves(unit, ip) - Takes(unit, ip) = 1 - n,
         Leaves(unit, ip) \in Nat, ip + 1 \in Follow(unit, ip), NEW v \in Answers, Yields(n, v),
         Op = "Push" => v = Arg
  PROVE  Local
<1>1. /\ stack \in Seq(Value) /\ Base \in Nat /\ Len(stack) \in Nat
      /\ Base + n <= Len(stack)
  BY RunningFacts, SMTT(30)
<1>2. UNCHANGED <<unit, frames>>
  BY DEF Rest
<1>3. CASE Kind(v) = "Err"
  <2>1. v \notin Value
    BY <1>3 DEF Value, Scalar, Float, Kind
  <2>2. Val(v) \in Stops
    BY <2>1 DEF Answers, Val, Stops
  <2>3. Fails(Val(v), Below(n))
    BY <1>3 DEF Yields
  <2> QED BY <1>1, <1>2, <2>2, <2>3, BelowKeeps, FailsLocal
<1>4. CASE Kind(v) # "Err"
  <2>1. v \in Value
    BY <1>4 DEF Answers, Kind
  <2>2. Goes(Append(Below(n), v), ip + 1)
    BY <1>4 DEF Yields
  <2> DEFINE s == Append(Below(n), v)
  <2>3. KeepsBase(s) /\ Len(s) = Len(stack) - n + 1 /\ s[Len(stack) - n + 1] = v
    BY <1>1, <2>1, BelowKeeps
  <2>4. stack' = s /\ ip' = ip + 1 /\ status' = "running"
    BY <2>2 DEF Goes
  <2> HIDE DEF s
  <2>5. Len(stack') = Len(stack) - Takes(unit, ip) + Leaves(unit, ip)
    BY <1>1, <2>3, <2>4, SMTT(30)
  <2> QED BY <1>2, <2>3, <2>4, <2>5 DEF Local, GoesOn
<1> QED BY <1>3, <1>4

LEMMA AllocatesLocal ==
  ASSUME Convention, status = "running", NEW n \in Nat, n = Takes(unit, ip),
         Leaves(unit, ip) = 1, ip + 1 \in Follow(unit, ip), NEW o, Allocates(n, o), Op # "Push"
  PROVE  Local
<1>1. /\ stack \in Seq(Value) /\ Base \in Nat /\ Len(stack) \in Nat
      /\ Base + n <= Len(stack) /\ heap \in Seq(Objects(Held))
  BY RunningFacts DEF Convention, Machine
<1>2. RefTo(Len(heap) + 1) \in Value
  BY <1>1 DEF RefTo, Value
<1> DEFINE s == Append(Below(n), RefTo(Len(heap) + 1))
<1>3. KeepsBase(s) /\ Len(s) = Len(stack) - n + 1
  BY <1>1, <1>2, BelowKeeps
<1>4. Goes(s, ip + 1) /\ UNCHANGED <<unit, frames>>
  BY DEF Allocates
<1> HIDE DEF s
<1> QED BY <1>3, <1>4, GoesLocal

LEMMA WritesLocal ==
  ASSUME Convention, status = "running", NEW n \in Nat, n = Takes(unit, ip),
         Leaves(unit, ip) = 0, ip + 1 \in Follow(unit, ip), NEW id, NEW items,
         Writes(n, id, items), Op # "Push"
  PROVE  Local
<1>1. /\ stack \in Seq(Value) /\ Base \in Nat /\ Len(stack) \in Nat
      /\ Base + n <= Len(stack)
  BY RunningFacts
<1>2. KeepsBase(Below(n)) /\ Len(Below(n)) = Len(stack) - n
  BY <1>1, BelowKeeps
<1>3. Goes(Below(n), ip + 1) /\ UNCHANGED <<unit, frames>>
  BY DEF Writes
<1>4. Len(Below(n)) = Len(stack) - Takes(unit, ip) + Leaves(unit, ip)
  BY <1>1, <1>2
<1> QED BY <1>2, <1>3, <1>4, GoesLocal
-----------------------------------------------------------------------------
(* What every instruction can rely on.                                        *)
LEMMA AtFacts ==
  ASSUME Convention, NEW op, At(op)
  PROVE  /\ Op = op /\ status = "running" /\ ip \in DOMAIN unit.code
         /\ Machine /\ heap \in Seq(Objects(Held)) /\ Held \subseteq Value
         /\ \A id \in DOMAIN heap : heap[id] \in Objects(Held)
         /\ Op \in WithNumber => Arg \in Nat
         /\ Base \in Nat /\ Len(stack) \in Nat
         /\ \A n \in Nat : n = Takes(unit, ip) => Base + n <= Len(stack)
<1>1. Machine /\ heap \in Seq(Objects(Held))
  BY DEF Convention, Machine
<1>2. Op = op /\ status = "running" /\ ip \in DOMAIN unit.code
  BY DEF At, Running
<1>3. \A id \in DOMAIN heap : heap[id] \in Objects(Held)
  BY <1>1
<1>4. /\ Base \in Nat /\ Len(stack) \in Nat /\ unit.depth[ip] \in Nat
      /\ Len(stack) = Base + unit.depth[ip] /\ Takes(unit, ip) <= unit.depth[ip]
  BY <1>2, RunningFacts
<1>5. \A n \in Nat : n = Takes(unit, ip) => Base + n <= Len(stack)
  BY <1>4
<1> QED BY <1>1, <1>2, <1>3, <1>4, <1>5, HeldFacts, UnitFacts

LEMMA AnswerFacts ==
  ASSUME Machine
  PROVE  /\ Result \subseteq Answers /\ Held \subseteq Answers
         /\ \A e \in DataErrors : Failure(e) \in Answers
         /\ \A id \in DOMAIN heap : HeapFault(id) \in Answers
         /\ \A n \in Nat : Fit(n) \in Answers
<1>1. Result \subseteq Answers
  BY DEF Result, Answers, Value, DataErrors
<1>2. \A e \in DataErrors : Failure(e) \in Answers
  BY DEF Failure, Answers
<1>3. \A id \in DOMAIN heap : HeapFault(id) = Failure("TypeMismatch")
  BY DEF HeapFault
<1>4. "TypeMismatch" \in DataErrors
  BY DEF DataErrors, Given
<1>5. \A n \in Nat : Fit(n) \in Result
  BY FitResult
<1>6. Held \subseteq Answers
  BY HeldFacts DEF Machine, Answers
<1> QED BY <1>1, <1>2, <1>3, <1>4, <1>5, <1>6

(* An instruction that takes some operands and leaves a value in their place. *)
LEMMA OperationLocal ==
  ASSUME Convention, NEW op, At(op), Rest, NEW n \in Nat, Effect(n, 1, {ip + 1}),
         NEW v \in Answers, Yields(n, v), op = "Push" => v = Arg
  PROVE  Local
<1>1. Op = op /\ status = "running"
  BY AtFacts
<1>2. Takes(unit, ip) = n /\ Leaves(unit, ip) = 1 /\ Follow(unit, ip) = {ip + 1}
  BY DEF Effect
<1>3. n <= n /\ 1 \in Nat /\ 1 - n = 1 - n
  OBVIOUS
<1> QED BY <1>1, <1>2, <1>3, YieldsLocal

(* One that only takes operands away, and goes on where it may.               *)
LEMMA TakingLocal ==
  ASSUME Convention, NEW op, At(op), op # "Push", Rest, NEW n \in Nat, NEW follow,
         Effect(n, 0, follow), NEW addr \in follow, Goes(Below(n), addr)
  PROVE  Local
<1>1. Op = op /\ status = "running" /\ stack \in Seq(Value)
  BY AtFacts, RunningFacts
<1>2. Takes(unit, ip) = n /\ Leaves(unit, ip) = 0 /\ Follow(unit, ip) = follow
  BY DEF Effect
<1>3. Base \in Nat /\ Len(stack) \in Nat /\ Base + n <= Len(stack)
  BY <1>2, AtFacts
<1>4. KeepsBase(Below(n)) /\ Len(Below(n)) = Len(stack) - n
  BY <1>1, <1>3, BelowKeeps
<1>5. Len(Below(n)) = Len(stack) - Takes(unit, ip) + Leaves(unit, ip)
  BY <1>2, <1>3, <1>4
<1> QED BY <1>1, <1>2, <1>4, <1>5, GoesLocal DEF Rest

(* One at fault takes its operands all the same.                              *)
LEMMA FaultLocal ==
  ASSUME Convention, NEW op, At(op), Rest, NEW n \in Nat, n = Takes(unit, ip),
         NEW v \in {Failure(e) : e \in DataErrors}, Yields(n, v)
  PROVE  Local
<1>1. stack \in Seq(Value) /\ Base \in Nat /\ Len(stack) \in Nat /\ Base + n <= Len(stack)
  BY AtFacts, RunningFacts
<1>2. PICK e \in DataErrors : v = Failure(e) /\ Fails(e, Below(n))
  BY DEF Failure, Yields, Kind, Val
<1> QED BY <1>1, <1>2, BelowKeeps, FailsLocal DEF Rest, Stops

LEMMA StackKept ==
  ASSUME stack \in Seq(Value), Base \in Nat, Base <= Len(stack)
  PROVE  KeepsBase(stack)
  BY DEF KeepsBase

LEMMA StackLocal ==
  ASSUME Convention,
         \/ Nop \/ Halt \/ Push \/ Pop \/ Jump \/ JumpIfFalse \/ Dup \/ BinaryOp \/ UnaryOp \/ Is
  PROVE  Local
<1>0. Machine
  BY DEF Convention
<1>1. CASE Nop
  <2>1. At("Nop") /\ Goes(stack, ip + 1) /\ Rest
    BY <1>1 DEF Nop, Ready
  <2>2. Effect(0, 0, {ip + 1}) /\ status = "running" /\ Op = "Nop"
    BY <2>1, AtFacts, EffectOf
  <2>3. stack \in Seq(Value) /\ Base \in Nat /\ Base <= Len(stack) /\ Len(stack) \in Nat
    BY <2>2, RunningFacts
  <2> QED BY <2>1, <2>2, <2>3, StackKept, GoesLocal DEF Effect, Rest
<1>2. CASE Halt
  <2>1. At("Halt") /\ Fails("halted", stack) /\ Rest
    BY <1>2 DEF Halt, Ready
  <2>2. status = "running"
    BY <2>1, AtFacts
  <2>3. stack \in Seq(Value) /\ Base \in Nat /\ Base <= Len(stack) /\ Len(stack) \in Nat
    BY <2>2, RunningFacts
  <2> QED BY <2>1, <2>3, StackKept, FailsLocal DEF Rest, Stops
<1>3. CASE Push
  <2>1. At("Push") /\ Yields(0, Arg) /\ Rest
    BY <1>3 DEF Push, Ready
  <2>2. Effect(0, 1, {ip + 1}) /\ Op = "Push"
    BY <2>1, AtFacts, EffectOf
  <2>3. Arg \in Answers
    BY <1>0, <2>1, <2>2, UnitFacts DEF At, Answers, Value
  <2> QED BY <2>1, <2>2, <2>3, OperationLocal
<1>4. CASE Pop
  <2>1. At("Pop") /\ Goes(Below(1), ip + 1) /\ Rest
    BY <1>4 DEF Pop, Ready
  <2>2. Effect(1, 0, {ip + 1})
    BY <2>1, AtFacts, EffectOf
  <2> QED BY <2>1, <2>2, TakingLocal
<1>5. CASE Jump
  <2>1. At("Jump") /\ Goes(stack, Arg) /\ Rest
    BY <1>5 DEF Jump, Ready
  <2>2. Effect(0, 0, {Arg}) /\ status = "running" /\ Op = "Jump"
    BY <2>1, AtFacts, EffectOf
  <2>3. stack \in Seq(Value) /\ Base \in Nat /\ Base <= Len(stack) /\ Len(stack) \in Nat
    BY <2>2, RunningFacts
  <2> QED BY <2>1, <2>2, <2>3, StackKept, GoesLocal DEF Effect, Rest
<1>6. CASE JumpIfFalse
  <2>1. /\ At("JumpIfFalse") /\ Rest
        /\ Goes(Below(1), IF Val(Operand(1)) THEN ip + 1 ELSE Arg)
    BY <1>6 DEF JumpIfFalse, Ready
  <2>2. Effect(1, 0, {ip + 1, Arg})
    BY <2>1, AtFacts, EffectOf
  <2> DEFINE addr == IF Val(Operand(1)) THEN ip + 1 ELSE Arg
  <2>3. addr \in {ip + 1, Arg} /\ Goes(Below(1), addr)
    BY <2>1
  <2> HIDE DEF addr
  <2> QED BY <2>1, <2>2, <2>3, TakingLocal
<1>7. CASE Dup
  <2>1. At("Dup") /\ Rest /\ (stack # << >> => Yields(0, Operand(1)))
    BY <1>7 DEF Dup, Ready
  <2>2. Effect(1, 2, {ip + 1}) /\ status = "running" /\ Op = "Dup"
    BY <2>1, AtFacts, EffectOf
  <2>3. stack \in Seq(Value) /\ Len(stack) \in Nat /\ Len(stack) >= 1
    BY <2>1, <2>2, AtFacts, RunningFacts DEF Effect
  <2>4. Operand(1) \in Value /\ stack # << >>
    BY <2>3 DEF Operand
  <2>5. Takes(unit, ip) = 1 /\ Leaves(unit, ip) = 2 /\ Follow(unit, ip) = {ip + 1}
    BY <2>2 DEF Effect
  <2> QED BY <2>1, <2>2, <2>4, <2>5, YieldsLocal DEF Answers
<1>8. CASE BinaryOp
  <2>1. At(Op) /\ Ready(Op) /\ Op \in BinaryOps /\ Operands = <<"any", "any">> /\ Rest
    BY <1>8, OperandsOf DEF BinaryOp, Ready
  <2>2. Operand(1) \in Value /\ Operand(2) \in Value
    BY <1>0, <2>1, ReadyFacts
  <2>3. PICK v \in Binary(Op, Operand(2), Operand(1)) : Yields(2, v)
    BY <1>8 DEF BinaryOp
  <2>4. v \in Answers
    BY <1>0, <2>1, <2>2, <2>3, BinaryResult, AnswerFacts
  <2>5. Effect(2, 1, {ip + 1}) /\ Op # "Push"
    BY <2>1, EffectOf DEF BinaryOps, Arithmetic, Logic, Equality, Ordering
  <2> QED BY <2>1, <2>3, <2>4, <2>5, OperationLocal
<1>9. CASE UnaryOp
  <2>1. At(Op) /\ Ready(Op) /\ Op \in UnaryOps /\ Operands = <<"any">> /\ Rest
    BY <1>9, OperandsOf DEF UnaryOp, Ready
  <2>2. Operand(1) \in Value
    BY <1>0, <2>1, ReadyFacts
  <2>3. Yields(1, Unary(Op, Operand(1))) /\ Unary(Op, Operand(1)) \in Answers
    BY <1>0, <1>9, <2>1, <2>2, UnaryResult, AnswerFacts DEF UnaryOp
  <2>4. Effect(1, 1, {ip + 1}) /\ Op # "Push"
    BY <2>1, EffectOf DEF UnaryOps
  <2> QED BY <2>1, <2>3, <2>4, OperationLocal
<1>10. CASE Is
  <2>1. At("Is") /\ Ready("Is") /\ Operands = <<"any", "any">> /\ Rest
    BY <1>10, OperandsOf DEF Is, Ready, At
  <2>2. Operand(1) \in Value /\ Operand(2) \in Value
    BY <1>0, <2>1, ReadyFacts
  <2>3. PICK v \in Identical(Operand(2), Operand(1)) : Yields(2, v)
    BY <1>10 DEF Is
  <2>4. v \in Answers
    BY <1>0, <2>2, <2>3, IdenticalResult, AnswerFacts
  <2>5. Effect(2, 1, {ip + 1})
    BY <2>1, AtFacts, EffectOf
  <2> QED BY <2>1, <2>3, <2>4, <2>5, OperationLocal
<1> QED BY <1>1, <1>2, <1>3, <1>4, <1>5, <1>6, <1>7, <1>8, <1>9, <1>10

LEMMA StringLocal ==
  ASSUME Convention, LoadString \/ Concat \/ Slice \/ EqualityOp
  PROVE  Local
<1>0. Machine
  BY DEF Convention
<1>1. \A n \in Nat : RefTo(n) \in Answers
  BY DEF RefTo, Answers, Value
<1>2. CASE LoadString
  <2>1. At("LoadString") /\ Rest
    BY <1>2 DEF LoadString, Ready
  <2>2. Op = "LoadString" /\ status = "running" /\ ip \in DOMAIN unit.code /\ Arg \in Nat
    BY <2>1, AtFacts DEF WithNumber
  <2>3. Arg < Len(unit.strings)
    BY <2>2, RunningFacts DEF Disciplined, Op, Arg, CodeOp, CodeArg
  <2>4. Yields(0, RefTo(Arg + 1)) /\ RefTo(Arg + 1) \in Answers
    BY <1>1, <1>2, <2>2, <2>3 DEF LoadString
  <2>5. Effect(0, 1, {ip + 1})
    BY <2>2, EffectOf
  <2> QED BY <2>1, <2>4, <2>5, OperationLocal
<1>3. CASE Concat
  <2> DEFINE b == Val(Operand(1))
             a == Val(Operand(2))
  <2>1. At("Concat") /\ Ready("Concat") /\ Operands = <<"ref", "ref">>
    BY <1>3, OperandsOf DEF Concat, Ready, At
  <2>2. a \in DOMAIN heap /\ b \in DOMAIN heap
    BY <1>0, <2>1, ReadyFacts
  <2>3. Effect(2, 1, {ip + 1}) /\ status = "running" /\ Op = "Concat"
    BY <2>1, AtFacts, EffectOf
  <2>4. \/ Yields(2, HeapFault(a)) /\ Rest
        \/ Yields(2, HeapFault(b)) /\ Rest
        \/ Allocates(2, StringObject(heap[a].bytes \o heap[b].bytes))
    BY <1>3 DEF Concat
  <2>5. HeapFault(a) \in Answers /\ HeapFault(b) \in Answers
    BY <1>0, <2>2, AnswerFacts
  <2>6. Takes(unit, ip) = 2 /\ Leaves(unit, ip) = 1 /\ Follow(unit, ip) = {ip + 1}
    BY <2>3 DEF Effect
  <2> HIDE DEF a, b
  <2> QED BY <2>1, <2>3, <2>4, <2>5, <2>6, OperationLocal, AllocatesLocal
<1>4. CASE Slice
  <2> DEFINE end == Val(Operand(1))
             start == Val(Operand(2))
             id == Val(Operand(3))
             s == heap[id].bytes
  <2>1. At("Slice") /\ Ready("Slice") /\ Operands = <<"usize", "usize", "ref">>
    BY <1>4, OperandsOf DEF Slice, Ready, At
  <2>2. id \in DOMAIN heap
    BY <1>0, <2>1, ReadyFacts
  <2>3. Effect(3, 1, {ip + 1}) /\ status = "running" /\ Op = "Slice"
    BY <2>1, AtFacts, EffectOf
  <2>4. \/ Yields(3, HeapFault(id)) /\ Rest
        \/ Yields(3, Failure("IndexOutOfBounds")) /\ Rest
        \/ Yields(3, Failure("InvalidUtf8Boundary")) /\ Rest
        \/ Allocates(3, StringObject(SubSeq(s, start + 1, end)))
    BY <1>4 DEF Slice
  <2>5. /\ HeapFault(id) \in Answers
        /\ Failure("IndexOutOfBounds") \in Answers /\ Failure("InvalidUtf8Boundary") \in Answers
    BY <1>0, <2>2, AnswerFacts DEF DataErrors
  <2>6. Takes(unit, ip) = 3 /\ Leaves(unit, ip) = 1 /\ Follow(unit, ip) = {ip + 1}
    BY <2>3 DEF Effect
  <2> HIDE DEF id, s, start, end
  <2> QED BY <2>1, <2>3, <2>4, <2>5, <2>6, OperationLocal, AllocatesLocal
<1>5. CASE EqualityOp
  <2> DEFINE b == Operand(1)
             a == Operand(2)
  <2>1. /\ At(Op) /\ Ready(Op) /\ Op \in BinaryOps /\ Op # "Push"
        /\ Operands = <<"any", "any">> /\ Rest
    BY <1>5, OperandsOf DEF EqualityOp, BinaryOps, Ready, Equality
  <2>2. a \in Value /\ b \in Value /\ a \in Held /\ b \in Held
    BY <1>0, <2>1, ReadyFacts
  <2>3. Effect(2, 1, {ip + 1})
    BY <2>1, EffectOf
  <2>4. \E v \in Answers : Yields(2, v)
    <3>1. CASE Kind(a) = "Ref" /\ Kind(b) = "Ref"
      <4>1. Val(a) \in DOMAIN heap /\ Val(b) \in DOMAIN heap
        BY <1>0, <2>2, <3>1, HeldFacts DEF Machine
      <4> DEFINE p == (heap[Val(a)].bytes = heap[Val(b)].bytes) = (Op = "Eq")
      <4>2. \/ Yields(2, HeapFault(Val(a))) \/ Yields(2, HeapFault(Val(b))) \/ Yields(2, BoolOf(p))
        BY <1>5, <3>1 DEF EqualityOp
      <4>3. p \in BOOLEAN
        OBVIOUS
      <4> HIDE DEF p, a, b
      <4> QED BY <1>0, <4>1, <4>2, <4>3, BoolResult, AnswerFacts
    <3>2. CASE ~(Kind(a) = "Ref" /\ Kind(b) = "Ref")
      <4>1. PICK v \in Binary(Op, a, b) : Yields(2, v)
        BY <1>5, <3>2 DEF EqualityOp
      <4>2. v \in Answers
        BY <1>0, <2>1, <2>2, <4>1, BinaryResult, AnswerFacts
      <4> QED BY <4>1, <4>2
    <3> QED BY <3>1, <3>2
  <2> QED BY <2>1, <2>3, <2>4, OperationLocal
<1> QED BY <1>2, <1>3, <1>4, <1>5

LEMMA AllocatingLocal ==
  ASSUME Convention, Array \/ Adt
  PROVE  Local
<1>1. CASE Array
  <2>1. At("Array") /\ Allocates(Arg, ArrayObject(Top(Arg)))
    BY <1>1 DEF Array, Ready
  <2>2. Effect(Arg, 1, {ip + 1}) /\ status = "running" /\ Op = "Array" /\ Arg \in Nat
    BY <2>1, AtFacts, EffectOf DEF WithNumber
  <2> QED BY <2>1, <2>2, AllocatesLocal DEF Effect
<1>2. CASE Adt
  <2>1. At("Adt") /\ Allocates(Arg + 1, AdtObject(Val(Operand(Arg + 1)), Top(Arg)))
    BY <1>2 DEF Adt, Ready
  <2>2. Effect(Arg + 1, 1, {ip + 1}) /\ status = "running" /\ Op = "Adt" /\ Arg \in Nat
    BY <2>1, AtFacts, EffectOf DEF WithNumber
  <2>3. Arg + 1 \in Nat
    BY <2>2
  <2> QED BY <2>1, <2>2, <2>3, AllocatesLocal DEF Effect
<1> QED BY <1>1, <1>2

LEMMA ContainerLocal ==
  ASSUME Convention, Index \/ IndexMut \/ Insert \/ Remove \/ LenOf \/ Tag
  PROVE  Local
<1>0. /\ Machine /\ heap \in Seq(Objects(Held))
      /\ \A id \in DOMAIN heap : heap[id] \in Objects(Held)
  BY DEF Convention, Machine
<1>1. Failure("IndexOutOfBounds") \in Answers
  BY <1>0, AnswerFacts DEF DataErrors
<1>8. /\ Failure("IndexOutOfBounds") \in {Failure(e) : e \in DataErrors}
      /\ Failure("TypeMismatch") \in {Failure(e) : e \in DataErrors}
  BY DEF DataErrors, Given
<1>2. CASE Index
  <2> DEFINE index == Val(Operand(1))
             id == Val(Operand(2))
             v == IF ~Holds(id, Containers) THEN HeapFault(id)
                  ELSE IF index >= Len(heap[id].items) THEN Failure("IndexOutOfBounds")
                  ELSE heap[id].items[index + 1]
  <2>1. At("Index") /\ Ready("Index") /\ Operands = <<"usize", "ref">>
    BY <1>2, OperandsOf DEF Index, Ready, At
  <2>2. index \in Nat /\ id \in DOMAIN heap
    BY <1>0, <2>1, ReadyFacts
  <2>3. v \in Answers
    <3>1. CASE ~Holds(id, Containers)
      BY <1>0, <2>2, <3>1, AnswerFacts
    <3>2. CASE Holds(id, Containers) /\ index >= Len(heap[id].items)
      BY <1>1, <3>2
    <3>3. CASE Holds(id, Containers) /\ ~(index >= Len(heap[id].items))
      <4>1. heap[id].items \in Seq(Held)
        BY <1>0, <2>2, <3>3, ObjectFacts DEF Holds, Containers
      <4>2. heap[id].items[index + 1] \in Held
        BY <2>2, <3>3, <4>1, ElementFacts
      <4> QED BY <1>0, <3>3, <4>2, AnswerFacts
    <3> QED BY <3>1, <3>2, <3>3
  <2>4. Yields(2, v) /\ Rest
    BY <1>2 DEF Index
  <2>5. Effect(2, 1, {ip + 1})
    BY <2>1, AtFacts, EffectOf
  <2> HIDE DEF v
  <2> QED BY <2>1, <2>3, <2>4, <2>5, OperationLocal
<1>3. CASE IndexMut
  <2> DEFINE id == Val(Operand(3))
  <2>1. At("IndexMut") /\ Ready("IndexMut") /\ Operands = <<"any", "usize", "ref">>
    BY <1>3, OperandsOf DEF IndexMut, Ready, At
  <2>2. id \in DOMAIN heap
    BY <1>0, <2>1, ReadyFacts
  <2>3. \/ \E v \in {HeapFault(id), Failure("IndexOutOfBounds")} : Yields(3, v) /\ Rest
        \/ \E items : Writes(3, id, items)
    BY <1>3 DEF IndexMut
  <2>4. HeapFault(id) = Failure("TypeMismatch")
    BY <2>2 DEF HeapFault
  <2>5. status = "running" /\ Op = "IndexMut" /\ Effect(3, 0, {ip + 1})
    BY <2>1, AtFacts, EffectOf
  <2> HIDE DEF id
  <2> QED BY <1>8, <2>1, <2>3, <2>4, <2>5, FaultLocal, WritesLocal DEF Effect
<1>4. CASE Insert
  <2> DEFINE id == Val(Operand(3))
  <2>1. At("Insert") /\ Ready("Insert") /\ Operands = <<"any", "usize", "ref">>
    BY <1>4, OperandsOf DEF Insert, Ready, At
  <2>2. id \in DOMAIN heap
    BY <1>0, <2>1, ReadyFacts
  <2>3. \/ \E v \in {HeapFault(id), Failure("IndexOutOfBounds")} : Yields(3, v) /\ Rest
        \/ \E items : Writes(3, id, items)
    BY <1>4 DEF Insert
  <2>4. HeapFault(id) = Failure("TypeMismatch")
    BY <2>2 DEF HeapFault
  <2>5. status = "running" /\ Op = "Insert" /\ Effect(3, 0, {ip + 1})
    BY <2>1, AtFacts, EffectOf
  <2> HIDE DEF id
  <2> QED BY <1>8, <2>1, <2>3, <2>4, <2>5, FaultLocal, WritesLocal DEF Effect
<1>5. CASE Remove
  <2> DEFINE id == Val(Operand(2))
  <2>1. At("Remove") /\ Ready("Remove") /\ Operands = <<"usize", "ref">>
    BY <1>5, OperandsOf DEF Remove, Ready, At
  <2>2. id \in DOMAIN heap
    BY <1>0, <2>1, ReadyFacts
  <2>3. \/ \E v \in {HeapFault(id), Failure("IndexOutOfBounds")} : Yields(2, v) /\ Rest
        \/ \E items : Writes(2, id, items)
    BY <1>5 DEF Remove
  <2>4. HeapFault(id) = Failure("TypeMismatch")
    BY <2>2 DEF HeapFault
  <2>5. status = "running" /\ Op = "Remove" /\ Effect(2, 0, {ip + 1})
    BY <2>1, AtFacts, EffectOf
  <2> HIDE DEF id
  <2> QED BY <1>8, <2>1, <2>3, <2>4, <2>5, FaultLocal, WritesLocal DEF Effect
<1>6. CASE LenOf
  <2> DEFINE id == Val(Operand(1))
             n == IF heap[id].kind = "String" THEN Len(heap[id].bytes) ELSE Len(heap[id].items)
  <2>1. At("Len") /\ Ready("Len") /\ Operands = <<"ref">>
    BY <1>6, OperandsOf DEF LenOf, Ready, At
  <2>2. id \in DOMAIN heap
    BY <1>0, <2>1, ReadyFacts
  <2>3. n \in Nat
    BY <1>0, <2>2, ObjectFacts
  <2>4. Yields(1, Fit(n)) /\ Rest
    BY <1>6, <2>2 DEF LenOf
  <2>5. Effect(1, 1, {ip + 1})
    BY <2>1, AtFacts, EffectOf
  <2> HIDE DEF n
  <2>6. Fit(n) \in Answers
    BY <1>0, <2>3, AnswerFacts
  <2> QED BY <2>1, <2>4, <2>5, <2>6, OperationLocal
<1>7. CASE Tag
  <2> DEFINE id == Val(Operand(1))
  <2>1. At("Tag") /\ Ready("Tag") /\ Operands = <<"ref">>
    BY <1>7, OperandsOf DEF Tag, Ready, At
  <2>2. id \in DOMAIN heap
    BY <1>0, <2>1, ReadyFacts
  <2>3. PICK v \in {Fit(heap[id].tag), HeapFault(id)} :
          Yields(1, v) /\ Rest /\ (v = HeapFault(id) \/ Holds(id, {"Adt"}))
    BY <1>7 DEF Tag
  <2>4. v \in Answers
    <3>1. Holds(id, {"Adt"}) => heap[id].tag \in Nat
      BY <1>0, <2>2, ObjectFacts DEF Holds
    <3> HIDE DEF id
    <3> QED BY <1>0, <2>2, <2>3, <3>1, AnswerFacts
  <2>5. Effect(1, 1, {ip + 1})
    BY <2>1, AtFacts, EffectOf
  <2> QED BY <2>1, <2>3, <2>4, <2>5, OperationLocal
<1> QED BY <1>2, <1>3, <1>4, <1>5, <1>6, <1>7

LEMMA LocalsLocal ==
  ASSUME Convention, GetLocal \/ SetLocal
  PROVE  Local
<1>0. Machine
  BY DEF Convention
<1>1. ASSUME NEW op \in {"GetLocal", "SetLocal"}, At(op)
      PROVE  /\ frames # << >> /\ Slot = Base + Arg + 1 /\ Arg \in Nat
             /\ op = "GetLocal" => Slot \in 1..Len(stack)
             /\ op = "SetLocal" => Slot \in (Base + 1)..(Len(stack) - 1)
  <2>1. Op = op /\ status = "running" /\ ip \in DOMAIN unit.code /\ Arg \in Nat
    BY <1>1, AtFacts DEF WithNumber
  <2>2. Disciplined(unit) /\ Len(stack) = Base + unit.depth[ip] /\ Base \in Nat /\ unit.depth[ip] \in Nat
    BY <2>1, RunningFacts
  <2>3. /\ unit.fnOf[ip] # 0
        /\ op = "GetLocal" => Arg < unit.depth[ip]
        /\ op = "SetLocal" => Arg < unit.depth[ip] - 1
    BY <2>1, <2>2 DEF Disciplined, Op, Arg, CodeOp, CodeArg
  <2>4. frames # << >>
    BY <2>1, <2>3 DEF Convention, CallersKept, DepthsAgree
  <2>5. Frame.top = Base
    <3>1. frames \in Seq(Frames)
      BY <1>0 DEF Machine
    <3>2. Len(frames) # 0
      BY <2>4, <3>1
    <3> QED BY <3>2 DEF Frame, Base, FrameTopOf
  <2> QED BY <2>1, <2>2, <2>3, <2>4, <2>5 DEF Slot
<1>2. CASE GetLocal
  <2>1. At("GetLocal") /\ Rest
    BY <1>2 DEF GetLocal, Ready
  <2>2. frames # << >> /\ Slot \in 1..Len(stack) /\ stack \in Seq(Value)
    BY <1>1, <2>1, AtFacts, RunningFacts
  <2>3. Yields(0, stack[Slot]) /\ stack[Slot] \in Answers
    BY <1>2, <2>2 DEF GetLocal, Answers
  <2>4. Effect(0, 1, {ip + 1})
    BY <2>1, AtFacts, EffectOf
  <2> QED BY <2>1, <2>3, <2>4, OperationLocal
<1>3. CASE SetLocal
  <2>1. At("SetLocal") /\ Ready("SetLocal") /\ Rest /\ Operands = <<"any">>
    BY <1>3, OperandsOf DEF SetLocal, Ready, At
  <2>2. /\ Op = "SetLocal" /\ status = "running" /\ frames # << >>
        /\ Slot \in (Base + 1)..(Len(stack) - 1)
    BY <1>1, <2>1, AtFacts
  <2>3. stack \in Seq(Value) /\ Base \in Nat /\ Len(stack) \in Nat /\ Operand(1) \in Value
    BY <1>0, <2>1, <2>2, RunningFacts, ReadyFacts
  <2>4. Effect(1, 0, {ip + 1})
    BY <2>2, EffectOf
  <2> DEFINE t == Below(1)
             s == [t EXCEPT ![Slot] = Operand(1)]
  <2>5. KeepsBase(t) /\ Len(t) = Len(stack) - 1
    <3>1. Base + 1 <= Len(stack)
      BY <2>2, <2>3
    <3> QED BY <2>3, <3>1, BelowKeeps
  <2>6. Goes(s, ip + 1)
    <3>1. Slot \in DOMAIN t
      BY <2>2, <2>3, <2>5 DEF KeepsBase
    <3> QED BY <1>3, <2>2, <3>1 DEF SetLocal
  <2> HIDE DEF t
  <2>7. KeepsBase(s) /\ Len(s) = Len(stack) - 1
    <3>1. s \in Seq(Value) /\ Len(s) = Len(t)
      BY <2>2, <2>3, <2>5 DEF KeepsBase
    <3>2. \A i \in 1..Base : s[i] = t[i]
      BY <2>2, <2>3, <2>5 DEF KeepsBase
    <3> QED BY <2>5, <3>1, <3>2 DEF KeepsBase
  <2> HIDE DEF s
  <2>8. Len(s) = Len(stack) - Takes(unit, ip) + Leaves(unit, ip)
    BY <2>3, <2>4, <2>7 DEF Effect
  <2>9. ip + 1 \in Follow(unit, ip) /\ Op # "Push"
    BY <2>2, <2>4 DEF Effect
  <2> QED BY <2>1, <2>6, <2>7, <2>8, <2>9, GoesLocal DEF Rest
<1> QED BY <1>2, <1>3

(* At a call the function's id is on top of the stack, and known.             *)
LEMMA CallFacts ==
  ASSUME Convention, status = "running", Op = "Call"
  PROVE  /\ stack[Len(stack)] = CodeArg(unit, ip - 1)
         /\ CodeArg(unit, ip - 1)[1] = "Int"
         /\ CodeArg(unit, ip - 1)[2] \in Nat
         /\ CodeArg(unit, ip - 1)[2] < Len(unit.fns)
         /\ CodeArg(unit, ip - 1)[2] + 1 \in DOMAIN unit.fns
         /\ Callee(unit, ip) = unit.fns[CodeArg(unit, ip - 1)[2] + 1]
         /\ Callee(unit, ip) \in [entry : Nat, arity : Nat]
<1>1. ip \in DOMAIN unit.code /\ Disciplined(unit) /\ WellFormed(unit) /\ CodeOp(unit, ip) = "Call"
  BY RunningFacts DEF Op, CodeOp
<1>2. stack[Len(stack)] = CodeArg(unit, ip - 1)
  BY <1>1 DEF Convention, CallersKept, DepthsAgree
<1>3. CallsKnown(unit, ip)
  BY <1>1 DEF Disciplined
<1> DEFINE id == CodeArg(unit, ip - 1)[2]
<1>4. unit.fns \in Seq([entry : Nat, arity : Nat]) /\ Len(unit.fns) \in Nat
  BY <1>1 DEF WellFormed
<1>5. CodeArg(unit, ip - 1)[1] = "Int" /\ id \in 0..(Len(unit.fns) - 1)
  BY <1>3 DEF CallsKnown
<1>6. Callee(unit, ip) = unit.fns[id + 1]
  BY DEF Callee
<1> HIDE DEF id
<1>7. id \in Nat /\ id < Len(unit.fns) /\ id + 1 \in 1..Len(unit.fns)
  BY <1>4, <1>5
<1>8. unit.fns[id + 1] \in [entry : Nat, arity : Nat] /\ id + 1 \in DOMAIN unit.fns
  <2> DEFINE s == unit.fns
             T == [entry : Nat, arity : Nat]
  <2>1. s \in Seq(T) /\ id \in Nat /\ ~(id >= Len(s)) /\ id + 1 \in 1..Len(s)
    BY <1>4, <1>7
  <2> HIDE DEF s, T
  <2>2. s[id + 1] \in T /\ id + 1 \in DOMAIN s
    BY <2>1, ElementFacts
  <2> QED BY <2>2 DEF s, T
<1> QED BY <1>2, <1>5, <1>6, <1>7, <1>8 DEF id

LEMMA TakesFacts ==
  ASSUME Convention, status = "running"
  PROVE  Takes(unit, ip) \in Nat /\ Leaves(unit, ip) \in {0, 1, 2}
<1>1. /\ ip \in DOMAIN unit.code /\ WellFormed(unit)
      /\ Op = CodeOp(unit, ip) /\ Arg = CodeArg(unit, ip)
  BY RunningFacts DEF Op, Arg, CodeOp, CodeArg
<1>2. Leaves(unit, ip) \in {0, 1, 2}
  BY DEF Leaves
<1>3. Op \in {"Array", "Adt"} => Arg \in Nat
  BY <1>1 DEF WellFormed, WithNumber, Op, Arg
<1>4. CASE Op \in {"Array", "Adt"}
  BY <1>2, <1>3, <1>4, EffectOf DEF Effect
<1>5. CASE Op = "Call"
  <2>1. Callee(unit, ip).arity \in Nat /\ Takes(unit, ip) = Callee(unit, ip).arity + 1
    BY <1>5, CallFacts, EffectOf DEF Effect
  <2> QED BY <1>2, <2>1
<1>6. CASE Op \notin {"Array", "Adt", "Call"}
  <2>1. Takes(unit, ip) \in {0, 1, 2, 3}
    BY <1>1, <1>6 DEF Takes, BinaryOps, UnaryOps, Arithmetic, Logic, Equality, Ordering
  <2> QED BY <1>2, <2>1
<1> QED BY <1>4, <1>5, <1>6

(* An operand that does not fit is there: its value is at fault.              *)
LEMMA OperandsTaken ==
  ASSUME Convention, status = "running", NEW i \in DOMAIN Operands
  PROVE  /\ i \in Nat \ {0} /\ i <= Takes(unit, ip)
         /\ Operands[i] \in {"any", "bool", "ref", "usize"}
<1>1. ip \in DOMAIN unit.code /\ Machine /\ Takes(unit, ip) \in Nat
  BY RunningFacts, TakesFacts DEF Convention
<1>2. CASE Op \in {"Array", "Adt"}
  <2>1. Arg \in Nat
    BY <1>1, <1>2, UnitFacts DEF WithNumber
  <2>2. /\ Several(Arg) \in Seq({"any"}) /\ Len(Several(Arg)) = Arg
        /\ DOMAIN Append(Several(Arg), "usize") = 1..(Arg + 1)
        /\ \A k \in 1..Arg : Append(Several(Arg), "usize")[k] = "any"
        /\ Append(Several(Arg), "usize")[Arg + 1] = "usize"
    BY <2>1, SeveralFacts
  <2>3. CASE Op = "Array"
    <3>1. Operands = Several(Arg) /\ Takes(unit, ip) = Arg
      BY <2>3, OperandsOf, EffectOf DEF Effect
    <3> QED BY <2>1, <2>2, <3>1
  <2>4. CASE Op = "Adt"
    <3>1. Operands = Append(Several(Arg), "usize") /\ Takes(unit, ip) = Arg + 1
      BY <2>4, OperandsOf, EffectOf DEF Effect
    <3>2. i \in 1..(Arg + 1)
      BY <2>2, <3>1, Zenon
    <3>3. i \in 1..Arg \/ i = Arg + 1
      BY <2>1, <3>2
    <3>4. Operands[i] \in {"any", "usize"}
      BY <2>2, <3>1, <3>3, Zenon
    <3> QED BY <2>1, <3>1, <3>2, <3>4
  <2> QED BY <1>2, <2>3, <2>4
<1>3. CASE Op \in BinaryOps \cup {"Is", "Concat", "Index", "Remove"}
  <2>1. Operands \in {<<"any", "any">>, <<"ref", "ref">>, <<"usize", "ref">>} /\ Takes(unit, ip) = 2
    BY <1>3, OperandsOf, EffectOf DEF Effect
  <2> QED BY <2>1
<1>4. CASE Op \in {"Slice", "IndexMut", "Insert"}
  <2>1. Operands \in {<<"usize", "usize", "ref">>, <<"any", "usize", "ref">>} /\ Takes(unit, ip) = 3
    BY <1>4, OperandsOf, EffectOf DEF Effect
  <2> QED BY <2>1
<1>5. CASE Op \in UnaryOps \cup {"Pop", "SetLocal", "JumpIfFalse", "Len", "Tag"}
  <2>1. Operands \in {<<"any">>, <<"bool">>, <<"ref">>} /\ Takes(unit, ip) = 1
    BY <1>5, OperandsOf, EffectOf DEF Effect
  <2> QED BY <2>1
<1>6. CASE Op = "Call"
  <2>1. Operands = <<"usize">> /\ Takes(unit, ip) = Callee(unit, ip).arity + 1
    BY <1>6, OperandsOf, EffectOf DEF Effect
  <2>2. Takes(unit, ip) >= 1
    <3>1. Callee(unit, ip).arity \in Nat
      BY <1>6, CallFacts
    <3> QED BY <2>1, <3>1
  <2> QED BY <2>1, <2>2
<1>7. CASE Op \notin BinaryOps \cup UnaryOps
                     \cup {"Is", "Concat", "Index", "Remove", "Slice", "IndexMut", "Insert", "Pop",
                           "SetLocal", "JumpIfFalse", "Len", "Tag", "Call", "Array", "Adt"}
  <2>1. Operands = << >>
    BY <1>7 DEF Operands
  <2> QED BY <2>1
<1> QED BY <1>2, <1>3, <1>4, <1>5, <1>6, <1>7

LEMMA FaultsLocal ==
  ASSUME Convention, BadOperand \/ OutOfProgram
  PROVE  Local
<1>1. status = "running"
  BY DEF BadOperand, OutOfProgram, Running
<1>2. /\ ip \in DOMAIN unit.code /\ stack \in Seq(Value) /\ Base \in Nat /\ Len(stack) \in Nat
      /\ Takes(unit, ip) \in Nat /\ Base + Takes(unit, ip) <= Len(stack)
  BY <1>1, RunningFacts, TakesFacts
<1>3. PICK i \in DOMAIN Operands :
        /\ OperandFault(i) # "none"
        /\ Fails(OperandFault(i),
                 IF i <= Len(stack) THEN Below(i)
                 ELSE IF Op = "Adt" /\ i <= Arg THEN stack ELSE << >>)
  BY <1>2 DEF BadOperand, OutOfProgram
<1>4. i \in Nat /\ i <= Takes(unit, ip) /\ Operands[i] \in {"any", "bool", "ref", "usize"}
  BY <1>1, OperandsTaken
<1>5. i <= Len(stack) /\ Base + i <= Len(stack)
  BY <1>2, <1>4
<1>6. OperandFault(i) \in {"TypeMismatch", "Overflow"}
  BY <1>3, <1>4, <1>5 DEF OperandFault, Fault
<1>7. Fails(OperandFault(i), Below(i))
  BY <1>3, <1>5
<1>8. UNCHANGED <<unit, frames>>
  BY <1>2 DEF BadOperand, OutOfProgram
<1> QED BY <1>2, <1>4, <1>5, <1>6, <1>7, <1>8, BelowKeeps, FailsLocal DEF Stops, DataErrors, Given
-----------------------------------------------------------------------------
(* Frames, and what lies under them.                                          *)
LEMMA FrameFacts ==
  ASSUME Convention
  PROVE  /\ frames \in Seq(Frames) /\ Len(frames) \in Nat /\ DOMAIN frames = 1..Len(frames)
         /\ Len(kept) = Len(frames) /\ kept \in Seq(Seq(Value)) /\ stack \in Seq(Value)
         /\ \A i \in 1..Len(frames) :
              /\ frames[i].top \in Nat /\ frames[i].savedpc \in Nat
              /\ frames[i].top <= Base
              /\ frames[i].top <= Len(stack)
              /\ SubSeq(stack, 1, frames[i].top) = kept[i]
<1>1. /\ Machine /\ DepthsAgree /\ CallsNested /\ kept \in Seq(Seq(Value))
      /\ \A i \in DOMAIN frames :
           frames[i].top <= Len(stack) /\ SubSeq(stack, 1, frames[i].top) = kept[i]
  BY DEF Convention, CallersKept
<1>2. frames \in Seq(Frames) /\ stack \in Seq(Held) /\ Held \subseteq Value
  BY <1>1, HeldFacts DEF Machine
<1>3. stack \in Seq(Value)
  BY <1>2, SeqGrows
<1>4. \A i \in 1..Len(frames) : frames[i].top \in Nat /\ frames[i].savedpc \in Nat
  <2> SUFFICES ASSUME NEW i \in 1..Len(frames) PROVE frames[i].top \in Nat /\ frames[i].savedpc \in Nat
    OBVIOUS
  <2>1. frames[i] \in Frames /\ i \in DOMAIN frames
    BY <1>2
  <2>2. frames[i].top \in Int /\ frames[i].savedpc \in Nat
    BY <2>1 DEF Frames
  <2>3. 0 <= frames[i].top
    BY <1>1, <2>1 DEF DepthsAgree
  <2> QED BY <2>2, <2>3
<1>5. \A i \in 1..Len(frames) : frames[i].top <= Base
  <2> SUFFICES ASSUME NEW i \in 1..Len(frames) PROVE frames[i].top <= Base
    OBVIOUS
  <2>1. Len(frames) \in DOMAIN frames /\ i \in DOMAIN frames /\ i <= Len(frames) /\ Len(frames) # 0
    BY <1>2
  <2> QED BY <1>1, <2>1 DEF CallsNested, Base, FrameTopOf
<1>6. Len(frames) \in Nat /\ DOMAIN frames = 1..Len(frames) /\ Len(kept) = Len(frames)
  BY <1>1, <1>2 DEF CallsNested
<1>7. \A i \in 1..Len(frames) :
        frames[i].top <= Len(stack) /\ SubSeq(stack, 1, frames[i].top) = kept[i]
  BY <1>1, <1>6
<1> QED BY <1>1, <1>2, <1>3, <1>4, <1>5, <1>6, <1>7

LEMMA SamePart ==
  ASSUME NEW S, NEW s \in Seq(S), NEW t \in Seq(S), NEW n \in Nat, n <= Len(s), n <= Len(t),
         \A i \in 1..n : s[i] = t[i]
  PROVE  SubSeq(s, 1, n) = SubSeq(t, 1, n)
OBVIOUS

(* The parts under all frames are as they were if the stack is up to Base.    *)
LEMMA KeptBelow ==
  ASSUME Convention, KeepsBase(stack'), NEW i \in 1..Len(frames)
  PROVE  frames[i].top <= Len(stack') /\ SubSeq(stack', 1, frames[i].top) = kept[i]
<1>1. /\ frames[i].top \in Nat /\ frames[i].top <= Base /\ frames[i].top <= Len(stack)
      /\ SubSeq(stack, 1, frames[i].top) = kept[i] /\ stack \in Seq(Value)
  BY FrameFacts
<1>2. stack' \in Seq(Value) /\ Base <= Len(stack') /\ \A k \in 1..Base : stack'[k] = stack[k]
  BY DEF KeepsBase
<1>3. Base \in Int
  BY FrameFacts DEF Base, FrameTopOf
<1> DEFINE n == frames[i].top
<1>4. n <= Len(stack') /\ \A k \in 1..n : stack'[k] = stack[k]
  BY <1>1, <1>2, <1>3
<1> HIDE DEF n
<1>5. SubSeq(stack', 1, n) = SubSeq(stack, 1, n)
  BY <1>1, <1>2, <1>4, SamePart DEF n
<1> QED BY <1>1, <1>4, <1>5 DEF n

(* The instruction gone to is no call, or one whose function is on top.       *)
LEMMA LocalStep ==
  ASSUME Convention, Local, Machine', status = "running", kept' = SubSeq(kept, 1, Len(frames'))
  PROVE  Convention'
<1>1. /\ unit' = unit /\ frames' = frames /\ KeepsBase(stack')
      /\ GoesOn \/ status' \in Stops
  BY DEF Local
<1>2. kept' = kept
  BY <1>1, FrameFacts
<1>3. DepthsAgree /\ CallsNested
  BY DEF Convention, CallersKept
<1>4. CallsNested'
  BY <1>1, <1>2, <1>3 DEF CallsNested, CodeOp
<1>5. \A i \in DOMAIN frames' :
        frames'[i].top <= Len(stack') /\ SubSeq(stack', 1, frames'[i].top) = kept'[i]
  BY <1>1, <1>2, FrameFacts, KeptBelow
<1>6. ASSUME status' = "running"
      PROVE  /\ ip' \in DOMAIN unit.code
             /\ Len(stack') = FrameTopOf(Len(frames)) + unit.depth[ip']
             /\ unit.fnOf[ip'] = 0 <=> frames = << >>
             /\ CodeOp(unit, ip') = "Call" => stack'[Len(stack')] = CodeArg(unit, ip' - 1)
  <2>1. GoesOn
    BY <1>1, <1>6 DEF Stops, DataErrors, Given
  <2>2. /\ ip \in DOMAIN unit.code /\ Disciplined(unit) /\ ip \in Nat
        /\ Base \in Nat /\ unit.depth[ip] \in Nat /\ Len(stack) = Base + unit.depth[ip]
        /\ Takes(unit, ip) \in Nat /\ Leaves(unit, ip) \in Nat
    BY RunningFacts, TakesFacts
  <2>3. /\ ip' \in DOMAIN unit.code /\ unit.fnOf[ip'] = unit.fnOf[ip]
        /\ unit.depth[ip'] = unit.depth[ip] - Takes(unit, ip) + Leaves(unit, ip)
    BY <2>1, <2>2 DEF GoesOn, Disciplined
  <2>4. Len(stack') = Base + unit.depth[ip']
    BY <2>1, <2>2, <2>3, SMTT(30) DEF GoesOn
  <2>5. unit.fnOf[ip'] = 0 <=> frames = << >>
    BY <1>3, <2>3 DEF DepthsAgree
  <2>6. ASSUME CodeOp(unit, ip') = "Call" PROVE stack'[Len(stack')] = CodeArg(unit, ip' - 1)
    <3>1. CallsKnown(unit, ip')
      BY <2>2, <2>3, <2>6 DEF Disciplined
    <3>2. ip = ip' - 1 /\ CodeOp(unit, ip) = "Push"
      BY <2>1, <2>2, <3>1 DEF CallsKnown, GoesOn
    <3>3. stack'[Len(stack')] = Arg
      BY <2>1, <3>2 DEF GoesOn, Op, CodeOp
    <3> QED BY <3>2, <3>3 DEF Arg, CodeArg
  <2> QED BY <2>3, <2>4, <2>5, <2>6 DEF Base
<1>7. DepthsAgree'
  <2>1. \A i \in DOMAIN frames' :
          LET a == frames'[i].savedpc IN
          /\ a \in DOMAIN unit'.code
          /\ 0 <= frames'[i].top
          /\ frames'[i].top + 1 = FrameTopOf(i - 1)' + unit'.depth[a]
          /\ unit'.fnOf[a] = 0 <=> i = 1
    BY <1>1, <1>3 DEF DepthsAgree, FrameTopOf
  <2>2. status' = "running" =>
          /\ ip' \in DOMAIN unit'.code
          /\ Len(stack') = FrameTopOf(Len(frames))' + unit'.depth[ip']
          /\ unit'.fnOf[ip'] = 0 <=> frames' = << >>
          /\ CodeOp(unit, ip)' = "Call" => stack'[Len(stack')] = CodeArg(unit, ip - 1)'
    BY <1>1, <1>6 DEF FrameTopOf, CodeOp, CodeArg
  <2> QED BY <2>1, <2>2 DEF DepthsAgree
<1>8. NeverMisuses'
  BY <1>1 DEF NeverMisuses, GoesOn, Stops, DataErrors, Given
<1>9. (kept \in Seq(Seq(Value)))'
  BY <1>2 DEF Convention, Value, Scalar
<1> QED BY <1>4, <1>5, <1>7, <1>8, <1>9 DEF Convention, CallersKept
-----------------------------------------------------------------------------
(* What is known of the callee, and of where the caller goes on.              *)
LEMMA CallShape ==
  ASSUME Convention, status = "running", Op = "Call"
  PROVE  \E k, d, e, b \in Nat :
           /\ Callee(unit, ip).arity = k /\ Callee(unit, ip).entry = e
           /\ Base = b /\ Len(stack) = b + d /\ k + 1 <= d
           /\ e \in DOMAIN unit.code /\ unit.fnOf[e] # 0 /\ unit.depth[e] = k
           /\ CodeOp(unit, e) # "Call"
           /\ ip + 1 \in DOMAIN unit.code /\ unit.fnOf[ip + 1] = unit.fnOf[ip]
           /\ unit.depth[ip + 1] = d - k
<1> DEFINE c == Callee(unit, ip)
           f == CodeArg(unit, ip - 1)[2] + 1
           d == unit.depth[ip]
<1>1. /\ Disciplined(unit) /\ ip \in DOMAIN unit.code
      /\ Base \in Nat /\ d \in Nat /\ Len(stack) = Base + d /\ Takes(unit, ip) <= d
  BY RunningFacts
<1>2. Takes(unit, ip) = c.arity + 1 /\ Leaves(unit, ip) = 1 /\ Follow(unit, ip) = {ip + 1}
  BY EffectOf DEF Effect
<1>3. /\ c = unit.fns[f] /\ c \in [entry : Nat, arity : Nat] /\ f \in DOMAIN unit.fns
      /\ f # 0
  <2>1. CodeArg(unit, ip - 1)[2] \in Nat
    BY CallFacts
  <2>2. f # 0
    BY <2>1
  <2> QED BY <2>2, CallFacts
<1> HIDE DEF c, f, d
<1>4. c.arity \in Nat /\ c.entry \in Nat
  BY <1>3
<1>5. /\ c.entry \in DOMAIN unit.code /\ unit.fnOf[c.entry] = f /\ unit.depth[c.entry] = c.arity
  BY <1>1, <1>3 DEF Disciplined
<1>6. CodeOp(unit, c.entry) # "Call"
  <2>1. CodeOp(unit, c.entry) = "Call" => CallsKnown(unit, c.entry)
    BY <1>1, <1>5 DEF Disciplined
  <2> QED BY <1>3, <2>1 DEF CallsKnown
<1>7. /\ ip + 1 \in DOMAIN unit.code /\ unit.fnOf[ip + 1] = unit.fnOf[ip]
      /\ unit.depth[ip + 1] = d - Takes(unit, ip) + Leaves(unit, ip)
  <2>1. ip + 1 \in Follow(unit, ip)
    BY <1>2
  <2> QED BY <1>1, <2>1 DEF Disciplined, d
<1>8. unit.depth[ip + 1] = d - c.arity
  BY <1>1, <1>2, <1>4, <1>7
<1>9. c.arity + 1 <= d
  BY <1>1, <1>2
<1> QED BY <1>1, <1>3, <1>4, <1>5, <1>6, <1>7, <1>8, <1>9 DEF c

(* A call makes a frame on the arguments, and nothing of it can fail.         *)
CallMove ==
  /\ status = "running" /\ Op = "Call" /\ UNCHANGED unit
  /\ frames' = Append(frames, [top |-> Len(stack) - 1 - Callee(unit, ip).arity,
                               savedpc |-> ip + 1])
  /\ stack' = Below(1) /\ status' = "running"
  /\ ip' = Callee(unit, ip).entry

LEMMA CallEffect ==
  ASSUME Convention, Call
  PROVE  CallMove
<1> DEFINE id == Val(Operand(1))
<1>1. At("Call") /\ Op = "Call" /\ status = "running"
  BY AtFacts DEF Call, Ready
<1>2. /\ Operand(1) = CodeArg(unit, ip - 1) /\ id \in Nat /\ id < Len(unit.fns)
      /\ Callee(unit, ip) = unit.fns[id + 1]
  <2>1. Len(stack) + 1 - 1 = Len(stack)
    BY <1>1, RunningFacts
  <2>2. Operand(1) = stack[Len(stack)]
    BY <2>1 DEF Operand
  <2> QED BY <1>1, <2>2, CallFacts DEF Val
<1>3. PICK k, d, e, b \in Nat :
        Callee(unit, ip).arity = k /\ Len(stack) = b + d /\ k + 1 <= d
  BY <1>1, CallShape
<1>4. ~(id >= Len(unit.fns))
  <2>1. Len(unit.fns) \in Nat
    BY <1>1, RunningFacts DEF WellFormed
  <2> QED BY <1>2, <2>1
<1> HIDE DEF id
<1>5. FrameTop(unit.fns[id + 1].arity) = Len(stack) - 1 - k /\ ~(Len(stack) - 1 - k < 0)
  BY <1>2, <1>3 DEF FrameTop
<1>6. /\ frames' = Append(frames, [top |-> FrameTop(unit.fns[id + 1].arity), savedpc |-> ip + 1])
      /\ Goes(Below(1), unit.fns[id + 1].entry) /\ UNCHANGED unit
  BY <1>4, <1>5 DEF Call, id
<1> QED BY <1>1, <1>2, <1>3, <1>5, <1>6 DEF Goes, CallMove

(* Pushing on a sequence.                                                     *)
LEMMA Pushed ==
  ASSUME NEW S, NEW s \in Seq(S), NEW x \in S, NEW t, t = Append(s, x)
  PROVE  /\ t \in Seq(S) /\ Len(t) = Len(s) + 1 /\ DOMAIN t = 1..(Len(s) + 1) /\ t # << >>
         /\ t[Len(s) + 1] = x /\ \A i \in 1..Len(s) : t[i] = s[i]
OBVIOUS

(* What NextKept keeps of a call and of any other step.                       *)
Keeps ==
  kept' = IF Len(frames') > Len(frames)
          THEN Append(kept, SubSeq(stack', 1, frames'[Len(frames')].top))
          ELSE SubSeq(kept, 1, Len(frames'))

LEMMA CallStep ==
  ASSUME Convention, Machine', CallMove, Keeps
  PROVE  Convention'
<1>0. /\ status = "running" /\ Op = "Call" /\ unit' = unit
      /\ stack' = Below(1) /\ status' = "running" /\ ip' = Callee(unit, ip).entry
  BY DEF CallMove
<1>1. PICK k, d, e, b \in Nat :
        /\ Callee(unit, ip).arity = k /\ Callee(unit, ip).entry = e
        /\ Base = b /\ Len(stack) = b + d /\ k + 1 <= d
        /\ e \in DOMAIN unit.code /\ unit.fnOf[e] # 0 /\ unit.depth[e] = k
        /\ CodeOp(unit, e) # "Call"
        /\ ip + 1 \in DOMAIN unit.code /\ unit.fnOf[ip + 1] = unit.fnOf[ip]
        /\ unit.depth[ip + 1] = d - k
  BY <1>0, CallShape
<1>2. PICK top \in Nat : top = Len(stack) - 1 - k /\ top + k = Len(stack) - 1 /\ b <= top
                        /\ top + 1 = b + (d - k)
  <2>1. PICK n : n = Len(stack)
    OBVIOUS
  <2>2. n = b + d /\ k + 1 <= d
    BY <1>1, <2>1
  <2>3. PICK top : top = b + d - 1 - k
    OBVIOUS
  <2>4. top \in Nat /\ top + k = b + d - 1 /\ b <= top /\ top + 1 = b + (d - k)
    BY <2>2, <2>3, SMTT(30)
  <2>5. top = n - 1 - k /\ top + k = n - 1
    BY <2>2, <2>3, SMTT(30)
  <2> QED BY <2>1, <2>4, <2>5
<1>3. PICK n \in Nat : n = Len(frames)
  BY FrameFacts
<1>4. PICK f : f = [top |-> top, savedpc |-> ip + 1]
  OBVIOUS
<1>5. ip \in Nat /\ ip \in DOMAIN unit.code /\ CodeOp(unit, ip) = "Call" /\ stack \in Seq(Value)
  BY <1>0, RunningFacts DEF Op, CodeOp
<1>6. f \in Frames /\ f.top = top /\ f.savedpc = ip + 1
  BY <1>2, <1>4, <1>5 DEF Frames
<1>7. frames' = Append(frames, f)
  BY <1>1, <1>2, <1>4 DEF CallMove
<1>8. /\ DOMAIN frames = 1..n /\ frames \in Seq(Frames)
      /\ Len(kept) = n /\ kept \in Seq(Seq(Value))
      /\ \A i \in 1..n : frames[i].top \in Nat /\ frames[i].top <= b
  BY <1>1, <1>3, FrameFacts
<1>9. /\ Len(frames') = n + 1 /\ DOMAIN frames' = 1..(n + 1) /\ frames' # << >>
      /\ frames'[n + 1] = f /\ \A i \in 1..n : frames'[i] = frames[i]
  BY <1>3, <1>6, <1>7, <1>8, Pushed
<1>10. KeepsBase(stack') /\ Len(stack') = Len(stack) - 1 /\ stack' \in Seq(Value)
  <2>1. Base \in Nat /\ 1 \in Nat /\ Base + 1 <= Len(stack)
    BY <1>1
  <2> QED BY <1>0, <1>5, <2>1, BelowKeeps DEF KeepsBase
<1>11. Len(stack') = top + k /\ top <= Len(stack')
  BY <1>1, <1>2, <1>10
<1>12. SubSeq(stack', 1, top) \in Seq(Value)
  BY <1>2, <1>10, <1>11
<1>13. /\ Len(kept') = n + 1 /\ kept' \in Seq(Seq(Value))
       /\ kept'[n + 1] = SubSeq(stack', 1, top) /\ \A i \in 1..n : kept'[i] = kept[i]
  <2> DEFINE T == Seq(Value)
             s == SubSeq(stack', 1, top)
  <2>1. kept' = Append(kept, s) /\ s \in T /\ kept \in Seq(T) /\ Len(kept) = n
    <3>1. kept' = Append(kept, s)
      BY <1>3, <1>6, <1>9 DEF Keeps
    <3> QED BY <1>8, <1>12, <3>1
  <2> HIDE DEF T, s
  <2>2. Len(kept') = n + 1 /\ kept' \in Seq(T) /\ kept'[n + 1] = s /\ \A i \in 1..n : kept'[i] = kept[i]
    <3>1. /\ kept' \in Seq(T) /\ Len(kept') = Len(kept) + 1
          /\ kept'[Len(kept) + 1] = s /\ \A i \in 1..Len(kept) : kept'[i] = kept[i]
      BY <2>1, Pushed
    <3> QED BY <2>1, <3>1, Zenon
  <2> QED BY <2>2 DEF T, s
<1>14. /\ \A i \in 0..n : FrameTopOf(i)' = FrameTopOf(i)
       /\ FrameTopOf(n + 1)' = top
       /\ FrameTopOf(n) = b
  <2>1. \A i \in 0..n : FrameTopOf(i)' = FrameTopOf(i)
    BY <1>9 DEF FrameTopOf
  <2>2. FrameTopOf(n + 1)' = top
    BY <1>6, <1>9 DEF FrameTopOf
  <2> QED BY <1>1, <1>3, <2>1, <2>2 DEF Base
<1>15. DepthsAgree /\ CallsNested
  BY DEF Convention, CallersKept
<1>16. DepthsAgree'
  <2>1. /\ ip' \in DOMAIN unit'.code
        /\ Len(stack') = FrameTopOf(Len(frames))' + unit'.depth[ip']
        /\ unit'.fnOf[ip'] = 0 <=> frames' = << >>
    <3>1. FrameTopOf(Len(frames))' = top
      BY <1>9, <1>14
    <3> QED BY <1>0, <1>1, <1>9, <1>11, <3>1
  <2>2. CodeOp(unit, ip)' # "Call"
    BY <1>0, <1>1 DEF CodeOp
  <2>3. ASSUME NEW i \in 1..(n + 1)
        PROVE  LET a == frames'[i].savedpc IN
               /\ a \in DOMAIN unit'.code
               /\ 0 <= frames'[i].top
               /\ frames'[i].top + 1 = FrameTopOf(i - 1)' + unit'.depth[a]
               /\ unit'.fnOf[a] = 0 <=> i = 1
    <3>1. CASE i \in 1..n
      <4>1. i - 1 \in 0..n /\ i \in DOMAIN frames
        BY <1>8, <3>1
      <4>2. FrameTopOf(i - 1)' = FrameTopOf(i - 1)
        BY <1>14, <4>1
      <4>3. LET a == frames[i].savedpc IN
            /\ a \in DOMAIN unit.code
            /\ 0 <= frames[i].top
            /\ frames[i].top + 1 = FrameTopOf(i - 1) + unit.depth[a]
            /\ unit.fnOf[a] = 0 <=> i = 1
        BY <1>15, <4>1 DEF DepthsAgree
      <4> QED BY <1>0, <1>9, <3>1, <4>2, <4>3
    <3>2. CASE i = n + 1
      <4>1. i - 1 = n /\ n \in 0..n
        BY <3>2
      <4>2. frames'[i].top = top /\ frames'[i].savedpc = ip + 1 /\ FrameTopOf(i - 1)' = b
        BY <1>6, <1>9, <1>14, <3>2, <4>1
      <4>3. unit.fnOf[ip + 1] = 0 <=> i = 1
        <5>1. unit.fnOf[ip] = 0 <=> frames = << >>
          BY <1>0, <1>15 DEF DepthsAgree
        <5>2. frames = << >> <=> n = 0
          BY <1>3, <1>8
        <5>3. i = 1 <=> n = 0
          BY <3>2
        <5> QED BY <1>1, <5>1, <5>2, <5>3
      <4>4. /\ ip + 1 \in DOMAIN unit'.code /\ unit'.depth[ip + 1] = d - k
            /\ unit'.fnOf[ip + 1] = 0 <=> i = 1
        BY <1>0, <1>1, <4>3
      <4>5. 0 <= top /\ top + 1 = b + (d - k)
        BY <1>2
      <4> QED BY <4>2, <4>4, <4>5, Zenon
    <3> QED BY <1>3, <3>1, <3>2
  <2> QED BY <1>0, <1>9, <2>1, <2>2, <2>3 DEF DepthsAgree
<1>17. CallsNested'
  <2>1. \A i, j \in 1..(n + 1) : i <= j => frames'[i].top <= frames'[j].top
    <3> SUFFICES ASSUME NEW i \in 1..(n + 1), NEW j \in 1..(n + 1), i <= j
                 PROVE  frames'[i].top <= frames'[j].top
      OBVIOUS
    <3>1. CASE j \in 1..n
      <4>1. i \in 1..n
        BY <1>3, <3>1
      <4> QED BY <1>8, <1>9, <1>15, <3>1, <4>1 DEF CallsNested
    <3>2. CASE j = n + 1 /\ i \in 1..n
      <4>1. frames[i].top \in Nat /\ frames[i].top <= b
        BY <1>8, <3>2
      <4>2. frames'[i].top = frames[i].top /\ frames'[j].top = top
        BY <1>6, <1>9, <3>2
      <4> QED BY <1>1, <1>2, <3>2, <4>1, <4>2
    <3>3. CASE j = n + 1 /\ i = n + 1
      BY <1>2, <1>6, <1>9, <3>3
    <3> QED BY <1>3, <3>1, <3>2, <3>3
  <2>2. ASSUME NEW i \in 1..(n + 1)
        PROVE  frames'[i].savedpc - 1 \in DOMAIN unit.code /\ CodeOp(unit, frames'[i].savedpc - 1) = "Call"
    <3>1. CASE i \in 1..n
      BY <1>8, <1>9, <1>15, <3>1 DEF CallsNested
    <3>2. CASE i = n + 1
      <4>1. frames'[i].savedpc - 1 = ip
        BY <1>5, <1>6, <1>9, <3>2
      <4> QED BY <1>5, <4>1
    <3> QED BY <1>3, <3>1, <3>2
  <2> QED BY <1>0, <1>9, <1>13, <2>1, <2>2 DEF CallsNested, CodeOp
<1>18. \A i \in 1..(n + 1) :
         frames'[i].top <= Len(stack') /\ SubSeq(stack', 1, frames'[i].top) = kept'[i]
  <2> SUFFICES ASSUME NEW i \in 1..(n + 1)
               PROVE  frames'[i].top <= Len(stack') /\ SubSeq(stack', 1, frames'[i].top) = kept'[i]
    OBVIOUS
  <2>1. CASE i \in 1..n
    <3>1. frames[i].top <= Len(stack') /\ SubSeq(stack', 1, frames[i].top) = kept[i]
      BY <1>3, <1>10, <2>1, KeptBelow
    <3> QED BY <1>9, <1>13, <2>1, <3>1
  <2>2. CASE i = n + 1
    <3>1. frames'[i].top = top /\ kept'[i] = SubSeq(stack', 1, top)
      BY <1>6, <1>9, <1>13, <2>2
    <3> QED BY <1>11, <3>1, Zenon
  <2> QED BY <1>3, <2>1, <2>2
<1>19. NeverMisuses'
  BY <1>0 DEF NeverMisuses
<1>20. (kept \in Seq(Seq(Value)))'
  BY <1>13 DEF Value, Scalar
<1> QED BY <1>9, <1>16, <1>17, <1>18, <1>19, <1>20 DEF Convention, CallersKept
-----------------------------------------------------------------------------
(* What is known at a return, of the function and of the one it returns to.   *)
Returning(n, b, d, a) ==
  /\ Len(frames) = n + 1 /\ frames[n + 1].top = b /\ frames[n + 1].savedpc = a
  /\ Base = b /\ Len(stack) = b + d /\ 1 <= d
  /\ a \in DOMAIN unit.code /\ b + 1 = FrameTopOf(n) + unit.depth[a]
  /\ (unit.fnOf[a] = 0) <=> (n = 0)
  /\ CodeOp(unit, a - 1) = "Call" /\ CodeOp(unit, a) # "Call"

LEMMA RetShape ==
  ASSUME Convention, status = "running", Op = "Ret"
  PROVE  \E n, b, d, a \in Nat : Returning(n, b, d, a)
<1>1. /\ Disciplined(unit) /\ ip \in DOMAIN unit.code /\ CodeOp(unit, ip) = "Ret"
      /\ Base \in Nat /\ unit.depth[ip] \in Nat /\ Len(stack) = Base + unit.depth[ip]
      /\ Takes(unit, ip) <= unit.depth[ip] /\ Takes(unit, ip) = 1
  BY RunningFacts, EffectOf DEF Effect, Op, CodeOp
<1>2. DepthsAgree /\ CallsNested
  BY DEF Convention, CallersKept
<1>3. frames # << >>
  <2>1. unit.fnOf[ip] # 0
    BY <1>1 DEF Disciplined
  <2> QED BY <1>2, <2>1 DEF DepthsAgree
<1>4. PICK m \in Nat : m = Len(frames)
  BY FrameFacts
<1>5. DOMAIN frames = 1..m /\ m # 0
  BY <1>3, <1>4, FrameFacts
<1>6. PICK n \in Nat : m = n + 1 /\ m - 1 = n /\ n + 1 - 1 = n
  <2>1. m - 1 \in Nat /\ m = (m - 1) + 1
    BY <1>5
  <2> QED BY <2>1
<1>7. m \in DOMAIN frames /\ m \in 1..Len(frames)
  BY <1>4, <1>5
<1>8. frames[m].top \in Nat /\ frames[m].savedpc \in Nat
  BY <1>7, FrameFacts
<1>9. PICK a, b \in Nat : a = frames[m].savedpc /\ b = frames[m].top
  BY <1>8
<1>10. Base = b
  BY <1>4, <1>5, <1>9 DEF Base, FrameTopOf
<1>11. /\ a \in DOMAIN unit.code /\ b + 1 = FrameTopOf(m - 1) + unit.depth[a]
       /\ (unit.fnOf[a] = 0) <=> (m = 1)
  BY <1>2, <1>7, <1>9 DEF DepthsAgree
<1>12. CodeOp(unit, a - 1) = "Call"
  BY <1>2, <1>7, <1>9 DEF CallsNested
<1>13. CodeOp(unit, a) # "Call"
  <2>1. CodeOp(unit, a) = "Call" => CodeOp(unit, a - 1) = "Push"
    BY <1>1, <1>11 DEF Disciplined, CallsKnown
  <2> QED BY <1>12, <2>1
<1>14. (unit.fnOf[a] = 0) <=> (n = 0)
  BY <1>6, <1>11
<1>15. FrameTopOf(m - 1) = FrameTopOf(n) /\ Len(frames) = n + 1
  BY <1>4, <1>6
<1>16. PICK d \in Nat : d = unit.depth[ip] /\ Len(stack) = b + d /\ 1 <= d
  BY <1>1, <1>10
<1>17. frames[n + 1].top = b /\ frames[n + 1].savedpc = a
  BY <1>6, <1>9
<1>18. b + 1 = FrameTopOf(n) + unit.depth[a]
  BY <1>11, <1>15
<1>19. Returning(n, b, d, a)
  BY <1>10, <1>11, <1>12, <1>13, <1>14, <1>15, <1>16, <1>17, <1>18 DEF Returning
<1> QED BY <1>6, <1>9, <1>16, <1>19

(* A return leaves the caller its stack and the result, and nothing fails.    *)
RetMove ==
  /\ status = "running" /\ Op = "Ret" /\ UNCHANGED unit /\ status' = "running"
  /\ frames' = SubSeq(frames, 1, Len(frames) - 1)
  /\ stack' = Append(SubSeq(stack, 1, Base), stack[Len(stack)])
  /\ ip' = frames[Len(frames)].savedpc

LEMMA Cut ==
  ASSUME NEW S, NEW s \in Seq(S), NEW m \in Nat, Len(s) = m + 1, NEW n \in Nat, n <= m
  PROVE  /\ SubSeq(s, 1, m) \in Seq(S) /\ Len(SubSeq(s, 1, m)) = m
         /\ \A i \in 1..m : SubSeq(s, 1, m)[i] = s[i]
         /\ SubSeq(SubSeq(s, 1, m), 1, n) = SubSeq(s, 1, n)
<1> DEFINE t == SubSeq(s, 1, m)
<1>1. t \in Seq(S) /\ Len(t) = m /\ \A i \in 1..m : t[i] = s[i]
  OBVIOUS
<1> HIDE DEF t
<1>2. \A i \in 1..n : t[i] = s[i]
  BY <1>1
<1>3. SubSeq(t, 1, n) = SubSeq(s, 1, n)
  BY <1>1, <1>2, SamePart
<1> QED BY <1>1, <1>3 DEF t

LEMMA RetEffect ==
  ASSUME Convention, Ret
  PROVE  RetMove
<1>1. At("Ret") /\ Op = "Ret" /\ status = "running"
  BY AtFacts DEF Ret, Ready
<1>2. PICK n, b, d, a \in Nat :
        /\ Len(frames) = n + 1 /\ frames[n + 1].top = b /\ frames[n + 1].savedpc = a
        /\ Base = b /\ Len(stack) = b + d /\ 1 <= d
  BY <1>1, RetShape DEF Returning
<1>3. frames # << >> /\ stack # << >> /\ stack \in Seq(Value)
  BY <1>1, <1>2, RunningFacts
<1>4. Frame.top = b /\ Frame.savedpc = frames[Len(frames)].savedpc /\ ~(Len(stack) - 1 < Frame.top)
  BY <1>2 DEF Frame
<1>5. Operand(1) = stack[Len(stack)]
  <2>1. Len(stack) + 1 - 1 = Len(stack)
    BY <1>2
  <2> QED BY <2>1 DEF Operand
<1>6. Truncated(Below(1), b) = SubSeq(stack, 1, b)
  <2> DEFINE m == b + d - 1
  <2>1. m \in Nat /\ Len(stack) = m + 1 /\ Len(stack) - 1 = m /\ b <= m
    BY <1>2
  <2> HIDE DEF m
  <2>2. Len(SubSeq(stack, 1, m)) = m /\ SubSeq(SubSeq(stack, 1, m), 1, b) = SubSeq(stack, 1, b)
    BY <1>3, <2>1, Cut
  <2>3. Below(1) = SubSeq(stack, 1, m) /\ b \in 0..m
    BY <2>1 DEF Below
  <2> QED BY <2>2, <2>3 DEF Truncated
<1>7. /\ frames' = SubSeq(frames, 1, Len(frames) - 1) /\ UNCHANGED unit
      /\ Goes(Append(Truncated(Below(1), Frame.top), Operand(1)), Frame.savedpc)
  BY <1>3, <1>4 DEF Ret
<1> QED BY <1>1, <1>2, <1>4, <1>5, <1>6, <1>7 DEF Goes, RetMove
LEMMA RetStep ==
  ASSUME Convention, Machine', RetMove, Keeps
  PROVE  Convention'
<1>0. /\ status = "running" /\ Op = "Ret" /\ unit' = unit /\ status' = "running"
      /\ frames' = SubSeq(frames, 1, Len(frames) - 1)
      /\ stack' = Append(SubSeq(stack, 1, Base), stack[Len(stack)])
      /\ ip' = frames[Len(frames)].savedpc
  BY DEF RetMove
<1>1. PICK n, b, d, a \in Nat : Returning(n, b, d, a)
  BY <1>0, RetShape
<1>2. /\ DOMAIN frames = 1..(n + 1) /\ frames \in Seq(Frames) /\ Len(frames) = n + 1
      /\ Len(kept) = n + 1 /\ kept \in Seq(Seq(Value)) /\ stack \in Seq(Value)
      /\ \A i \in 1..(n + 1) :
           /\ frames[i].top \in Nat /\ frames[i].top <= b /\ frames[i].top <= Len(stack)
           /\ SubSeq(stack, 1, frames[i].top) = kept[i]
  BY <1>1, FrameFacts DEF Returning
<1>3. n + 1 - 1 = n /\ n <= n
  BY <1>1
<1>4. /\ frames' \in Seq(Frames) /\ Len(frames') = n /\ DOMAIN frames' = 1..n
      /\ \A i \in 1..n : frames'[i] = frames[i]
  <2>1. frames' = SubSeq(frames, 1, n)
    BY <1>0, <1>2, <1>3
  <2>2. /\ SubSeq(frames, 1, n) \in Seq(Frames) /\ Len(SubSeq(frames, 1, n)) = n
        /\ \A i \in 1..n : SubSeq(frames, 1, n)[i] = frames[i]
    BY <1>1, <1>2, <1>3, Cut
  <2> QED BY <1>1, <2>1, <2>2
<1>5. Len(kept') = n /\ kept' \in Seq(Seq(Value)) /\ \A i \in 1..n : kept'[i] = kept[i]
  <2> DEFINE T == Seq(Value)
  <2>1. kept \in Seq(T) /\ Len(kept) = n + 1
    BY <1>2
  <2>2. kept' = SubSeq(kept, 1, n)
    BY <1>1, <1>2, <1>4 DEF Keeps
  <2> HIDE DEF T
  <2>3. /\ SubSeq(kept, 1, n) \in Seq(T) /\ Len(SubSeq(kept, 1, n)) = n
        /\ \A i \in 1..n : SubSeq(kept, 1, n)[i] = kept[i]
    BY <1>1, <1>3, <2>1, Cut
  <2> QED BY <2>2, <2>3 DEF T
<1>6. stack' \in Seq(Value) /\ Len(stack') = b + 1 /\ \A i \in 1..b : stack'[i] = stack[i]
  <2> DEFINE s == SubSeq(stack, 1, b)
             v == stack[Len(stack)]
  <2>1. b <= Len(stack) /\ Len(stack) \in 1..Len(stack)
    BY <1>1 DEF Returning
  <2>2. s \in Seq(Value) /\ Len(s) = b /\ \A i \in 1..b : s[i] = stack[i]
    BY <1>1, <1>2, <2>1
  <2>3. v \in Value
    BY <1>2, <2>1
  <2>4. stack' = Append(s, v)
    BY <1>0, <1>1 DEF Returning
  <2> HIDE DEF s, v
  <2> QED BY <1>1, <2>2, <2>3, <2>4
<1>7. DepthsAgree /\ CallsNested
  BY DEF Convention, CallersKept
<1>8. \A i \in 0..n : FrameTopOf(i)' = FrameTopOf(i)
  BY <1>4 DEF FrameTopOf
<1>9. DepthsAgree'
  <2>1. /\ ip' = a /\ a \in DOMAIN unit'.code
        /\ Len(stack') = FrameTopOf(n)' + unit'.depth[a]
        /\ unit'.fnOf[a] = 0 <=> n = 0
    <3>1. n \in 0..n
      BY <1>1
    <3> QED BY <1>0, <1>1, <1>6, <1>8, <3>1 DEF Returning
  <2>2. n = 0 <=> frames' = << >>
    BY <1>4
  <2>3. CodeOp(unit, ip)' # "Call"
    BY <1>0, <1>1, <2>1 DEF Returning, CodeOp
  <2>4. ASSUME NEW i \in 1..n
        PROVE  LET p == frames'[i].savedpc IN
               /\ p \in DOMAIN unit'.code
               /\ 0 <= frames'[i].top
               /\ frames'[i].top + 1 = FrameTopOf(i - 1)' + unit'.depth[p]
               /\ unit'.fnOf[p] = 0 <=> i = 1
    <3>1. i - 1 \in 0..n /\ i \in DOMAIN frames
      BY <1>1, <1>2
    <3>2. FrameTopOf(i - 1)' = FrameTopOf(i - 1)
      BY <1>8, <3>1
    <3>3. LET p == frames[i].savedpc IN
          /\ p \in DOMAIN unit.code
          /\ 0 <= frames[i].top
          /\ frames[i].top + 1 = FrameTopOf(i - 1) + unit.depth[p]
          /\ unit.fnOf[p] = 0 <=> i = 1
      BY <1>7, <3>1 DEF DepthsAgree
    <3> QED BY <1>0, <1>4, <3>2, <3>3
  <2> QED BY <1>4, <2>1, <2>2, <2>3, <2>4 DEF DepthsAgree
<1>10. CallsNested'
  <2>0. \A i \in 1..n : i \in DOMAIN frames
    BY <1>1, <1>2
  <2>1. \A i, j \in 1..n : i <= j => frames'[i].top <= frames'[j].top
    BY <1>4, <1>7, <2>0 DEF CallsNested
  <2>2. \A i \in 1..n : /\ frames'[i].savedpc - 1 \in DOMAIN unit.code
                        /\ CodeOp(unit, frames'[i].savedpc - 1) = "Call"
    BY <1>4, <1>7, <2>0 DEF CallsNested
  <2> QED BY <1>0, <1>4, <1>5, <2>1, <2>2 DEF CallsNested, CodeOp
<1>11. ASSUME NEW i \in 1..n
       PROVE  frames'[i].top <= Len(stack') /\ SubSeq(stack', 1, frames'[i].top) = kept'[i]
  <2>1. PICK t \in Nat : t = frames[i].top /\ t <= b /\ t <= Len(stack) /\ SubSeq(stack, 1, t) = kept[i]
    <3>1. i \in 1..(n + 1)
      BY <1>1
    <3> QED BY <1>2, <3>1
  <2>2. frames'[i].top = t /\ kept'[i] = kept[i]
    BY <1>4, <1>5, <2>1
  <2>3. t <= Len(stack') /\ \A k \in 1..t : stack'[k] = stack[k]
    BY <1>1, <1>6, <2>1
  <2>4. SubSeq(stack', 1, t) = SubSeq(stack, 1, t)
    BY <1>2, <1>6, <2>1, <2>3, SamePart
  <2> QED BY <2>1, <2>2, <2>3, <2>4
<1>12. NeverMisuses'
  BY <1>0 DEF NeverMisuses
<1>13. (kept \in Seq(Seq(Value)))'
  BY <1>5 DEF Value, Scalar
<1> QED BY <1>4, <1>9, <1>10, <1>11, <1>12, <1>13 DEF Convention, CallersKept

(* The result of a return, for the caller.                                    *)
Returned ==
  /\ stack' = Append(kept[Len(kept)], stack[Len(stack)])
  /\ CodeOp(unit, ip' - 1) = "Call"
  /\ unit.fnOf[ip'] = 0 <=> frames' = << >>

LEMMA RetReturns ==
  ASSUME Convention, RetMove
  PROVE  Returned
<1>0. /\ status = "running" /\ Op = "Ret"
      /\ frames' = SubSeq(frames, 1, Len(frames) - 1)
      /\ stack' = Append(SubSeq(stack, 1, Base), stack[Len(stack)])
      /\ ip' = frames[Len(frames)].savedpc
  BY DEF RetMove
<1>1. PICK n, b, d, a \in Nat : Returning(n, b, d, a)
  BY <1>0, RetShape
<1>2. n + 1 \in 1..Len(frames) /\ Len(kept) = n + 1
  BY <1>1, FrameFacts DEF Returning
<1>3. SubSeq(stack, 1, frames[n + 1].top) = kept[n + 1]
  BY <1>2, FrameFacts
<1>4. SubSeq(stack, 1, Base) = kept[Len(kept)]
  BY <1>1, <1>2, <1>3 DEF Returning
<1>5. n = 0 <=> frames' = << >>
  <2>1. frames \in Seq(Frames) /\ Len(frames) = n + 1 /\ n + 1 - 1 = n /\ n <= n
    BY <1>1, FrameFacts DEF Returning
  <2>2. SubSeq(frames, 1, n) \in Seq(Frames) /\ Len(SubSeq(frames, 1, n)) = n
    BY <1>1, <2>1, Cut
  <2> QED BY <1>0, <2>1, <2>2
<1> QED BY <1>0, <1>1, <1>4, <1>5 DEF Returning, Returned
-----------------------------------------------------------------------------
(* Every step stays in its function, calls or returns.                        *)
LEMMA Moves ==
  ASSUME Convention, Next
  PROVE  status = "running" /\ (Local \/ CallMove \/ RetMove)
<1>1. CASE BadOperand \/ OutOfProgram
  BY <1>1, FaultsLocal DEF BadOperand, OutOfProgram, Running
<1>2. CASE Nop \/ Halt \/ Push \/ Pop \/ Jump \/ JumpIfFalse \/ Dup \/ BinaryOp \/ UnaryOp \/ Is
  BY <1>2, StackLocal
     DEF Nop, Halt, Push, Pop, Jump, JumpIfFalse, Dup, BinaryOp, UnaryOp, Is, Ready, At, Running
<1>3. CASE LoadString \/ Concat \/ Slice \/ EqualityOp
  BY <1>3, StringLocal DEF LoadString, Concat, Slice, EqualityOp, Ready, At, Running
<1>4. CASE Array \/ Adt
  BY <1>4, AllocatingLocal DEF Array, Adt, Ready, At, Running
<1>5. CASE Index \/ IndexMut \/ Insert \/ Remove \/ LenOf \/ Tag
  BY <1>5, ContainerLocal DEF Index, IndexMut, Insert, Remove, LenOf, Tag, Ready, At, Running
<1>6. CASE GetLocal \/ SetLocal
  BY <1>6, LocalsLocal DEF GetLocal, SetLocal, Ready, At, Running
<1>7. CASE Call
  BY <1>7, CallEffect DEF CallMove
<1>8. CASE Ret
  BY <1>8, RetEffect DEF RetMove
<1> QED BY <1>1, <1>2, <1>3, <1>4, <1>5, <1>6, <1>7, <1>8 DEF Next

LEMMA StepConvention == Convention /\ [NextKept]_allvars => Convention'
<1> SUFFICES ASSUME Convention, [NextKept]_allvars PROVE Convention'
  OBVIOUS
<1>1. CASE UNCHANGED allvars
  <2>1. Machine'
    BY <1>1, StepMachine DEF allvars, Convention
  <2>2. CallersKept'
    BY <1>1 DEF allvars, vars, Convention, CallersKept, DepthsAgree, CallsNested, FrameTopOf,
                CodeOp, CodeArg
  <2>3. NeverMisuses'
    BY <1>1 DEF allvars, vars, Convention, NeverMisuses
  <2>4. (kept \in Seq(Seq(Value)))'
    BY <1>1 DEF allvars, Convention, Value, Scalar
  <2> QED BY <2>1, <2>2, <2>3, <2>4 DEF Convention
<1>2. CASE NextKept
  <2>1. Next /\ Keeps
    BY <1>2 DEF NextKept, Keeps
  <2>2. Machine'
    BY <2>1, StepMachine DEF Convention
  <2>3. status = "running" /\ (Local \/ CallMove \/ RetMove)
    BY <2>1, Moves
  <2>4. CASE Local
    <3>1. ~(Len(frames') > Len(frames))
      BY <2>4, FrameFacts DEF Local
    <3>2. kept' = SubSeq(kept, 1, Len(frames'))
      BY <2>1, <3>1 DEF Keeps
    <3> QED BY <2>2, <2>3, <2>4, <3>2, LocalStep
  <2> QED BY <2>1, <2>2, <2>3, <2>4, CallStep, RetStep
<1> QED BY <1>1, <1>2

LEMMA InitConvention == InitKept => Convention
<1> SUFFICES ASSUME InitKept PROVE Convention
  OBVIOUS
<1>1. /\ Init /\ kept = << >> /\ unit \in Units /\ ip = 1 /\ stack = << >> /\ frames = << >>
      /\ status = "running"
  BY DEF InitKept, Init
<1>2. Machine
  BY <1>1, InitMachine
<1>3. 1 \in DOMAIN unit.code /\ unit.fnOf[1] = 0 /\ unit.depth[1] = 0
  BY <1>1, UnitsAssumption DEF Disciplined
<1>4. CodeOp(unit, 1) # "Call"
  <2>1. CodeOp(unit, 1) = "Call" => CallsKnown(unit, 1)
    BY <1>1, <1>3, UnitsAssumption DEF Disciplined
  <2> QED BY <2>1 DEF CallsKnown
<1>5. DepthsAgree
  BY <1>1, <1>3, <1>4 DEF DepthsAgree, FrameTopOf
<1>6. CallsNested
  BY <1>1 DEF CallsNested
<1>7. NeverMisuses /\ kept \in Seq(Seq(Value))
  BY <1>1 DEF NeverMisuses
<1> QED BY <1>1, <1>2, <1>5, <1>6, <1>7 DEF Convention, CallersKept

LEMMA ConventionHolds == SpecKept => []Convention
  BY InitConvention, StepConvention, PTL DEF SpecKept

(* For every disciplined program, however deep its calls go: the stack is as  *)
(* deep as the code says at each instruction, and what waits under each frame *)
(* is what was there at the call (Call and Ret in run, new_call_frame).       *)
THEOREM CallersKeptCorrect == SpecKept => []CallersKept
<1>1. Convention => CallersKept
  BY DEF Convention
<1> QED BY <1>1, ConventionHolds, PTL

(* No disciplined program underflows a stack, calls an unknown function, uses *)
(* a slot it has not or meets a panic of the machine (pop, pop_n, Ret, Call,  *)
(* GetLocal and SetLocal in run): only its values can be at fault.            *)
THEOREM NeverMisusesCorrect == SpecKept => []NeverMisuses
<1>1. Convention => NeverMisuses
  BY DEF Convention
<1> QED BY <1>1, ConventionHolds, PTL

(* A return of a disciplined program gives its caller the stack it had before *)
(* the arguments were pushed, with the result on top (Ret in run).            *)
THEOREM ReturnsToCallerCorrect == SpecKept => ReturnsToCaller
<1>1. Convention /\ [NextKept]_allvars => [Len(frames') < Len(frames) => Returned]_allvars
  <2> SUFFICES ASSUME Convention, NextKept, Len(frames') < Len(frames) PROVE Returned
    OBVIOUS
  <2>1. Next
    BY DEF NextKept
  <2>2. Local \/ CallMove \/ RetMove
    BY <2>1, Moves
  <2>3. ~Local
    BY FrameFacts DEF Local
  <2>4. ~CallMove
    <3>1. ASSUME CallMove PROVE FALSE
      <4>1. /\ status = "running" /\ Op = "Call"
            /\ frames' = Append(frames, [top |-> Len(stack) - 1 - Callee(unit, ip).arity,
                                         savedpc |-> ip + 1])
        BY <3>1 DEF CallMove
      <4>2. frames \in Seq(Frames)
        BY FrameFacts
      <4> DEFINE r == [top |-> Len(stack) - 1 - Callee(unit, ip).arity, savedpc |-> ip + 1]
      <4>3. frames' = Append(frames, r)
        BY <4>1
      <4> HIDE DEF r
      <4> QED BY <4>2, <4>3
    <3> QED BY <3>1
  <2> QED BY <2>2, <2>3, <2>4, RetReturns
<1>2. ReturnsToCaller <=> [][Len(frames') < Len(frames) => Returned]_allvars
  BY DEF ReturnsToCaller, Returned
<1> QED BY <1>1, <1>2, ConventionHolds, PTL DEF SpecKept
=============================================================================
