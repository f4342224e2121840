------------------------------- MODULE VmValue -------------------------------
(***************************************************************************)
(* The values of the virtual machine and the operations on them            *)
(* (value.rs): integers of a fixed width whose overflow is an error,       *)
(* booleans, floats and references to the heap.                            *)
(*                                                                         *)
(* A value is a pair of its kind and what it holds.  Nothing is said of    *)
(* what a float holds: an operation on floats gives some float, a          *)
(* comparison either answer.  An operation is the set of what it may give. *)
(***************************************************************************)
EXTENDS Integers

CONSTANT Width   \* bits of an integer: 64 in the code

ASSUME WidthAssumption ==
  /\ Width \in Nat \ {0}
  /\ 2^Width = 2 * 2^(Width - 1)
  /\ \A n \in 0..Width : 2^n > 0

MinInt == -(2^(Width - 1))
MaxInt == 2^(Width - 1) - 1
Ints == MinInt..MaxInt

Kind(v) == v[1]
Val(v) == v[2]
IntOf(n) == <<"Int", n>>
BoolOf(b) == <<"Bool", b>>
RefTo(id) == <<"Ref", id>>
Float == <<"Float", "some">>
Failure(e) == <<"Err", e>>
Mismatch == Failure("TypeMismatch")

FitUnchecked(n) == IntOf(n)
Fit(n) == IF n \in Ints THEN IntOf(n) ELSE Failure("Overflow")

(* Division rounds towards zero, so a remainder has the sign of a.            *)
Quotient(a, b) ==
  CASE b > 0 /\ a >= 0 -> a \div b
    [] b > 0 /\ a < 0  -> -((-a) \div b)
    [] b < 0 /\ a >= 0 -> -(a \div (-b))
    [] OTHER           -> (-a) \div (-b)

Divided(a, b, result) ==
  IF b = 0 THEN Failure("DivisionByZero")
  ELSE IF a = MinInt /\ b = -1 THEN Failure("Overflow")
  ELSE IntOf(result)

(* A shift fails by how far it shifts, never by what it loses.                *)
Wrapped(n) == ((n - MinInt) % 2^Width) + MinInt
Shifted(s, result) == IF s \in 0..(Width - 1) THEN IntOf(result) ELSE Failure("ShiftOverflow")

Bit(n, i) == (n \div 2^i) % 2

(* Every pattern of bits is an integer.                                       *)
ASSUME BitsAssumption ==
  \A f \in [0..(Width - 1) -> {0, 1}] :
    \E n \in Ints : \A i \in 0..(Width - 1) : Bit(n, i) = f[i]

OnBits(op, x, y) ==
  CASE op = "BitXor" -> (x + y) % 2 [] op = "BitAnd" -> x * y [] op = "BitOr" -> x + y - x * y
BitByBit(op, a, b) ==
  IntOf(CHOOSE n \in Ints : \A i \in 0..(Width - 1) : Bit(n, i) = OnBits(op, Bit(a, i), Bit(b, i)))

Arithmetic == {"Add", "Sub", "Mul", "Div", "Rem"}
Logic == {"BitXor", "BitAnd", "BitOr"}
Equality == {"Eq", "Ne"}
Ordering == {"Lt", "Le", "Gt", "Ge"}
BinaryOps == Arithmetic \cup Logic \cup {"Shl", "Shr"} \cup Equality \cup Ordering
UnaryOps == {"Not", "Neg"}

OnInts(op, a, b) ==
  CASE op = "Add" -> Fit(a + b)
    [] op = "Sub" -> Fit(a - b)
    [] op = "Mul" -> Fit(a * b)
    [] op = "Div" -> Divided(a, b, Quotient(a, b))
    [] op = "Rem" -> Divided(a, b, a - b * Quotient(a, b))
    [] op \in Logic -> BitByBit(op, a, b)
    [] op = "Shl" -> Shifted(b, Wrapped(a * 2^b))
    [] op = "Shr" -> Shifted(b, a \div 2^b)
    [] op = "Eq" -> BoolOf(a = b)
    [] op = "Ne" -> BoolOf(a # b)
    [] op = "Lt" -> BoolOf(a < b)
    [] op = "Le" -> BoolOf(a <= b)
    [] op = "Gt" -> BoolOf(a > b)
    [] op = "Ge" -> BoolOf(a >= b)

OnBools(op, a, b) ==
  CASE op \in {"BitXor", "Ne"} -> BoolOf(a # b)
    [] op = "Eq"     -> BoolOf(a = b)
    [] op = "BitAnd" -> BoolOf(a /\ b)
    [] op = "BitOr"  -> BoolOf(a \/ b)
    [] OTHER         -> Mismatch

OnFloats(op) ==
  IF op \in Arithmetic THEN {Float}
  ELSE IF op \in Equality \cup Ordering THEN {BoolOf(b) : b \in BOOLEAN}
  ELSE {Mismatch}

Binary(op, v, w) ==
  IF Kind(v) # Kind(w) THEN {Mismatch}
  ELSE CASE Kind(v) = "Int"   -> {OnInts(op, Val(v), Val(w))}
         [] Kind(v) = "Bool"  -> {OnBools(op, Val(v), Val(w))}
         [] Kind(v) = "Float" -> OnFloats(op)
         [] OTHER             -> {Mismatch}

Unary(op, v) ==
  CASE Kind(v) = "Int"  -> IF op = "Neg" THEN Fit(-Val(v)) ELSE IntOf(-Val(v) - 1)
    [] Kind(v) = "Bool"  /\ op = "Not" -> BoolOf(~Val(v))
    [] Kind(v) = "Float" /\ op = "Neg" -> Float
    [] OTHER -> Mismatch

(* Whether two values are the same one; a float need not be the same as       *)
(* itself.                                                                    *)
Identical(v, w) ==
  IF Kind(v) # Kind(w) THEN {BoolOf(FALSE)}
  ELSE IF Kind(v) = "Float" THEN {BoolOf(b) : b \in BOOLEAN}
  ELSE {BoolOf(Val(v) = Val(w))}
=============================================================================
