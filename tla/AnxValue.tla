------------------------------- MODULE AnxValue -------------------------------
(***************************************************************************)
(* Run-time values and the operations on them: interp/value.rs, and the    *)
(* op-by-op part of the interpreter (apply_binary_op, eval_unary,          *)
(* apply_inc_dec and the string built-ins).                                *)
(*                                                                         *)
(* An operation returns a value, or a failure: one of the four             *)
(* RuntimeErrors, or a Rust panic - "overflow" when it is arithmetic that  *)
(* overflows, "panic" when it is an operand the code calls unreachable     *)
(* because the checker rules it out.  Ints have IntBits bits (64 in the    *)
(* code), floats are a tiny format of half units that saturates to the     *)
(* infinities, has a NaN and does not tell -0.0 from 0.0.                  *)
(***************************************************************************)
EXTENDS AnxAst

CONSTANTS
  IntBits,         \* the width of an int: a power of two
  OverflowChecks   \* TRUE in a debug build of anx, FALSE in a release build

ASSUME WidthAssumption ==
  /\ IntBits \in Nat \ {0} /\ MaxInt + 1 = 2 ^ (IntBits - 1)
  /\ OverflowChecks \in BOOLEAN

ArrV(r) == [k |-> "Array", r |-> r]

\* The values of a state whose heap holds n arrays.
Value(n) == Scalar \cup [k: {"Array"}, r: 1 .. n]

RuntimeError == {"IndexOutOfBounds", "DivisionByZero", "NegativeArraySize",
                 "StringIndexOutOfBounds"}
Failure == [k: {"Fail"}, e: RuntimeError \cup {"panic", "overflow"}]
Fail(e) == [k |-> "Fail", e |-> e]
Panic   == Fail("panic")

(***************************************************************************)
(* Ints.                                                                   *)
(***************************************************************************)
Wrap(x) == ((x - MinInt) % (MaxInt - MinInt + 1)) + MinInt

\* Rust's + - * on i64: a debug build panics on overflow, a release build wraps.
Checked(x) == IF x \in Int64 THEN IntV(x)
              ELSE IF OverflowChecks THEN Fail("overflow") ELSE IntV(Wrap(x))

Abs(x) == IF x < 0 THEN -x ELSE x

\* Integer division truncates towards zero; the remainder has a's sign.
Quotient(a, b)  == IF (a < 0) = (b < 0) THEN Abs(a) \div Abs(b)
                   ELSE -(Abs(a) \div Abs(b))
Remainder(a, b) == a - b * Quotient(a, b)

\* A division by zero is a runtime error; MIN / -1 and MIN % -1 panic in every build.
Divide(op, a, b) ==
  IF b = 0 THEN Fail("DivisionByZero")
  ELSE IF a = MinInt /\ b = -1 THEN Fail("overflow")
  ELSE IntV(Wrap(IF op = "Div" THEN Quotient(a, b) ELSE Remainder(a, b)))

\* The two's complement bits of an int, and the int that has them.
BitPos    == 0 .. IntBits - 1
Bits(a)   == {i \in BitPos : (a \div 2 ^ i) % 2 = 1}
IntOf(bs) == LET c == {a \in Int64 : Bits(a) = bs}
             IN  IF c = {} THEN 0 ELSE CHOOSE a \in c : TRUE

\* wrapping_shl and wrapping_shr mask the amount to the width.
ShiftAmount(b) == b % IntBits
SignFill(a, s) == IF a < 0 THEN {i \in BitPos : i >= IntBits - s} ELSE {}

BitOp(op, a, b) ==
  LET s == ShiftAmount(b)
      right == {i \in BitPos : i + s \in Bits(a)}
  IN  IntV(IntOf(CASE op = "BitAnd" -> Bits(a) \cap Bits(b)
                   [] op = "BitOr"  -> Bits(a) \cup Bits(b)
                   [] op = "BitXor" -> (Bits(a) \cup Bits(b)) \ (Bits(a) \cap Bits(b))
                   [] op = "Shl"    -> {i \in BitPos : i - s \in Bits(a)}
                   [] op = "Shr"    -> right \cup SignFill(a, s)
                   [] OTHER         -> right))

IntArith(op, a, b) == CASE op = "Add" -> Checked(a + b)
                        [] op = "Sub" -> Checked(a - b)
                        [] op = "Mul" -> Checked(a * b)
                        [] OTHER      -> Divide(op, a, b)

(***************************************************************************)
(* Floats: f64 arithmetic never fails, and NaN spreads.                    *)
(***************************************************************************)
Finite(x) == x \notin {NaN, PosInf, NegInf}
Sign(x) == CASE x = PosInf -> 1 [] x = NegInf -> -1
             [] OTHER -> IF x > 0 THEN 1 ELSE IF x < 0 THEN -1 ELSE 0
Infinity(s) == CASE s = 1 -> PosInf [] s = -1 -> NegInf [] OTHER -> NaN
Saturate(x) == IF x > MaxFloat THEN PosInf ELSE IF x < -MaxFloat THEN NegInf ELSE x
FloatNeg(x) == IF Finite(x) THEN -x ELSE CASE x = NaN -> NaN [] OTHER -> Infinity(-Sign(x))

FloatAdd(x, y) == IF Finite(x) /\ Finite(y) THEN Saturate(x + y)
                  ELSE IF Finite(x) THEN y
                  ELSE IF Finite(y) \/ x = y THEN x ELSE NaN
FloatMul(x, y) == IF Finite(x) /\ Finite(y) THEN Saturate(Quotient(x * y, 2))
                  ELSE IF NaN \in {x, y} THEN NaN ELSE Infinity(Sign(x) * Sign(y))
FloatDiv(x, y) == IF NaN \in {x, y} THEN NaN
                  ELSE IF ~Finite(y) THEN IF Finite(x) THEN 0 ELSE NaN
                  ELSE IF y = 0 THEN Infinity(Sign(x))
                  ELSE IF Finite(x) THEN Saturate(Quotient(2 * x, y))
                  ELSE Infinity(Sign(x) * Sign(y))

FloatArith(op, x, y) == FloatV(CASE op = "Add" -> FloatAdd(x, y)
                                 [] op = "Sub" -> FloatAdd(x, FloatNeg(y))
                                 [] op = "Mul" -> FloatMul(x, y)
                                 [] OTHER      -> FloatDiv(x, y))

FloatLess(x, y) == /\ NaN \notin {x, y}
                   /\ IF Finite(x) /\ Finite(y) THEN x < y
                      ELSE x # y /\ (x = NegInf \/ y = PosInf)
FloatEqual(x, y) == x = y /\ x # NaN

(***************************************************************************)
(* Binary operators (apply_binary_op).  `h` is the heap: the sequence of   *)
(* the arrays' cells.  Equality is structural, so two arrays are equal     *)
(* when their elements are, and a NaN is not equal to itself.              *)
(***************************************************************************)
Both(k, l, r) == l.k = k /\ r.k = k

SameScalar(l, r) == l.k = r.k /\ IF l.k = "Float" THEN FloatEqual(l.f, r.f) ELSE l = r

ValuesEqual(h, l, r) ==
  LET same[a \in DOMAIN h, b \in DOMAIN h] ==
        /\ Len(h[a]) = Len(h[b])
        /\ \A i \in DOMAIN h[a] :
             IF Both("Array", h[a][i], h[b][i]) THEN same[h[a][i].r, h[b][i].r]
             ELSE SameScalar(h[a][i], h[b][i])
  IN  IF Both("Array", l, r) THEN same[l.r, r.r] ELSE SameScalar(l, r)

\* numeric_cmp: floats that do not compare count as equal.
NumericCmp(l, r) ==
  LET less(x, y) == IF l.k = "Int" THEN x.i < y.i ELSE FloatLess(x.f, y.f)
  IN  IF less(l, r) THEN "Less" ELSE IF less(r, l) THEN "Greater" ELSE "Equal"

CmpHolds(op, ord) == CASE op = "Lt"   -> ord = "Less"
                       [] op = "LtEq" -> ord # "Greater"
                       [] op = "Gt"   -> ord = "Greater"
                       [] OTHER       -> ord # "Less"

ApplyBinaryOp(h, op, l, r) ==
  CASE op \in Equality -> BoolV(ValuesEqual(h, l, r) = (op = "Eq"))
    [] op = "Add" /\ Both("Str", l, r) -> StrV(l.s \o r.s)
    [] op \in Arith /\ Both("Int", l, r) -> IntArith(op, l.i, r.i)
    [] op \in Arith \ {"Mod"} /\ Both("Float", l, r) -> FloatArith(op, l.f, r.f)
    [] op \in Bitwise /\ Both("Int", l, r) -> BitOp(op, l.i, r.i)
    [] op \in Compare /\ (Both("Int", l, r) \/ Both("Float", l, r)) ->
         BoolV(CmpHolds(op, NumericCmp(l, r)))
    [] OTHER -> Panic

(***************************************************************************)
(* Unary operators, ++ and --.                                             *)
(***************************************************************************)
ApplyUnary(op, v) ==
  CASE op = "Neg" /\ v.k = "Int"    -> Checked(-v.i)
    [] op = "Neg" /\ v.k = "Float"  -> FloatV(FloatNeg(v.f))
    [] op = "Not" /\ v.k = "Bool"   -> BoolV(~v.b)
    [] op = "BitNot" /\ v.k = "Int" -> IntV(IntOf(BitPos \ Bits(v.i)))
    [] OTHER -> Panic

One == 2   \* 1.0 in half units

ApplyIncDec(op, v) ==
  LET arith == IF op = "Inc" THEN "Add" ELSE "Sub"
  IN  CASE v.k = "Int"   -> IntArith(arith, v.i, 1)
        [] v.k = "Float" -> FloatArith(arith, v.f, One)
        [] OTHER -> Panic

(***************************************************************************)
(* The string built-ins.  A char is at most two bytes here: a byte from    *)
(* 192 up leads one, a byte in 128..191 ends one.  charAt reads one byte   *)
(* as a Latin-1 char and re-encodes it; substring cuts at byte positions,  *)
(* and replaces half a char at either end by U+FFFD.                       *)
(***************************************************************************)
Replacement == <<239, 191, 189>>
Latin1(b) == IF b < 128 THEN <<b>> ELSE <<192 + b \div 64, 128 + (b % 64)>>

Head8(s) == IF s # <<>> /\ s[1] \in 128 .. 191
            THEN Replacement \o SubSeq(s, 2, Len(s)) ELSE s
FromUtf8Lossy(s) == IF s # <<>> /\ s[Len(s)] >= 192
                    THEN Head8(SubSeq(s, 1, Len(s) - 1)) \o Replacement ELSE Head8(s)

StringLength(args) == IF args[1].k = "Str" THEN IntV(Wrap(Len(args[1].s))) ELSE Panic

CharAt(args) ==
  IF args[1].k # "Str" \/ args[2].k # "Int" THEN Panic
  ELSE IF args[2].i \in 0 .. Len(args[1].s) - 1
       THEN StrV(Latin1(args[1].s[args[2].i + 1]))
       ELSE Fail("StringIndexOutOfBounds")

Substring(args) ==
  IF args[1].k # "Str" \/ args[2].k # "Int" \/ args[3].k # "Int" THEN Panic
  ELSE LET s == args[1].s  start == args[2].i  end == args[3].i
       IN  IF start \in 0 .. Len(s) /\ end \in start .. Len(s)
           THEN StrV(FromUtf8Lossy(SubSeq(s, start + 1, end)))
           ELSE Fail("StringIndexOutOfBounds")

Builtin == {"length", "charAt", "substring"}
Arity(f) == CASE f = "length" -> 1 [] f = "charAt" -> 2 [] OTHER -> 3

\* An argument list too short for the built-in is an index panic.
ApplyBuiltin(f, args) == IF Len(args) < Arity(f) THEN Panic
                         ELSE CASE f = "length" -> StringLength(args)
                                [] f = "charAt" -> CharAt(args)
                                [] OTHER        -> Substring(args)

(***************************************************************************)
(* format_value, what print writes: an array prints as a fixed text, void  *)
(* as the empty string; a scalar's text is abstracted to the scalar.       *)
(***************************************************************************)
ArrayText == [k |-> "ArrayText"]
Format(v) == CASE v.k = "Array" -> ArrayText [] v.k = "Void" -> StrV(<<>>) [] OTHER -> v
Text == Scalar \cup {ArrayText}
===============================================================================
