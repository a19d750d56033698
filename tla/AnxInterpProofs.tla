---------------------------- MODULE AnxInterpProofs ----------------------------
(***************************************************************************)
(* The interpreter's type invariant and its safety invariants, for every   *)
(* program, width of ints, range of floats and build: a compound           *)
(* assignment's cell stays in bounds, a Return always has a call to end,   *)
(* and calls see nothing of each other's scopes.                           *)
(***************************************************************************)
EXTENDS AnxInterp, AnxTypingProofs

(***************************************************************************)
(* Every operation on values returns a value or a failure, whatever the    *)
(* width of ints, the range of floats and the build: an int never leaves   *)
(* Int64, a float never leaves Float, and a string stays a sequence of     *)
(* bytes.                                                                  *)
(***************************************************************************)
Outcome(n) == Value(n) \cup Failure

(***************************************************************************)
(* Ints.                                                                   *)
(***************************************************************************)
\* The zero and the one of the language are ints, and ints are integers.
LEMMA IntFacts == /\ 0 \in Int64 /\ MinInt \in Int /\ MaxInt \in Int
                  /\ \A i \in Int64 : i \in Int /\ -i \in Int
BY IntAssumption DEF Int64

\* Release arithmetic brings every integer back into the range of an int.
LEMMA WrapInInt64 == ASSUME NEW i \in Int PROVE Wrap(i) \in Int64
<1> DEFINE m == MaxInt - MinInt + 1
<1>1. m \in Int /\ m > 0 /\ MinInt \in Int /\ MaxInt = m + MinInt - 1
  BY IntAssumption
<1>2. (i - MinInt) % m \in 0 .. m - 1
  BY <1>1
<1> HIDE DEF m
<1>3. ((i - MinInt) % m) + MinInt \in MinInt .. MaxInt
  BY <1>1, <1>2
<1> QED
  BY <1>3 DEF Wrap, Int64, m

LEMMA IntIsValue == ASSUME NEW n, NEW i \in Int64 PROVE IntV(i) \in Outcome(n)
BY DEF Outcome, Value, Scalar, IntV

LEMMA BoolIsValue == ASSUME NEW n, NEW b \in BOOLEAN PROVE BoolV(b) \in Outcome(n)
BY DEF Outcome, Value, Scalar, BoolV

LEMMA FloatIsValue == ASSUME NEW n, NEW f \in Float PROVE FloatV(f) \in Outcome(n)
BY DEF Outcome, Value, Scalar, FloatV

LEMMA StrIsValue == ASSUME NEW n, NEW s \in Seq(Byte) PROVE StrV(s) \in Outcome(n)
BY DEF Outcome, Value, Scalar, StrV

LEMMA FailIsOutcome ==
  ASSUME NEW n, NEW e \in RuntimeError \cup {"panic", "overflow"} PROVE Fail(e) \in Outcome(n)
BY DEF Outcome, Failure, Fail

LEMMA PanicIsOutcome == ASSUME NEW n PROVE Panic \in Outcome(n)
BY FailIsOutcome DEF Panic

LEMMA CheckedType == ASSUME NEW n, NEW i \in Int PROVE Checked(i) \in Outcome(n)
BY WrapInInt64, IntIsValue, FailIsOutcome DEF Checked

LEMMA QuotientType ==
  ASSUME NEW a \in Int, NEW b \in Int, b # 0 PROVE Quotient(a, b) \in Int
<1>1. Abs(a) \in Nat /\ Abs(b) \in Nat \ {0}
  BY DEF Abs
<1>2. Abs(a) \div Abs(b) \in Int
  BY <1>1
<1> QED
  BY <1>2 DEF Quotient

LEMMA DivideType ==
  ASSUME NEW n, NEW op, NEW a \in Int64, NEW b \in Int64 PROVE Divide(op, a, b) \in Outcome(n)
<1>1. CASE b = 0
  BY <1>1, FailIsOutcome DEF Divide, RuntimeError
<1>2. CASE b # 0
  <2>1. a \in Int /\ b \in Int
    BY IntFacts
  <2>2. Quotient(a, b) \in Int
    BY <1>2, <2>1, QuotientType
  <2>3. Remainder(a, b) \in Int
    BY <2>1, <2>2 DEF Remainder
  <2> QED
    BY <1>2, <2>2, <2>3, WrapInInt64, IntIsValue, FailIsOutcome DEF Divide
<1> QED
  BY <1>1, <1>2

LEMMA IntArithType ==
  ASSUME NEW n, NEW op, NEW a \in Int64, NEW b \in Int64 PROVE IntArith(op, a, b) \in Outcome(n)
<1>1. a + b \in Int /\ a - b \in Int /\ a * b \in Int
  BY IntFacts
<1> QED
  BY <1>1, CheckedType, DivideType DEF IntArith

LEMMA IntOfType == ASSUME NEW bs PROVE IntOf(bs) \in Int64
BY IntFacts DEF IntOf

LEMMA BitOpType == ASSUME NEW n, NEW op, NEW a, NEW b PROVE BitOp(op, a, b) \in Outcome(n)
BY IntOfType, IntIsValue DEF BitOp

(***************************************************************************)
(* Floats.                                                                 *)
(***************************************************************************)
LEMMA FloatFacts ==
  /\ {NaN, PosInf, NegInf, 0, One} \subseteq Float
  /\ \A f \in Float : Finite(f) => f \in Int /\ -f \in Float
BY IntAssumption DEF Float, Finite, One

LEMMA SaturateType == ASSUME NEW i \in Int PROVE Saturate(i) \in Float
BY IntAssumption DEF Saturate, Float

LEMMA InfinityType == ASSUME NEW s PROVE Infinity(s) \in Float
BY DEF Infinity, Float

LEMMA FloatNegType == ASSUME NEW f \in Float PROVE FloatNeg(f) \in Float
BY FloatFacts, InfinityType DEF FloatNeg

LEMMA FloatAddType == ASSUME NEW f \in Float, NEW g \in Float PROVE FloatAdd(f, g) \in Float
<1>1. CASE Finite(f) /\ Finite(g)
  BY <1>1, FloatFacts, SaturateType DEF FloatAdd
<1>2. CASE ~(Finite(f) /\ Finite(g))
  BY <1>2, FloatFacts DEF FloatAdd
<1> QED
  BY <1>1, <1>2

LEMMA FloatMulType == ASSUME NEW f \in Float, NEW g \in Float PROVE FloatMul(f, g) \in Float
<1>1. CASE Finite(f) /\ Finite(g)
  <2>1. f * g \in Int
    BY <1>1, FloatFacts
  <2>2. Quotient(f * g, 2) \in Int
    BY <2>1, QuotientType
  <2> QED
    BY <1>1, <2>2, SaturateType DEF FloatMul
<1>2. CASE ~(Finite(f) /\ Finite(g))
  BY <1>2, FloatFacts, InfinityType DEF FloatMul
<1> QED
  BY <1>1, <1>2

LEMMA FloatDivType == ASSUME NEW f \in Float, NEW g \in Float PROVE FloatDiv(f, g) \in Float
<1>1. CASE Finite(f) /\ Finite(g) /\ g # 0
  <2>1. 2 * f \in Int /\ g \in Int
    BY <1>1, FloatFacts
  <2>2. Quotient(2 * f, g) \in Int
    BY <1>1, <2>1, QuotientType
  <2> QED
    BY <1>1, <2>2, FloatFacts, InfinityType, SaturateType DEF FloatDiv
<1>2. CASE ~(Finite(f) /\ Finite(g) /\ g # 0)
  BY <1>2, FloatFacts, InfinityType DEF FloatDiv
<1> QED
  BY <1>1, <1>2

LEMMA FloatArithType ==
  ASSUME NEW n, NEW op, NEW f \in Float, NEW g \in Float PROVE FloatArith(op, f, g) \in Outcome(n)
BY FloatNegType, FloatAddType, FloatMulType, FloatDivType, FloatIsValue DEF FloatArith

(***************************************************************************)
(* Strings.                                                                *)
(***************************************************************************)
LEMMA Latin1Type == ASSUME NEW b \in Byte PROVE Latin1(b) \in Seq(Byte)
<1>1. CASE b < 128
  BY <1>1 DEF Latin1, Byte
<1>2. CASE ~(b < 128)
  <2>1. 192 + b \div 64 \in Byte /\ 128 + (b % 64) \in Byte
    BY DEF Byte
  <2> QED
    BY <1>2, <2>1 DEF Latin1
<1> QED
  BY <1>1, <1>2

LEMMA ReplacementType == Replacement \in Seq(Byte)
BY DEF Replacement, Byte

LEMMA Head8Type == ASSUME NEW s \in Seq(Byte) PROVE Head8(s) \in Seq(Byte)
<1>1. s # <<>> => SubSeq(s, 2, Len(s)) \in Seq(Byte)
  BY SubSeqProperties
<1> QED
  BY <1>1, ReplacementType DEF Head8

\* What substring returns is a string again, however it cuts the bytes.
LEMMA FromUtf8LossyType == ASSUME NEW s \in Seq(Byte) PROVE FromUtf8Lossy(s) \in Seq(Byte)
<1>1. s # <<>> => SubSeq(s, 1, Len(s) - 1) \in Seq(Byte)
  BY SubSeqProperties
<1>2. s # <<>> => Head8(SubSeq(s, 1, Len(s) - 1)) \o Replacement \in Seq(Byte)
  BY <1>1, Head8Type, ReplacementType, ConcatProperties
<1> QED
  BY <1>2, Head8Type DEF FromUtf8Lossy

LEMMA ValueCases ==
  ASSUME NEW n, NEW v \in Value(n)
  PROVE  /\ v.k = "Int" => v.i \in Int64
         /\ v.k = "Float" => v.f \in Float
         /\ v.k = "Bool" => v.b \in BOOLEAN
         /\ v.k = "Str" => v.s \in Seq(Byte)
         /\ v.k = "Array" => v.r \in 1 .. n
BY DEF Value, Scalar, VoidV

LEMMA StringLengthType ==
  ASSUME NEW n, NEW args, args[1] \in Value(n) PROVE StringLength(args) \in Outcome(n)
<1>1. CASE args[1].k = "Str"
  <2>1. Len(args[1].s) \in Int
    BY <1>1, ValueCases
  <2> QED
    BY <1>1, <2>1, WrapInInt64, IntIsValue DEF StringLength
<1>2. CASE args[1].k # "Str"
  BY <1>2, PanicIsOutcome DEF StringLength
<1> QED
  BY <1>1, <1>2

LEMMA CharAtType ==
  ASSUME NEW n, NEW args, args[1] \in Value(n), args[2] \in Value(n)
  PROVE  CharAt(args) \in Outcome(n)
<1> DEFINE s == args[1].s  j == args[2].i
<1>1. CASE args[1].k = "Str" /\ args[2].k = "Int" /\ j \in 0 .. Len(s) - 1
  <2>1. s \in Seq(Byte) /\ j \in Int
    BY <1>1, ValueCases, IntFacts
  <2>2. j + 1 \in 1 .. Len(s)
    BY <1>1, <2>1
  <2>3. s[j + 1] \in Byte
    BY <2>1, <2>2
  <2> QED
    BY <1>1, <2>3, Latin1Type, StrIsValue DEF CharAt
<1>2. CASE ~(args[1].k = "Str" /\ args[2].k = "Int" /\ j \in 0 .. Len(s) - 1)
  BY <1>2, PanicIsOutcome, FailIsOutcome DEF CharAt, RuntimeError
<1> QED
  BY <1>1, <1>2

LEMMA SubstringType ==
  ASSUME NEW n, NEW args, args[1] \in Value(n), args[2] \in Value(n), args[3] \in Value(n)
  PROVE  Substring(args) \in Outcome(n)
<1> DEFINE s == args[1].s  from == args[2].i  to == args[3].i
           fits == from \in 0 .. Len(s) /\ to \in from .. Len(s)
           typed == args[1].k = "Str" /\ args[2].k = "Int" /\ args[3].k = "Int"
<1>1. CASE typed /\ fits
  <2>1. s \in Seq(Byte) /\ from \in Int /\ to \in Int
    BY <1>1, ValueCases, IntFacts
  <2>2. SubSeq(s, from + 1, to) \in Seq(Byte)
    <3>1. \A j \in from + 1 .. to : s[j] \in Byte
      BY <1>1, <2>1
    <3> QED
      BY <1>1, <2>1, <3>1, SubSeqProperties
  <2> QED
    BY <1>1, <2>2, FromUtf8LossyType, StrIsValue DEF Substring
<1>2. CASE ~(typed /\ fits)
  BY <1>2, PanicIsOutcome, FailIsOutcome DEF Substring, RuntimeError
<1> QED
  BY <1>1, <1>2

LEMMA BuiltinType ==
  ASSUME NEW n, NEW f \in Builtin, NEW args \in Seq(Value(n))
  PROVE  ApplyBuiltin(f, args) \in Outcome(n)
<1>1. CASE Len(args) < Arity(f)
  BY <1>1, PanicIsOutcome DEF ApplyBuiltin
<1>2. CASE ~(Len(args) < Arity(f))
  <2>1. \A j \in 1 .. Arity(f) : args[j] \in Value(n)
    BY <1>2 DEF Arity
  <2> QED
    BY <1>2, <2>1, StringLengthType, CharAtType, SubstringType
    DEF ApplyBuiltin, Arity, Builtin
<1> QED
  BY <1>1, <1>2

(***************************************************************************)
(* Operators.                                                              *)
(***************************************************************************)
\* apply_binary_op on any two values is a value of the same heap, an error or a panic.
LEMMA BinaryOpType ==
  ASSUME NEW n, NEW h, NEW op, NEW l \in Value(n), NEW r \in Value(n)
  PROVE  ApplyBinaryOp(h, op, l, r) \in Outcome(n)
<1> DEFINE eq == ValuesEqual(h, l, r) = (op = "Eq")
           cmp == CmpHolds(op, NumericCmp(l, r))
<1>1. BoolV(eq) \in Outcome(n)
  BY BoolIsValue
<1>2. BoolV(cmp) \in Outcome(n)
  <2>1. cmp \in BOOLEAN
    BY DEF CmpHolds
  <2> QED
    BY <2>1, BoolIsValue
<1>3. Both("Str", l, r) => StrV(l.s \o r.s) \in Outcome(n)
  BY ValueCases, ConcatProperties, StrIsValue DEF Both
<1>4. Both("Int", l, r) => /\ IntArith(op, l.i, r.i) \in Outcome(n)
                           /\ BitOp(op, l.i, r.i) \in Outcome(n)
  BY ValueCases, IntArithType, BitOpType DEF Both
<1>5. Both("Float", l, r) => FloatArith(op, l.f, r.f) \in Outcome(n)
  BY ValueCases, FloatArithType DEF Both
<1> HIDE DEF eq, cmp
<1>6. ApplyBinaryOp(h, op, l, r) \in
        {BoolV(eq), BoolV(cmp), Panic}
        \cup (IF Both("Str", l, r) THEN {StrV(l.s \o r.s)} ELSE {})
        \cup (IF Both("Int", l, r) THEN {IntArith(op, l.i, r.i), BitOp(op, l.i, r.i)} ELSE {})
        \cup (IF Both("Float", l, r) THEN {FloatArith(op, l.f, r.f)} ELSE {})
  BY DEF ApplyBinaryOp, eq, cmp
<1> QED
  BY <1>1, <1>2, <1>3, <1>4, <1>5, <1>6, PanicIsOutcome

LEMMA UnaryType ==
  ASSUME NEW n, NEW op, NEW v \in Value(n) PROVE ApplyUnary(op, v) \in Outcome(n)
<1>1. IntV(IntOf(BitPos \ Bits(v.i))) \in Outcome(n)
  BY IntOfType, IntIsValue
<1>2. CASE v.k = "Int"
  <2>1. v.i \in Int64
    BY <1>2, ValueCases
  <2>2. -v.i \in Int
    BY <2>1, IntFacts
  <2>3. Checked(-v.i) \in Outcome(n)
    BY <2>2, CheckedType
  <2> QED
    BY <1>1, <1>2, <2>3, PanicIsOutcome DEF ApplyUnary
<1>3. CASE v.k = "Float"
  BY <1>3, ValueCases, FloatNegType, FloatIsValue, PanicIsOutcome DEF ApplyUnary
<1>4. CASE v.k \notin {"Int", "Float"}
  BY <1>4, ValueCases, BoolIsValue, PanicIsOutcome DEF ApplyUnary
<1> QED
  BY <1>2, <1>3, <1>4

LEMMA IncDecType ==
  ASSUME NEW n, NEW op, NEW v \in Value(n) PROVE ApplyIncDec(op, v) \in Outcome(n)
<1>1. CASE v.k = "Int"
  <2>1. v.i \in Int64
    BY <1>1, ValueCases
  <2>2. v.i + 1 \in Int /\ v.i - 1 \in Int
    BY <2>1, IntFacts
  <2>3. Checked(v.i + 1) \in Outcome(n) /\ Checked(v.i - 1) \in Outcome(n)
    BY <2>2, CheckedType
  <2> QED
    BY <1>1, <2>3 DEF ApplyIncDec, IntArith
<1>2. CASE v.k = "Float"
  BY <1>2, ValueCases, FloatFacts, FloatArithType DEF ApplyIncDec
<1>3. CASE v.k \notin {"Int", "Float"}
  BY <1>3, PanicIsOutcome DEF ApplyIncDec
<1> QED
  BY <1>1, <1>2, <1>3

\* What print writes is a text.
LEMMA FormatType == ASSUME NEW n, NEW v \in Value(n) PROVE Format(v) \in Text
BY DEF Format, Text, Value, Scalar, StrV, VoidV

\* An operand that is not a failure is a value: failures carry a tag of their own.
LEMMA OutcomeCases ==
  ASSUME NEW n, NEW o \in Outcome(n)
  PROVE  /\ o.k = "Fail" => o.e \in RuntimeError \cup {"panic", "overflow"}
         /\ o.k # "Fail" => o \in Value(n)
BY DEF Outcome, Failure, Value, Scalar, VoidV

(***************************************************************************)
(* Nodes.                                                                  *)
(***************************************************************************)
\* The target of an assignment, and its own children.
LEMMA TargetType ==
  ASSUME NEW n \in NodeId, Nodes[n].k \in {"Assign", "CompoundAssign", "IncDec"}
  PROVE  /\ Nodes[n].kids[1] \in NodeId
         /\ TargetKids(Nodes[n]) \in Seq(NodeId)
         /\ TargetKind(Nodes[n]) = "Index" =>
              /\ Len(TargetKids(Nodes[n])) = 2
              /\ TargetKids(Nodes[n])[1] \in NodeId /\ TargetKids(Nodes[n])[2] \in NodeId
         /\ Nodes[n].k # "IncDec" => Nodes[n].kids[2] \in NodeId
<1> DEFINE nd == Nodes[n]  t == nd.kids[1]
<1>1. nd.kids \in Seq(NodeId) /\ Shape(nd)
  BY NodeType
<1>2. Len(nd.kids) = (IF nd.k = "IncDec" THEN 1 ELSE 2)
  <2>1. CASE nd.k = "Assign"
    BY <1>1, <2>1 DEF Shape
  <2>2. CASE nd.k = "CompoundAssign"
    BY <1>1, <2>2 DEF Shape
  <2>3. CASE nd.k = "IncDec"
    BY <1>1, <2>3 DEF Shape
  <2> QED
    BY <2>1, <2>2, <2>3
<1>3. t \in NodeId /\ (nd.k # "IncDec" => nd.kids[2] \in NodeId)
  BY <1>1, <1>2
<1>4. Nodes[t].kids \in Seq(NodeId) /\ Shape(Nodes[t])
  BY <1>3, NodeType
<1>5. Nodes[t].k = "Index" => Len(Nodes[t].kids) = 2
  BY <1>4 DEF Shape
<1> QED
  BY <1>3, <1>4, <1>5 DEF TargetKids, TargetKind

\* The operands of an assignment, and of a compound assignment with its slot.
LEMMA AssignOperands ==
  ASSUME NEW n \in NodeId, Nodes[n].k = "Assign"
  PROVE  /\ Operands(Nodes[n]) \in Seq(NodeId)
         /\ Len(Operands(Nodes[n])) = IF TargetKind(Nodes[n]) = "Index" THEN 3 ELSE 1
<1> DEFINE nd == Nodes[n]
<1>1. CASE TargetKind(nd) = "Index"
  <2>1. <<nd.kids[2]>> \in Seq(NodeId) /\ Len(<<nd.kids[2]>>) = 1
    BY TargetType
  <2>2. /\ <<nd.kids[2]>> \o TargetKids(nd) \in Seq(NodeId)
        /\ Len(<<nd.kids[2]>> \o TargetKids(nd)) = 3
    BY <1>1, <2>1, TargetType, ConcatProperties
  <2> QED
    BY <1>1, <2>2 DEF Operands
<1>2. CASE TargetKind(nd) # "Index"
  BY <1>2, TargetType DEF Operands
<1> QED
  BY <1>1, <1>2

LEMMA CompoundOperands ==
  ASSUME NEW n \in NodeId, Nodes[n].k = "CompoundAssign"
  PROVE  LET ops == Operands(Nodes[n])
         IN  /\ ops \in Seq(NodeId \cup {Slot})
             /\ TargetKind(Nodes[n]) = "Index" =>
                  /\ Len(ops) = 4 /\ ops[3] = Slot
                  /\ ops[1] # Slot /\ ops[2] # Slot /\ ops[4] # Slot
             /\ TargetKind(Nodes[n]) # "Index" => Len(ops) = 2 /\ ops[1] = Slot /\ ops[2] # Slot
<1> DEFINE nd == Nodes[n]  T == NodeId \cup {Slot}  late == <<Slot, nd.kids[2]>>
<1>1. late \in Seq(T) /\ Len(late) = 2 /\ late[1] = Slot /\ late[2] # Slot
  BY TargetType, AstAssumption DEF Slot
<1>2. CASE TargetKind(nd) = "Index"
  <2>1. TargetKids(nd) \in Seq(T) /\ Len(TargetKids(nd)) = 2
        /\ TargetKids(nd)[1] # Slot /\ TargetKids(nd)[2] # Slot
    BY <1>2, TargetType, AstAssumption DEF Slot
  <2>2. Operands(nd) = TargetKids(nd) \o late
    BY <1>2 DEF Operands, SlotThenValue
  <2> DEFINE ks == TargetKids(nd)  ops == ks \o late
  <2> HIDE DEF late
  <2>3. ops \in Seq(T) /\ Len(ops) = 4
    BY <1>1, <2>1, ConcatProperties
  <2>4. \A j \in 1 .. 4 : ops[j] = IF j <= 2 THEN ks[j] ELSE late[j - 2]
    BY <1>1, <2>1, ConcatProperties
  <2> HIDE DEF ks, ops
  <2>5. ops[1] = ks[1] /\ ops[2] = ks[2] /\ ops[3] = late[1] /\ ops[4] = late[2]
    BY <2>4
  <2> QED
    BY <1>1, <1>2, <2>1, <2>2, <2>3, <2>5 DEF ks, ops
<1>3. CASE TargetKind(nd) # "Index"
  <2>1. Operands(nd) = <<>> \o late
    BY <1>3 DEF Operands, SlotThenValue
  <2>2. <<>> \o late = late
    BY <1>1
  <2> QED
    BY <1>1, <1>3, <2>1, <2>2
<1> QED
  BY <1>2, <1>3

LEMMA IncDecOperands ==
  ASSUME NEW n \in NodeId, Nodes[n].k = "IncDec"
  PROVE  /\ Operands(Nodes[n]) \in Seq(NodeId)
         /\ TargetKind(Nodes[n]) = "Index" => Len(Operands(Nodes[n])) = 2
BY TargetType DEF Operands

\* Every other node's operands are its children, or for print the first of them.
LEMMA OtherOperands ==
  ASSUME NEW n \in NodeId, Nodes[n].k \notin {"Assign", "CompoundAssign", "IncDec"}
  PROVE  /\ Operands(Nodes[n]) \in Seq(NodeId)
         /\ Nodes[n].k \in {"Binary", "Index"} => Len(Operands(Nodes[n])) = 2
         /\ Nodes[n].k \in {"Unary", "FieldAccess", "ArrayCreation", "Expr"}
              => Len(Operands(Nodes[n])) = 1
<1> DEFINE nd == Nodes[n]
<1>1. nd.kids \in Seq(NodeId) /\ Shape(nd)
  BY NodeType
<1>2. CASE nd.k = "Call" /\ nd.name = "print" /\ nd.kids # <<>>
  <2>1. <<nd.kids[1]>> \in Seq(NodeId)
    BY <1>1, <1>2
  <2> QED
    BY <1>2, <2>1 DEF Operands
<1>3. CASE ~(nd.k = "Call" /\ nd.name = "print" /\ nd.kids # <<>>)
  <2>1. Operands(nd) = nd.kids
    BY <1>3 DEF Operands
  <2> QED
    BY <1>1, <2>1 DEF Shape
<1> QED
  BY <1>2, <1>3

(***************************************************************************)
(* Frames and environments: what pushing, returning and growing preserve.  *)
(***************************************************************************)
\* A sequence over a set is one over every larger set.
LEMMA SeqMono == ASSUME NEW S, NEW T, S \subseteq T PROVE Seq(S) \subseteq Seq(T)
<1> SUFFICES ASSUME NEW s \in Seq(S) PROVE s \in Seq(T)
  OBVIOUS
<1> QED
  BY ElementOfSeq

\* An array that exists goes on existing as the heap grows.
LEMMA ValueMono ==
  ASSUME NEW m \in Nat, NEW m2 \in Nat, m <= m2 PROVE Value(m) \subseteq Value(m2)
BY DEF Value

LEMMA FramesMono ==
  ASSUME NEW m \in Nat, NEW m2 \in Nat, m <= m2, NEW e \in Nat, NEW e2 \in Nat, e <= e2
  PROVE  Seq(Frames(m, e)) \subseteq Seq(Frames(m2, e2))
<1>1. Seq(Value(m)) \subseteq Seq(Value(m2))
  BY ValueMono, SeqMono
<1>2. Frames(m, e) \subseteq Frames(m2, e2)
  BY <1>1 DEF Frames
<1> QED
  BY <1>2, SeqMono

LEMMA EnvironmentsMono ==
  ASSUME NEW m \in Nat, NEW m2 \in Nat, m <= m2, NEW e \in Nat, NEW e2 \in Nat, e <= e2
  PROVE  Seq(Environments(m, e)) \subseteq Seq(Environments(m2, e2))
<1> DEFINE Entry(j) == [v: Value(j), d: {0} \cup NodeId]
<1>1. Entry(m) \subseteq Entry(m2)
  BY ValueMono
<1> HIDE DEF Entry
<1>2. [Name -> Entry(m)] \subseteq [Name -> Entry(m2)]
  BY <1>1
<1>3. Seq(1 .. e) \subseteq Seq(1 .. e2)
  BY SeqMono
<1>4. Environments(m, e) \subseteq Environments(m2, e2)
  BY <1>2, <1>3 DEF Environments, Entry
<1> QED
  BY <1>4, SeqMono

LEMMA HeapMono ==
  ASSUME NEW m \in Nat, NEW m2 \in Nat, m <= m2
  PROVE  Seq(Seq(Value(m))) \subseteq Seq(Seq(Value(m2)))
BY ValueMono, SeqMono

LEMMA FrameType ==
  ASSUME NEW m, NEW e, NEW n \in NodeId, NEW ev \in 1 .. e PROVE Frame(n, ev) \in Frames(m, e)
BY DEF Frame, Frames

LEMMA PushType ==
  ASSUME NEW m, NEW e, stack \in Seq(Frames(m, e)), NEW n \in NodeId, NEW ev \in 1 .. e
  PROVE  Push(n, ev) \in Seq(Frames(m, e))
BY FrameType, AppendProperties DEF Push

LEMMA WithValues ==
  ASSUME NEW m, NEW e, NEW f \in Frames(m, e), NEW vs \in Seq(Value(m))
  PROVE  [f EXCEPT !.vs = vs] \in Frames(m, e)
BY DEF Frames

LEMMA WithOneMore ==
  ASSUME NEW m, NEW e, NEW f \in Frames(m, e), NEW v \in Value(m)
  PROVE  [f EXCEPT !.vs = Append(@, v)] \in Frames(m, e)
<1>1. f.vs \in Seq(Value(m))
  BY DEF Frames
<1>2. Append(f.vs, v) \in Seq(Value(m))
  BY <1>1, AppendProperties
<1> QED
  BY <1>2, WithValues

LEMMA PoppedType ==
  ASSUME NEW m, NEW e, stack \in Seq(Frames(m, e)), stack # <<>>, NEW v \in Value(m)
  PROVE  Popped(v) \in Seq(Frames(m, e))
<1>1. Len(stack) - 1 \in Nat
  OBVIOUS
<1> DEFINE fr(j) == IF j = Len(stack) - 1 THEN [stack[j] EXCEPT !.vs = Append(@, v)]
                    ELSE stack[j]
<1>2. ASSUME NEW j \in 1 .. Len(stack) - 1 PROVE fr(j) \in Frames(m, e)
  <2>1. stack[j] \in Frames(m, e)
    OBVIOUS
  <2> QED
    BY <2>1, WithOneMore
<1> HIDE DEF fr
<1>3. [j \in 1 .. Len(stack) - 1 |-> fr(j)] \in Seq(Frames(m, e))
  BY <1>1, <1>2
<1> QED
  BY <1>3 DEF Popped, fr

LEMMA SetTopType ==
  ASSUME NEW m, NEW e, stack \in Seq(Frames(m, e)), stack # <<>>, NEW vs \in Seq(Value(m))
  PROVE  SetTop(vs) \in Seq(Frames(m, e))
<1>1. Len(stack) \in 1 .. Len(stack) /\ stack[Len(stack)] \in Frames(m, e)
  OBVIOUS
<1>2. [stack[Len(stack)] EXCEPT !.vs = vs] \in Frames(m, e)
  BY <1>1, WithValues
<1>3. SetTop(vs) = [stack EXCEPT ![Len(stack)] = [stack[Len(stack)] EXCEPT !.vs = vs]]
  BY DEF SetTop
<1> DEFINE f == [stack[Len(stack)] EXCEPT !.vs = vs]
<1> HIDE DEF f
<1>4. [stack EXCEPT ![Len(stack)] = f] \in Seq(Frames(m, e))
  BY <1>1, <1>2, ExceptSeq DEF f
<1> QED
  BY <1>3, <1>4 DEF f

LEMMA CutType ==
  ASSUME NEW m, NEW e, stack \in Seq(Frames(m, e)), stack # <<>>
  PROVE  SubSeq(stack, 1, Len(stack) - 1) \in Seq(Frames(m, e))
BY SubSeqProperties

\* What the innermost activation holds.
LEMMA TopType ==
  ASSUME TypeOK, stack # <<>>
  PROVE  /\ Top \in Frames(Len(heap), Len(envs)) /\ Top.n \in NodeId
         /\ Top.env \in 1 .. Len(envs) /\ Top.vs \in Seq(Value(Len(heap)))
         /\ Here \in Node /\ Shape(Here) /\ Here.name \in Name /\ Here.lit \in Scalar
         /\ Here.kids \in Seq(NodeId) /\ Here.params \in Seq(NodeId) /\ Here.ty \in Type
         /\ Len(envs) \in Nat \ {0} /\ Len(heap) \in Nat
         /\ stack \in Seq(Frames(Len(heap), Len(envs)))
<1>1. Top \in Frames(Len(heap), Len(envs))
  BY DEF TypeOK, Top
<1>2. Top.n \in NodeId
  BY <1>1 DEF Frames
<1> QED
  BY <1>1, <1>2, NodeType DEF TypeOK, Frames, Here

(***************************************************************************)
(* The ways a step ends.                                                   *)
(***************************************************************************)
LEMMA TypeParts ==
  ASSUME TypeOK
  PROVE  /\ Len(heap) \in Nat /\ Len(envs) \in Nat \ {0} /\ Globals \in 1 .. Len(envs)
         /\ stack \in Seq(Frames(Len(heap), Len(envs)))
         /\ envs \in Seq(Environments(Len(heap), Len(envs)))
         /\ heap \in Seq(Seq(Value(Len(heap))))
         /\ flow.v \in Value(Len(heap))
BY DEF TypeOK, Globals

LEMMA HaltStep ==
  ASSUME TypeOK, NEW s \in {"ok", "panic", "overflow"} \cup RuntimeError, Halt(s) PROVE TypeOK'
BY DEF TypeOK, Halt

LEMMA StackStep ==
  ASSUME TypeOK, stack' \in Seq(Frames(Len(heap), Len(envs))),
         UNCHANGED <<prog, decl, envs, heap, flow, out, status>>
  PROVE  TypeOK'
BY DEF TypeOK

LEMMA EvalStep ==
  ASSUME TypeOK, stack # <<>>, NEW n \in NodeId, Eval(n) PROVE TypeOK'
<1>1. Push(n, Top.env) \in Seq(Frames(Len(heap), Len(envs)))
  BY TopType, PushType
<1> QED
  BY <1>1, StackStep DEF Eval

LEMMA YieldStep ==
  ASSUME TypeOK, stack # <<>>, NEW v \in Value(Len(heap)), Yield(v) PROVE TypeOK'
<1>1. Popped(v) \in Seq(Frames(Len(heap), Len(envs)))
  BY TopType, PoppedType
<1> QED
  BY <1>1, StackStep DEF Yield

LEMMA KeepStep ==
  ASSUME TypeOK, stack # <<>>, NEW v \in Value(Len(heap)), Keep(v) PROVE TypeOK'
<1>1. SetTop(Append(Top.vs, v)) \in Seq(Frames(Len(heap), Len(envs)))
  BY TopType, AppendProperties, SetTopType
<1> QED
  BY <1>1, StackStep DEF Keep

LEMMA FinishStep ==
  ASSUME TypeOK, stack # <<>>, NEW o \in Outcome(Len(heap)), Finish(o) PROVE TypeOK'
BY OutcomeCases, HaltStep, YieldStep DEF Finish

\* EXCEPT outside a sequence changes nothing.
LEMMA ExceptOutside ==
  ASSUME NEW S, NEW s \in Seq(S), NEW r, NEW x, r \notin 1 .. Len(s)
  PROVE  [s EXCEPT ![r] = x] = s
OBVIOUS

\* Storing to a cell leaves every array an array, even where there is no such cell.
LEMMA CellType ==
  ASSUME NEW m, heap \in Seq(Seq(Value(m))), NEW r, NEW c, NEW v \in Value(m)
  PROVE  /\ [heap EXCEPT ![r][c] = v] \in Seq(Seq(Value(m)))
         /\ Len([heap EXCEPT ![r][c] = v]) = Len(heap)
<1> DEFINE cells == [heap[r] EXCEPT ![c] = v]  h == [heap EXCEPT ![r] = cells]
<1>1. [heap EXCEPT ![r][c] = v] = h
  OBVIOUS
<1>2. CASE r \in 1 .. Len(heap)
  <2>1. heap[r] \in Seq(Value(m))
    BY <1>2
  <2>2. cells \in Seq(Value(m))
    <3>1. CASE c \in 1 .. Len(heap[r])
      BY <2>1, <3>1, ExceptSeq
    <3>2. CASE c \notin 1 .. Len(heap[r])
      BY <2>1, <3>2, ExceptOutside
    <3> QED
      BY <3>1, <3>2
  <2> HIDE DEF cells
  <2>3. h \in Seq(Seq(Value(m))) /\ Len(h) = Len(heap)
    BY <1>2, <2>2, ExceptSeq
  <2> QED
    BY <1>1, <2>3
<1>3. CASE r \notin 1 .. Len(heap)
  <2> HIDE DEF cells
  <2>1. h = heap
    BY <1>3, ExceptOutside
  <2> QED
    BY <1>1, <2>1
<1> QED
  BY <1>2, <1>3

LEMMA SetCellStep ==
  ASSUME TypeOK, stack # <<>>, NEW r, NEW c, NEW v \in Value(Len(heap)),
         NEW w \in Value(Len(heap)), SetCell(r, c, v, w)
  PROVE  TypeOK'
<1> DEFINE d == c + 1  h == [heap EXCEPT ![r][d] = v]
<1> HIDE DEF d
<1>1. h \in Seq(Seq(Value(Len(heap)))) /\ Len(h) = Len(heap)
  BY CellType, TypeParts
<1>2. heap' = h
  BY DEF SetCell, d
<1> HIDE DEF h
<1>3. stack' \in Seq(Frames(Len(heap), Len(envs)))
  BY TypeParts, PoppedType DEF SetCell
<1> QED
  BY <1>1, <1>2, <1>3 DEF SetCell, TypeOK

LEMMA OwnerType ==
  ASSUME TypeOK, NEW e \in 1 .. Len(envs), NEW x \in Name, NEW o \in Owner(e, x)
  PROVE  o \in 1 .. Len(envs) /\ envs[o].vars[x].v \in Value(Len(heap))
<1>1. envs[e] \in Environments(Len(heap), Len(envs))
  BY TypeParts
<1>2. envs[e].chain \in Seq(1 .. Len(envs))
  BY <1>1 DEF Environments
<1>3. o \in 1 .. Len(envs)
  BY <1>2 DEF Owner
<1>4. envs[o] \in Environments(Len(heap), Len(envs))
  BY <1>3, TypeParts
<1> QED
  BY <1>3, <1>4 DEF Environments

\* Giving a variable of an environment a value, and its declaration, keeps its type.
LEMMA BindType ==
  ASSUME NEW m, NEW e, NEW en \in Environments(m, e), NEW x \in Name,
         NEW b \in [v: Value(m), d: {0} \cup NodeId]
  PROVE  [en EXCEPT !.vars[x] = b] \in Environments(m, e)
<1>1. [en.vars EXCEPT ![x] = b] \in [Name -> [v: Value(m), d: {0} \cup NodeId]]
  BY DEF Environments
<1> QED
  BY <1>1 DEF Environments

LEMMA SetVarStep ==
  ASSUME TypeOK, stack # <<>>, NEW x \in Name, NEW v \in Value(Len(heap)),
         NEW w \in Value(Len(heap)), SetVar(x, v, w)
  PROVE  TypeOK'
<1>1. CASE Owner(Top.env, x) = {}
  BY <1>1, HaltStep DEF SetVar
<1>2. CASE Owner(Top.env, x) # {}
  <2>1. PICK o \in Owner(Top.env, x) : envs' = [envs EXCEPT ![o].vars[x].v = v]
    BY <1>2 DEF SetVar
  <2>2. o \in 1 .. Len(envs) /\ envs[o] \in Environments(Len(heap), Len(envs))
    BY OwnerType, TopType, TypeParts
  <2> DEFINE b  == [envs[o].vars[x] EXCEPT !.v = v]
             en == [envs[o] EXCEPT !.vars[x] = b]
  <2>3. b \in [v: Value(Len(heap)), d: {0} \cup NodeId]
    BY <2>2 DEF Environments
  <2>4. envs' = [envs EXCEPT ![o] = en]
    BY <2>1
  <2> HIDE DEF b
  <2>5. en \in Environments(Len(heap), Len(envs))
    BY <2>2, <2>3, BindType
  <2> HIDE DEF en
  <2>6. envs' \in Seq(Environments(Len(heap), Len(envs))) /\ Len(envs') = Len(envs)
    BY <2>2, <2>4, <2>5, TypeParts, ExceptSeq
  <2>7. stack' \in Seq(Frames(Len(heap), Len(envs)))
    BY <1>2, TypeParts, PoppedType DEF SetVar
  <2> QED
    BY <1>2, <2>6, <2>7 DEF SetVar, TypeOK
<1> QED
  BY <1>1, <1>2

\* A new scope: one more environment, whose chain is its own, then its parent's.
LEMMA ChildType ==
  ASSUME NEW m \in Nat, NEW es, Len(es) \in Nat, es \in Seq(Environments(m, Len(es))),
         NEW e \in 1 .. Len(es)
  PROVE  /\ Child(es, e) \in Seq(Environments(m, Len(es) + 1))
         /\ Len(Child(es, e)) = Len(es) + 1
<1> DEFINE k == Len(es) + 1
           new == [vars |-> Empty, chain |-> <<k>> \o es[e].chain]
<1>1. es \in Seq(Environments(m, k))
  BY EnvironmentsMono
<1>2. es[e] \in Environments(m, Len(es))
  OBVIOUS
<1>3. es[e].chain \in Seq(1 .. k)
  <2>1. es[e].chain \in Seq(1 .. Len(es))
    BY <1>2 DEF Environments
  <2> QED
    BY <2>1, SeqMono
<1>4. <<k>> \in Seq(1 .. k)
  OBVIOUS
<1>5. <<k>> \o es[e].chain \in Seq(1 .. k)
  BY <1>3, <1>4, ConcatProperties
<1>6. Empty \in [Name -> [v: Value(m), d: {0} \cup NodeId]]
  BY DEF Empty, Unbound, Value, Scalar, VoidV
<1>7. new \in Environments(m, k)
  BY <1>5, <1>6 DEF Environments
<1> HIDE DEF new
<1>8. Append(es, new) \in Seq(Environments(m, k)) /\ Len(Append(es, new)) = k
  BY <1>1, <1>7, AppendProperties
<1> QED
  BY <1>8 DEF Child, new

\* Pushing a frame over environments of which some are new.
LEMMA EnterStep ==
  ASSUME TypeOK, NEW n \in NodeId, NEW ev \in 1 .. Len(envs'), Len(envs') \in Nat,
         Len(envs) <= Len(envs'), envs' \in Seq(Environments(Len(heap), Len(envs'))),
         stack' = Push(n, ev), UNCHANGED <<prog, decl, heap, flow, out, status>>
  PROVE  TypeOK'
<1>1. stack \in Seq(Frames(Len(heap), Len(envs')))
  BY TypeParts, FramesMono
<1>2. stack' \in Seq(Frames(Len(heap), Len(envs')))
  BY <1>1, PushType
<1>3. envs' # <<>>
  BY TypeParts
<1> QED
  BY <1>2, <1>3 DEF TypeOK

LEMMA ExecStep ==
  ASSUME TypeOK, NEW n \in NodeId, NEW e \in 1 .. Len(envs), Exec(n, e) PROVE TypeOK'
<1>1. CASE Nodes[n].k \in {"Block", "For"}
  <2>1. /\ envs' = Child(envs, e) /\ stack' = Push(n, Len(envs) + 1)
        /\ UNCHANGED <<prog, decl, heap, flow, out, status>>
    BY <1>1 DEF Exec
  <2>2. envs' \in Seq(Environments(Len(heap), Len(envs) + 1)) /\ Len(envs') = Len(envs) + 1
    BY <2>1, TypeParts, ChildType
  <2> QED
    BY <2>1, <2>2, TypeParts, EnterStep
<1>2. CASE Nodes[n].k \notin {"Block", "For"}
  <2>1. /\ envs' = envs /\ stack' = Push(n, e)
        /\ UNCHANGED <<prog, decl, heap, flow, out, status>>
    BY <1>2 DEF Exec
  <2> QED
    BY <2>1, TypeParts, EnterStep
<1> QED
  BY <1>1, <1>2

LEMMA ExecScopedStep ==
  ASSUME TypeOK, stack # <<>>, NEW n \in NodeId, ExecScoped(n) PROVE TypeOK'
<1> DEFINE es == Child(envs, Top.env)
<1>1. CASE Nodes[n].k = "Block"
  BY <1>1, TopType, ExecStep DEF ExecScoped
<1>2. CASE Nodes[n].k # "Block"
  <2>1. es \in Seq(Environments(Len(heap), Len(es))) /\ Len(es) = Len(envs) + 1
    BY TopType, TypeParts, ChildType
  <2>2. /\ envs' = IF Nodes[n].k = "For" THEN Child(es, Len(es)) ELSE es
        /\ stack' = Push(n, Len(envs'))
        /\ UNCHANGED <<prog, decl, heap, flow, out, status>>
    BY <1>2 DEF ExecScoped
  <2> HIDE DEF es
  <2>3. Child(es, Len(es)) \in Seq(Environments(Len(heap), Len(es) + 1))
        /\ Len(Child(es, Len(es))) = Len(es) + 1
    BY <2>1, TypeParts, ChildType
  <2>4. /\ envs' \in Seq(Environments(Len(heap), Len(envs')))
        /\ Len(envs') \in Nat \ {0} /\ Len(envs) <= Len(envs')
    <3>1. CASE Nodes[n].k = "For"
      BY <2>1, <2>2, <2>3, <3>1, TypeParts
    <3>2. CASE Nodes[n].k # "For"
      BY <2>1, <2>2, <3>2, TypeParts
    <3> QED
      BY <3>1, <3>2
  <2>5. Len(envs') \in 1 .. Len(envs')
    BY <2>4
  <2> QED
    BY <2>2, <2>4, <2>5, EnterStep
<1> QED
  BY <1>1, <1>2

\* A condition that is no bool is a panic; both of its sides keep the types.
LEMMA HaltPanic == ASSUME TypeOK, Halt("panic") PROVE TypeOK'
BY HaltStep

\* The function a call reaches, and the environment its parameters are bound in.
LEMMA CallStep ==
  ASSUME TypeOK, NEW f, NEW args \in Seq(Value(Len(heap))),
         NEW st \in Seq(Frames(Len(heap), Len(envs))), CallFunction(f, args, st),
         decl' \in 1 .. Len(prog) + 2
  PROVE  TypeOK'
<1>1. CASE Functions(f) = {}
  BY <1>1, HaltStep DEF CallFunction
<1>2. CASE Functions(f) # {}
  <2>1. PICK d \in Functions(f) :
          /\ envs' = [Child(envs, Globals) EXCEPT
                        ![Len(envs) + 1].vars = Bind(Nodes[d].params, args)]
          /\ stack' = Append(st, Frame(d, Len(envs) + 1))
    BY <1>2 DEF CallFunction, CalleeParent
  <2>2. UNCHANGED <<prog, heap, flow, out, status>>
    BY <1>2 DEF CallFunction
  <2> DEFINE k == Len(envs) + 1  es == Child(envs, Globals)  ps == Nodes[d].params
  <2>3. d \in NodeId
    <3>1. prog \in Seq(NodeId)
      BY ProgramAssumption DEF TypeOK
    <3> QED
      BY <3>1 DEF Functions
  <2>4. es \in Seq(Environments(Len(heap), k)) /\ Len(es) = k /\ k \in 1 .. Len(es)
    BY TypeParts, ChildType
  <2>5. Bind(ps, args) \in [Name -> [v: Value(Len(heap)), d: {0} \cup NodeId]]
    <3>1. ps \in Seq(NodeId)
      BY <2>3, NodeType
    <3>2. ASSUME NEW x \in Name, ArgOf(ps, args, x) # {}
          PROVE  LET j == CHOOSE j \in ArgOf(ps, args, x) : TRUE
                 IN  args[j] \in Value(Len(heap)) /\ ps[j] \in NodeId
      <4> DEFINE j == CHOOSE j \in ArgOf(ps, args, x) : TRUE
      <4>1. j \in ArgOf(ps, args, x)
        BY <3>2
      <4>2. j \in DOMAIN ps /\ j \in DOMAIN args
        BY <4>1 DEF ArgOf
      <4> HIDE DEF j
      <4>3. args[j] \in Value(Len(heap)) /\ ps[j] \in NodeId
        BY <3>1, <4>2
      <4> QED
        BY <4>3 DEF j
    <3>3. VoidV \in Value(Len(heap))
      BY DEF Value, Scalar
    <3> HIDE DEF ps
    <3> QED
      BY <3>2, <3>3 DEF Bind, Unbound
  <2> DEFINE en == [es[k] EXCEPT !.vars = Bind(ps, args)]
  <2>6. es[k] \in Environments(Len(heap), k)
    BY <2>4
  <2>7. en \in Environments(Len(heap), k)
    BY <2>5, <2>6 DEF Environments
  <2>8. envs' = [es EXCEPT ![k] = en]
    BY <2>1
  <2> HIDE DEF en, es
  <2>9. envs' \in Seq(Environments(Len(heap), k)) /\ Len(envs') = k
    BY <2>4, <2>7, <2>8, ExceptSeq
  <2>10. stack' \in Seq(Frames(Len(heap), k))
    <3>1. st \in Seq(Frames(Len(heap), k))
      BY TypeParts, FramesMono
    <3>2. Frame(d, k) \in Frames(Len(heap), k)
      BY <2>3, <2>4, FrameType
    <3> QED
      BY <2>1, <3>1, <3>2, AppendProperties
  <2>11. envs' # <<>>
    BY <2>4, <2>9
  <2> QED
    BY <2>2, <2>9, <2>10, <2>11 DEF TypeOK
<1> QED
  BY <1>1, <1>2

(***************************************************************************)
(* Each action keeps the types.                                            *)
(***************************************************************************)
\* What a node that is ready has: as many values as it has operands.
LEMMA ReadyType ==
  ASSUME TypeOK, NEW k, Ready(k)
  PROVE  /\ stack # <<>> /\ Here.k = k
         /\ \A j \in 1 .. Len(Operands(Here)) : Top.vs[j] \in Value(Len(heap))
         /\ Len(Top.vs) = Len(Operands(Here))
BY TopType DEF Ready, At, Running, Done

LEMMA OperandsType ==
  ASSUME NEW n \in NodeId PROVE Operands(Nodes[n]) \in Seq(NodeId \cup {Slot})
<1>1. Nodes[n].k # "CompoundAssign" => Operands(Nodes[n]) \in Seq(NodeId)
  BY AssignOperands, IncDecOperands, OtherOperands
<1>2. Seq(NodeId) \subseteq Seq(NodeId \cup {Slot})
  BY SeqMono
<1> QED
  BY <1>1, <1>2, CompoundOperands

LEMMA EvalOperandType == ASSUME TypeOK, EvalOperand PROVE TypeOK'
<1> DEFINE ops == Operands(Here)
<1>1. stack # <<>> /\ Done < Len(ops) /\ ops[Done + 1] # Slot /\ Eval(ops[Done + 1])
  BY DEF EvalOperand, Running
<1>2. Done \in Nat
  BY <1>1, TopType DEF Done
<1>3. ops \in Seq(NodeId \cup {Slot})
  BY <1>1, TopType, OperandsType DEF Here
<1> HIDE DEF ops
<1>4. Done + 1 \in 1 .. Len(ops)
  BY <1>1, <1>2, <1>3
<1>5. ops[Done + 1] \in NodeId
  BY <1>1, <1>3, <1>4
<1> QED
  BY <1>1, <1>5, EvalStep

LEMMA EvalLiteralType == ASSUME TypeOK, EvalLiteral PROVE TypeOK'
<1>1. stack # <<>> /\ Yield(Here.lit)
  BY DEF EvalLiteral, At, Running
<1>2. Here.lit \in Value(Len(heap))
  BY <1>1, TopType DEF Value
<1> QED
  BY <1>1, <1>2, YieldStep

LEMMA EvalIdentType == ASSUME TypeOK, EvalIdent PROVE TypeOK'
<1>1. stack # <<>>
  BY DEF EvalIdent, At, Running
<1>2. CASE Owner(Top.env, Here.name) = {}
  BY <1>2, HaltPanic DEF EvalIdent
<1>3. CASE Owner(Top.env, Here.name) # {}
  <2>1. PICK o \in Owner(Top.env, Here.name) : Yield(envs[o].vars[Here.name].v)
    BY <1>3 DEF EvalIdent
  <2>2. envs[o].vars[Here.name].v \in Value(Len(heap))
    BY <1>1, TopType, OwnerType
  <2> QED
    BY <1>1, <2>1, <2>2, YieldStep
<1> QED
  BY <1>2, <1>3

LEMMA EvalBinaryType == ASSUME TypeOK, EvalBinary PROVE TypeOK'
<1>1. Ready("Binary")
  BY DEF EvalBinary
<1>2. Len(Operands(Here)) = 2
  BY <1>1, ReadyType, TopType, OtherOperands DEF Here
<1>3. ApplyBinaryOp(heap, Here.op, Top.vs[1], Top.vs[2]) \in Outcome(Len(heap))
  BY <1>1, <1>2, ReadyType, BinaryOpType
<1> QED
  BY <1>1, <1>3, ReadyType, FinishStep DEF EvalBinary

LEMMA EvalUnaryType == ASSUME TypeOK, EvalUnary PROVE TypeOK'
<1>1. Ready("Unary")
  BY DEF EvalUnary
<1>2. Len(Operands(Here)) = 1
  BY <1>1, ReadyType, TopType, OtherOperands DEF Here
<1>3. ApplyUnary(Here.op, Top.vs[1]) \in Outcome(Len(heap))
  BY <1>1, <1>2, ReadyType, UnaryType
<1> QED
  BY <1>1, <1>3, ReadyType, FinishStep DEF EvalUnary

LEMMA BoolValue == ASSUME NEW m, NEW b \in BOOLEAN PROVE BoolV(b) \in Value(m)
BY DEF BoolV, Value, Scalar

LEMMA EvalShortCircuitType == ASSUME TypeOK, EvalShortCircuit PROVE TypeOK'
<1>1. stack # <<>> /\ Here.k = "Binary"
  BY DEF EvalShortCircuit, At, Running
<1>2. Here.kids[1] \in NodeId /\ Here.kids[2] \in NodeId
  BY <1>1, TopType DEF Shape
<1>3. \/ Eval(Here.kids[1]) \/ Eval(Here.kids[2]) \/ Halt("panic")
      \/ Yield(BoolV(TRUE)) \/ Yield(BoolV(FALSE))
  BY DEF EvalShortCircuit, Branch
<1> QED
  BY <1>1, <1>2, <1>3, EvalStep, HaltPanic, YieldStep, BoolValue

LEMMA EvalTernaryType == ASSUME TypeOK, EvalTernary PROVE TypeOK'
<1>1. stack # <<>> /\ Here.k = "Ternary"
  BY DEF EvalTernary, At, Running
<1>2. \A j \in 1 .. 3 : Here.kids[j] \in NodeId
  BY <1>1, TopType DEF Shape
<1>3. CASE Done = 0 \/ Done = 1
  <2>1. Halt("panic") \/ \E j \in 1 .. 3 : Eval(Here.kids[j])
    BY <1>3 DEF EvalTernary, Branch
  <2> QED
    BY <1>1, <1>2, <2>1, EvalStep, HaltPanic
<1>4. CASE Done # 0 /\ Done # 1
  <2>1. Yield(Top.vs[2])
    BY <1>4 DEF EvalTernary
  <2>2. Done \in Nat
    BY <1>1, TopType DEF Done
  <2>3. 2 \in 1 .. Done
    BY <1>4, <2>2
  <2>4. Top.vs[2] \in Value(Len(heap))
    BY <1>1, <2>3, TopType DEF Done
  <2> QED
    BY <1>1, <2>1, <2>4, YieldStep
<1> QED
  BY <1>3, <1>4

LEMMA EvalAssignType == ASSUME TypeOK, EvalAssign PROVE TypeOK'
<1>1. Ready("Assign") /\ stack # <<>> /\ Here.k = "Assign"
  BY ReadyType DEF EvalAssign
<1>2. Len(Operands(Here)) = IF TargetKind(Here) = "Index" THEN 3 ELSE 1
  BY <1>1, TopType, AssignOperands DEF Here
<1>3. Top.vs[1] \in Value(Len(heap))
  BY <1>1, <1>2, ReadyType
<1>4. Nodes[Here.kids[1]].name \in Name
  BY <1>1, TopType, TargetType, NodeType DEF Here
<1>5. \/ SetVar(Nodes[Here.kids[1]].name, Top.vs[1], Top.vs[1])
      \/ SetCell(Top.vs[2].r, Top.vs[3].i, Top.vs[1], Top.vs[1])
      \/ Halt("panic") \/ Halt("IndexOutOfBounds")
  BY DEF EvalAssign, OnCell
<1> QED
  BY <1>1, <1>3, <1>4, <1>5, SetVarStep, SetCellStep, HaltStep DEF RuntimeError

LEMMA LoadSlotType == ASSUME TypeOK, LoadSlot PROVE TypeOK'
<1> DEFINE x == Nodes[Here.kids[1]].name  ops == Operands(Here)  m == Len(heap)
<1>1. stack # <<>> /\ Here.k = "CompoundAssign" /\ Done < Len(ops) /\ ops[Done + 1] = Slot
  BY DEF LoadSlot, At, Running
<1>2. x \in Name
  BY <1>1, TopType, TargetType, NodeType DEF Here
<1>3. CASE TargetKind(Here) = "Ident"
  <2>1. CASE Owner(Top.env, x) = {}
    BY <1>3, <2>1, HaltPanic DEF LoadSlot
  <2>2. CASE Owner(Top.env, x) # {}
    <3>1. PICK o \in Owner(Top.env, x) : Keep(envs[o].vars[x].v)
      BY <1>3, <2>2 DEF LoadSlot
    <3>2. envs[o].vars[x].v \in Value(m)
      BY <1>1, <1>2, TopType, OwnerType
    <3> QED
      BY <1>1, <3>1, <3>2, KeepStep
  <2> QED
    BY <2>1, <2>2
<1>4. CASE TargetKind(Here) = "Index"
  <2> DEFINE a == Top.vs[1]  i == Top.vs[2]
  <2>1. \/ Halt("panic") \/ Halt("IndexOutOfBounds")
        \/ /\ a.k = "Array" /\ i.k = "Int" /\ InBounds(i.i, a.r)
           /\ Keep(heap[a.r][i.i + 1])
    BY <1>4 DEF LoadSlot, OnCell
  <2>2. ASSUME a.k = "Array", i.k = "Int", InBounds(i.i, a.r)
        PROVE  heap[a.r][i.i + 1] \in Value(m)
    <3>1. Done = 2
      <4>1. Done \in Nat
        BY <1>1, TopType DEF Done
      <4>2. ops \in Seq(NodeId \cup {Slot}) /\ Len(ops) = 4 /\ ops[1] # Slot /\ ops[2] # Slot
            /\ ops[4] # Slot
        BY <1>1, <1>4, TopType, CompoundOperands DEF Here
      <4>3. Done \in 0 .. 3 /\ ops[Done + 1] = Slot
        BY <1>1, <4>1, <4>2
      <4> HIDE DEF ops
      <4> QED
        BY <4>2, <4>3
    <3>2. a \in Value(m) /\ i \in Value(m)
      BY <1>1, <3>1, TopType DEF Done
    <3>3. a.r \in 1 .. m
      BY <2>2, <3>2, ValueCases
    <3>4. heap[a.r] \in Seq(Value(m))
      BY <3>3, TypeParts
    <3>5. i.i + 1 \in 1 .. Len(heap[a.r])
      BY <2>2, <3>4 DEF InBounds
    <3> QED
      BY <3>4, <3>5
  <2> QED
    BY <1>1, <2>1, <2>2, HaltStep, KeepStep DEF RuntimeError
<1>5. CASE TargetKind(Here) \notin {"Ident", "Index"}
  BY <1>5, HaltPanic DEF LoadSlot
<1> QED
  BY <1>3, <1>4, <1>5

LEMMA EvalCompoundAssignType == ASSUME TypeOK, EvalCompoundAssign PROVE TypeOK'
<1> DEFINE new == ApplyBinaryOp(heap, Here.op, Top.vs[Done - 1], Top.vs[Done])
           m == Len(heap)
<1>1. Ready("CompoundAssign") /\ stack # <<>> /\ Here.k = "CompoundAssign"
  BY ReadyType DEF EvalCompoundAssign
<1>2. Done = Len(Operands(Here)) /\ (Done = 2 \/ Done = 4)
  BY <1>1, TopType, CompoundOperands DEF Here, Ready
<1>3. Top.vs[Done - 1] \in Value(m) /\ Top.vs[Done] \in Value(m)
  <2>1. Done - 1 \in 1 .. Len(Operands(Here)) /\ Done \in 1 .. Len(Operands(Here))
    BY <1>2
  <2> QED
    BY <1>1, <2>1, ReadyType
<1>4. new \in Outcome(m)
  BY <1>3, BinaryOpType
<1>5. Nodes[Here.kids[1]].name \in Name
  BY <1>1, TopType, TargetType, NodeType DEF Here
<1>6. CASE new.k = "Fail"
  <2>1. Halt(new.e)
    BY <1>6 DEF EvalCompoundAssign
  <2> HIDE DEF new
  <2> QED
    BY <1>4, <1>6, <2>1, OutcomeCases, HaltStep
<1>7. CASE new.k # "Fail" /\ TargetKind(Here) = "Ident"
  <2>1. SetVar(Nodes[Here.kids[1]].name, new, new)
    BY <1>7 DEF EvalCompoundAssign
  <2> HIDE DEF new
  <2> QED
    BY <1>1, <1>4, <1>5, <1>7, <2>1, OutcomeCases, SetVarStep
<1>8. CASE new.k # "Fail" /\ TargetKind(Here) # "Ident"
  <2>1. SetCell(Top.vs[1].r, Top.vs[2].i, new, new)
    BY <1>8 DEF EvalCompoundAssign
  <2> HIDE DEF new
  <2> QED
    BY <1>1, <1>4, <1>8, <2>1, OutcomeCases, SetCellStep
<1> QED
  BY <1>6, <1>7, <1>8

\* The cell that an array and an index name, when both are what they should be.
LEMMA CellRead ==
  ASSUME TypeOK, NEW a \in Value(Len(heap)), NEW i \in Value(Len(heap)),
         a.k = "Array", i.k = "Int", InBounds(i.i, a.r)
  PROVE  heap[a.r][i.i + 1] \in Value(Len(heap))
<1>1. a.r \in 1 .. Len(heap)
  BY ValueCases
<1>2. heap[a.r] \in Seq(Value(Len(heap)))
  BY <1>1, TypeParts
<1>3. i.i + 1 \in 1 .. Len(heap[a.r])
  BY <1>2 DEF InBounds
<1> QED
  BY <1>2, <1>3

LEMMA EvalIncDecType == ASSUME TypeOK, EvalIncDec PROVE TypeOK'
<1> DEFINE x == Nodes[Here.kids[1]].name  m == Len(heap)
<1>1. Ready("IncDec") /\ stack # <<>> /\ Here.k = "IncDec"
  BY ReadyType DEF EvalIncDec
<1>2. x \in Name
  BY <1>1, TopType, TargetType, NodeType DEF Here
<1>3. CASE TargetKind(Here) = "Ident"
  <2>1. CASE Owner(Top.env, x) = {}
    BY <1>3, <2>1, HaltPanic DEF EvalIncDec
  <2>2. CASE Owner(Top.env, x) # {}
    <3>1. PICK o \in Owner(Top.env, x) :
            LET old == envs[o].vars[x].v  new == ApplyIncDec(Here.op, old)
            IN  IF new.k = "Fail" THEN Halt(new.e) ELSE SetVar(x, new, IncDecResult(old, new))
      BY <1>3, <2>2 DEF EvalIncDec
    <3> DEFINE old == envs[o].vars[x].v  new == ApplyIncDec(Here.op, old)
    <3>2. old \in Value(m)
      BY <1>1, <1>2, TopType, OwnerType
    <3>3. new \in Outcome(m)
      BY <3>2, IncDecType
    <3> HIDE DEF new, old
    <3>4. IncDecResult(old, new) = old \/ IncDecResult(old, new) = new
      BY DEF IncDecResult
    <3>5. IF new.k = "Fail" THEN Halt(new.e) ELSE SetVar(x, new, IncDecResult(old, new))
      BY <3>1 DEF old, new
    <3> HIDE DEF x
    <3> QED
      BY <1>1, <1>2, <3>2, <3>3, <3>4, <3>5, OutcomeCases, HaltStep, SetVarStep
  <2> QED
    BY <2>1, <2>2
<1>4. CASE TargetKind(Here) = "Index"
  <2> DEFINE a == Top.vs[1]  i == Top.vs[2]
             old == heap[a.r][i.i + 1]  new == ApplyIncDec(Here.op, old)
  <2>1. \/ Halt("panic") \/ Halt("IndexOutOfBounds")
        \/ /\ a.k = "Array" /\ i.k = "Int" /\ InBounds(i.i, a.r)
           /\ IF new.k = "Fail" THEN Halt(new.e)
              ELSE SetCell(a.r, i.i, new, IncDecResult(old, new))
    BY <1>4 DEF EvalIncDec, OnCell
  <2>2. a \in Value(m) /\ i \in Value(m)
    <3>1. Len(Operands(Here)) = 2
      BY <1>1, <1>4, TopType, IncDecOperands DEF Here
    <3> QED
      BY <1>1, <3>1, ReadyType
  <2>3. ASSUME a.k = "Array", i.k = "Int", InBounds(i.i, a.r),
               IF new.k = "Fail" THEN Halt(new.e)
               ELSE SetCell(a.r, i.i, new, IncDecResult(old, new))
        PROVE  TypeOK'
    <3>1. old \in Value(m)
      BY <2>2, <2>3, CellRead
    <3>2. new \in Outcome(m)
      BY <3>1, IncDecType
    <3> HIDE DEF new, old
    <3>3. IncDecResult(old, new) = old \/ IncDecResult(old, new) = new
      BY DEF IncDecResult
    <3> QED
      BY <1>1, <2>3, <3>1, <3>2, <3>3, OutcomeCases, HaltStep, SetCellStep
  <2> QED
    BY <2>1, <2>3, HaltStep DEF RuntimeError
<1>5. CASE TargetKind(Here) \notin {"Ident", "Index"}
  BY <1>5, HaltPanic DEF EvalIncDec
<1> QED
  BY <1>3, <1>4, <1>5

LEMMA EvalIndexType == ASSUME TypeOK, EvalIndex PROVE TypeOK'
<1> DEFINE a == Top.vs[1]  i == Top.vs[2]
<1>1. Ready("Index") /\ stack # <<>> /\ Here.k = "Index"
  BY ReadyType DEF EvalIndex
<1>2. a \in Value(Len(heap)) /\ i \in Value(Len(heap))
  <2>1. Len(Operands(Here)) = 2
    BY <1>1, TopType, OtherOperands DEF Here
  <2> QED
    BY <1>1, <2>1, ReadyType
<1>3. \/ Halt("panic") \/ Halt("IndexOutOfBounds")
      \/ /\ a.k = "Array" /\ i.k = "Int" /\ InBounds(i.i, a.r)
         /\ Yield(heap[a.r][i.i + 1])
  BY DEF EvalIndex, OnCell
<1> QED
  BY <1>1, <1>2, <1>3, CellRead, HaltStep, YieldStep DEF RuntimeError

LEMMA EvalFieldAccessType == ASSUME TypeOK, EvalFieldAccess PROVE TypeOK'
<1> DEFINE v == Top.vs[1]  m == Len(heap)
           o == IF Here.name # "length" THEN Panic
                ELSE IF v.k = "Array" THEN IntV(Wrap(Len(heap[v.r]))) ELSE StringLength(<<v>>)
<1>1. Ready("FieldAccess") /\ stack # <<>> /\ Here.k = "FieldAccess"
  BY ReadyType DEF EvalFieldAccess
<1>2. v \in Value(m)
  <2>1. Len(Operands(Here)) = 1
    BY <1>1, TopType, OtherOperands DEF Here
  <2> QED
    BY <1>1, <2>1, ReadyType
<1>3. v.k = "Array" => IntV(Wrap(Len(heap[v.r]))) \in Outcome(m)
  <2> SUFFICES ASSUME v.k = "Array" PROVE IntV(Wrap(Len(heap[v.r]))) \in Outcome(m)
    OBVIOUS
  <2>1. v.r \in 1 .. m
    BY <1>2, ValueCases
  <2>2. Len(heap[v.r]) \in Int
    BY <2>1, TypeParts
  <2> QED
    BY <2>2, WrapInInt64, IntIsValue
<1>4. StringLength(<<v>>) \in Outcome(m)
  BY <1>2, StringLengthType
<1>5. o \in Outcome(m)
  BY <1>3, <1>4, PanicIsOutcome
<1>6. Finish(o)
  BY DEF EvalFieldAccess
<1> HIDE DEF o
<1> QED
  BY <1>1, <1>5, <1>6, FinishStep

\* Returning a value when arrays have been made and a variable defined.
LEMMA ReturnStep ==
  ASSUME TypeOK, stack # <<>>, Len(heap') \in Nat, Len(heap) <= Len(heap'),
         heap' \in Seq(Seq(Value(Len(heap')))),
         envs' \in Seq(Environments(Len(heap'), Len(envs))), Len(envs') = Len(envs),
         NEW v \in Value(Len(heap')), stack' = Popped(v),
         UNCHANGED <<prog, decl, flow, out, status>>
  PROVE  TypeOK'
<1>1. stack \in Seq(Frames(Len(heap'), Len(envs)))
  BY TypeParts, FramesMono
<1>2. stack' \in Seq(Frames(Len(heap'), Len(envs')))
  BY <1>1, PoppedType
<1>3. flow' \in [k: {"Normal", "Return"}, v: Value(Len(heap'))]
  <2>1. Value(Len(heap)) \subseteq Value(Len(heap'))
    BY TypeParts, ValueMono
  <2> QED
    BY <2>1 DEF TypeOK
<1>4. envs' # <<>>
  BY TypeParts
<1> QED
  BY <1>2, <1>3, <1>4 DEF TypeOK

LEMMA AllocateType ==
  ASSUME NEW h, Len(h) \in Nat, h \in Seq(Seq(Value(Len(h)))), NEW cells \in Seq(Value(Len(h)))
  PROVE  /\ Append(h, cells) \in Seq(Seq(Value(Len(h) + 1)))
         /\ Len(Append(h, cells)) = Len(h) + 1
         /\ ArrV(Len(h) + 1) \in Value(Len(h) + 1)
<1> DEFINE m == Len(h) + 1
<1>1. m \in Nat /\ Len(h) <= m
  OBVIOUS
<1>2. h \in Seq(Seq(Value(m))) /\ cells \in Seq(Value(m))
  BY <1>1, HeapMono, ValueMono, SeqMono
<1>3. ArrV(m) \in Value(m)
  BY <1>1 DEF ArrV, Value
<1> QED
  BY <1>2, <1>3, AppendProperties

LEMMA EvalArrayLiteralType == ASSUME TypeOK, EvalArrayLiteral PROVE TypeOK'
<1>1. stack # <<>> /\ Ready("ArrayLiteral")
  BY ReadyType DEF EvalArrayLiteral
<1>2. /\ heap' = Append(heap, Top.vs) /\ stack' = Popped(ArrV(Len(heap) + 1))
      /\ UNCHANGED <<prog, decl, envs, flow, out, status>>
  BY DEF EvalArrayLiteral
<1>3. /\ heap' \in Seq(Seq(Value(Len(heap) + 1))) /\ Len(heap') = Len(heap) + 1
      /\ ArrV(Len(heap) + 1) \in Value(Len(heap) + 1)
  BY <1>1, <1>2, TopType, TypeParts, AllocateType
<1>4. envs' \in Seq(Environments(Len(heap'), Len(envs)))
  BY <1>2, <1>3, TypeParts, EnvironmentsMono
<1> QED
  BY <1>1, <1>2, <1>3, <1>4, TypeParts, ReturnStep

\* The default of a type is a value once its array, if it has one, has been made.
LEMMA DefaultType ==
  ASSUME TypeOK, NEW t \in Type
  PROVE  LET h == NewCells(t)
         IN  /\ h \in Seq(Seq(Value(Len(h)))) /\ Len(h) \in Nat /\ Len(heap) <= Len(h)
             /\ Default(t) \in Value(Len(h))
<1>1. CASE IsArray(t)
  <2>1. <<>> \in Seq(Value(Len(heap)))
    OBVIOUS
  <2>2. /\ Append(heap, <<>>) \in Seq(Seq(Value(Len(heap) + 1)))
        /\ Len(Append(heap, <<>>)) = Len(heap) + 1
        /\ ArrV(Len(heap) + 1) \in Value(Len(heap) + 1)
    BY <2>1, TypeParts, AllocateType
  <2>3. NewCells(t) = Append(heap, <<>>) /\ Default(t) = ArrV(Len(heap) + 1)
    BY <1>1 DEF NewCells, Default
  <2> QED
    BY <2>2, <2>3, TypeParts
<1>2. CASE ~IsArray(t)
  <2>1. NewCells(t) = heap
    BY <1>2 DEF NewCells
  <2>2. Default(t) \in {IntV(0), FloatV(0), BoolV(FALSE), StrV(<<>>), VoidV}
    BY <1>2 DEF Default
  <2>3. {IntV(0), FloatV(0), BoolV(FALSE), StrV(<<>>), VoidV} \subseteq Value(Len(heap))
    <3>1. 0 \in Int64 /\ 0 \in Float
      BY IntFacts, FloatFacts
    <3> QED
      BY <3>1 DEF Value, Scalar, IntV, FloatV, BoolV, StrV
  <2>4. Default(t) \in Value(Len(heap))
    BY <2>2, <2>3
  <2> QED
    BY <2>1, <2>4, TypeParts
<1> QED
  BY <1>1, <1>2

LEMMA EvalArrayCreationType == ASSUME TypeOK, EvalArrayCreation PROVE TypeOK'
<1> DEFINE n == Top.vs[1]  h == NewCells(Here.ty)
           cells == [j \in 1 .. n.i |-> Default(Here.ty)]
<1>1. Ready("ArrayCreation") /\ stack # <<>> /\ Here.k = "ArrayCreation"
  BY ReadyType DEF EvalArrayCreation
<1>2. \/ Halt("panic") \/ Halt("NegativeArraySize")
      \/ /\ n.k = "Int" /\ ~(n.i < 0) /\ heap' = Append(h, cells)
         /\ stack' = Popped(ArrV(Len(h) + 1)) /\ UNCHANGED <<prog, decl, envs, flow, out, status>>
  BY DEF EvalArrayCreation
<1>3. ASSUME n.k = "Int", ~(n.i < 0), heap' = Append(h, cells),
             stack' = Popped(ArrV(Len(h) + 1)), UNCHANGED <<prog, decl, envs, flow, out, status>>
      PROVE  TypeOK'
  <2>1. n.i \in Nat
    <3>1. Len(Operands(Here)) = 1
      BY <1>1, TopType, OtherOperands DEF Here
    <3>2. n \in Value(Len(heap))
      BY <1>1, <3>1, ReadyType
    <3>3. n.i \in Int
      BY <1>3, <3>2, ValueCases, IntFacts
    <3> QED
      BY <1>3, <3>3
  <2>2. /\ h \in Seq(Seq(Value(Len(h)))) /\ Len(h) \in Nat /\ Len(heap) <= Len(h)
        /\ Default(Here.ty) \in Value(Len(h))
    BY <1>1, TopType, DefaultType
  <2> HIDE DEF h
  <2>3. cells \in Seq(Value(Len(h)))
    <3> DEFINE d == Default(Here.ty)  k == n.i
    <3>1. d \in Value(Len(h)) /\ k \in Nat
      BY <2>1, <2>2
    <3> HIDE DEF d, k
    <3>2. [j \in 1 .. k |-> d] \in Seq(Value(Len(h)))
      BY <3>1
    <3> QED
      BY <3>2 DEF d, k
  <2> HIDE DEF cells
  <2>4. /\ heap' \in Seq(Seq(Value(Len(h) + 1))) /\ Len(heap') = Len(h) + 1
        /\ ArrV(Len(h) + 1) \in Value(Len(h) + 1)
    BY <1>3, <2>2, <2>3, AllocateType
  <2>5. envs' \in Seq(Environments(Len(heap'), Len(envs)))
    BY <1>3, <2>2, <2>4, TypeParts, EnvironmentsMono
  <2> QED
    BY <1>1, <1>3, <2>2, <2>4, <2>5, TypeParts, ReturnStep
<1> QED
  BY <1>2, <1>3, HaltStep DEF RuntimeError

LEMMA EvalPrintType == ASSUME TypeOK, EvalPrint PROVE TypeOK'
<1>1. Ready("Call") /\ stack # <<>>
  BY ReadyType DEF EvalPrint
<1>2. CASE Done = 0
  BY <1>2, HaltPanic DEF EvalPrint
<1>3. CASE Done # 0
  <2>1. /\ out' = Append(out, Format(Top.vs[1])) /\ stack' = Popped(VoidV)
        /\ UNCHANGED <<prog, decl, envs, heap, flow, status>>
    BY <1>3 DEF EvalPrint
  <2>2. Done \in Nat
    BY <1>1, TopType DEF Done
  <2>3. 1 \in 1 .. Done
    BY <1>3, <2>2
  <2>4. Top.vs[1] \in Value(Len(heap))
    BY <1>1, <2>3, TopType DEF Done
  <2>5. out' \in Seq(Text)
    BY <2>1, <2>4, FormatType, AppendProperties DEF TypeOK
  <2>6. stack' \in Seq(Frames(Len(heap), Len(envs)))
    <3>1. VoidV \in Value(Len(heap))
      BY DEF Value, Scalar
    <3> QED
      BY <1>1, <2>1, <3>1, TypeParts, PoppedType
  <2> QED
    BY <2>1, <2>5, <2>6 DEF TypeOK
<1> QED
  BY <1>2, <1>3

LEMMA EvalBuiltinType == ASSUME TypeOK, EvalBuiltin PROVE TypeOK'
<1>1. /\ Ready("Call") /\ stack # <<>> /\ Here.name \in Builtin
      /\ Finish(ApplyBuiltin(Here.name, Top.vs))
  BY ReadyType DEF EvalBuiltin
<1>2. ApplyBuiltin(Here.name, Top.vs) \in Outcome(Len(heap))
  BY <1>1, TopType, BuiltinType
<1> QED
  BY <1>1, <1>2, FinishStep

LEMMA EvalCallType == ASSUME TypeOK, EvalCall PROVE TypeOK'
<1>1. stack # <<>> /\ CallFunction(Here.name, Top.vs, stack) /\ UNCHANGED decl
  BY ReadyType DEF EvalCall
<1>2. decl' \in 1 .. Len(prog) + 2
  BY <1>1 DEF TypeOK
<1> QED
  BY <1>1, <1>2, TopType, CallStep

LEMMA EndCallType == ASSUME TypeOK, EndCall PROVE TypeOK'
<1>1. stack # <<>> /\ Done > Len(Operands(Here)) /\ Yield(Top.vs[Done])
  BY DEF EndCall, At, Running
<1>2. Done \in Nat /\ Len(Operands(Here)) \in Nat
  BY <1>1, TopType, OperandsType DEF Done, Here
<1>3. Done \in 1 .. Done
  BY <1>1, <1>2
<1>4. Top.vs[Done] \in Value(Len(heap))
  BY <1>1, <1>3, TopType DEF Done
<1> QED
  BY <1>1, <1>4, YieldStep

LEMMA VoidValue == ASSUME NEW m PROVE VoidV \in Value(m)
BY DEF Value, Scalar

LEMMA ExecExprType == ASSUME TypeOK, ExecExpr PROVE TypeOK'
<1>1. stack # <<>> /\ Yield(VoidV)
  BY ReadyType DEF ExecExpr
<1> QED
  BY <1>1, VoidValue, YieldStep

LEMMA ExecVarDeclType == ASSUME TypeOK, ExecVarDecl PROVE TypeOK'
<1> DEFINE v == IF Done = 1 THEN Top.vs[1] ELSE Default(Here.ty)
           b == [v |-> v, d |-> Top.n]
           e == Top.env
           x == Nodes[Top.n].name
<1>1. Ready("VarDecl") /\ stack # <<>>
  BY ReadyType DEF ExecVarDecl
<1>2. /\ envs' = Define(Top.env, Top.n, v)
      /\ heap' = (IF Done = 1 THEN heap ELSE NewCells(Here.ty))
      /\ stack' = Popped(VoidV) /\ UNCHANGED <<prog, decl, flow, out, status>>
  BY DEF ExecVarDecl
<1>3. /\ heap' \in Seq(Seq(Value(Len(heap')))) /\ Len(heap') \in Nat /\ Len(heap) <= Len(heap')
      /\ v \in Value(Len(heap'))
  <2>1. CASE Done = 1
    <3>1. 1 \in 1 .. Done
      BY <2>1
    <3>2. Top.vs[1] \in Value(Len(heap))
      BY <1>1, <3>1, TopType DEF Done
    <3> QED
      BY <1>2, <2>1, <3>2, TypeParts
  <2>2. CASE Done # 1
    <3>1. heap' = NewCells(Here.ty) /\ v = Default(Here.ty)
      BY <1>2, <2>2
    <3> HIDE DEF v
    <3> QED
      BY <1>1, <3>1, TopType, DefaultType
  <2> QED
    BY <2>1, <2>2
<1> HIDE DEF v
<1>4. /\ envs \in Seq(Environments(Len(heap'), Len(envs))) /\ e \in 1 .. Len(envs)
      /\ x \in Name /\ Top.n \in NodeId
  <2>1. e \in 1 .. Len(envs) /\ x \in Name /\ Top.n \in NodeId
    BY <1>1, TopType, NodeType
  <2>2. envs \in Seq(Environments(Len(heap'), Len(envs)))
    BY <1>3, TypeParts, EnvironmentsMono
  <2> QED
    BY <2>1, <2>2
<1>5. b \in [v: Value(Len(heap')), d: {0} \cup NodeId]
  BY <1>3, <1>4
<1>6. envs[e] \in Environments(Len(heap'), Len(envs))
  BY <1>4
<1> DEFINE en == [envs[e] EXCEPT !.vars[x] = b]
<1>7. envs' = [envs EXCEPT ![e] = en]
  BY <1>2 DEF Define
<1> HIDE DEF b, x
<1>8. en \in Environments(Len(heap'), Len(envs))
  BY <1>4, <1>5, <1>6, BindType
<1> HIDE DEF en, e
<1>9. envs' \in Seq(Environments(Len(heap'), Len(envs))) /\ Len(envs') = Len(envs)
  BY <1>4, <1>7, <1>8, ExceptSeq
<1>10. VoidV \in Value(Len(heap'))
  BY VoidValue
<1> QED
  BY <1>1, <1>2, <1>3, <1>9, <1>10, ReturnStep

LEMMA ExecBlockType == ASSUME TypeOK, ExecBlock PROVE TypeOK'
<1>1. stack # <<>> /\ Done \in Nat
  BY TopType DEF ExecBlock, At, Running, Done
<1>2. CASE Done < Len(Here.kids)
  <2>1. Exec(Here.kids[Done + 1], Top.env)
    BY <1>2 DEF ExecBlock
  <2>2. Here.kids[Done + 1] \in NodeId
    <3>1. Here.kids \in Seq(NodeId)
      BY <1>1, TopType
    <3>2. Done + 1 \in 1 .. Len(Here.kids)
      BY <1>1, <1>2, <3>1
    <3> QED
      BY <3>1, <3>2
  <2> QED
    BY <1>1, <2>1, <2>2, TopType, ExecStep
<1>3. CASE ~(Done < Len(Here.kids))
  BY <1>1, <1>3, VoidValue, YieldStep DEF ExecBlock
<1> QED
  BY <1>2, <1>3

LEMMA AgainStep ==
  ASSUME TypeOK, stack # <<>>, NEW vs \in Seq(Value(Len(heap))), Again(vs) PROVE TypeOK'
BY TopType, SetTopType, StackStep DEF Again

LEMMA ExecIfType == ASSUME TypeOK, ExecIf PROVE TypeOK'
<1>1. stack # <<>> /\ Here.k = "If"
  BY DEF ExecIf, At, Running
<1>2. /\ Here.kids[1] \in NodeId /\ Here.kids[2] \in NodeId
      /\ Len(Here.kids) = 3 => Here.kids[3] \in NodeId
  <2>1. Here.kids \in Seq(NodeId) /\ (Len(Here.kids) = 2 \/ Len(Here.kids) = 3)
    BY <1>1, TopType DEF Shape
  <2> QED
    BY <2>1
<1>3. \/ Eval(Here.kids[1]) \/ Halt("panic") \/ Yield(VoidV) \/ ExecScoped(Here.kids[2])
      \/ Len(Here.kids) = 3 /\ ExecScoped(Here.kids[3])
  BY DEF ExecIf, Branch
<1> QED
  BY <1>1, <1>2, <1>3, EvalStep, HaltPanic, VoidValue, YieldStep, ExecScopedStep

LEMMA ExecWhileType == ASSUME TypeOK, ExecWhile PROVE TypeOK'
<1>1. stack # <<>> /\ Here.k = "While"
  BY DEF ExecWhile, At, Running
<1>2. Here.kids[1] \in NodeId /\ Here.kids[2] \in NodeId
  BY <1>1, TopType DEF Shape
<1>3. \/ Eval(Here.kids[1]) \/ Halt("panic") \/ Yield(VoidV) \/ ExecScoped(Here.kids[2])
      \/ Again(<<>>)
  BY DEF ExecWhile, Branch
<1>4. <<>> \in Seq(Value(Len(heap)))
  OBVIOUS
<1> QED
  BY <1>1, <1>2, <1>3, <1>4, EvalStep, HaltPanic, VoidValue, YieldStep, ExecScopedStep, AgainStep

LEMMA ExecForType == ASSUME TypeOK, ExecFor PROVE TypeOK'
<1>1. stack # <<>> /\ Here.k = "For"
  BY DEF ExecFor, At, Running
<1>2. \A j \in 1 .. 4 : Here.kids[j] \in NodeId
  BY <1>1, TopType DEF Shape
<1>3. CASE Done = 0
  BY <1>1, <1>2, <1>3, TopType, ExecStep DEF ExecFor
<1>4. CASE Done = 1 \/ Done = 2 \/ Done = 3
  <2>1. \/ Eval(Here.kids[2]) \/ Eval(Here.kids[3]) \/ Halt("panic") \/ Yield(VoidV)
        \/ ExecScoped(Here.kids[4])
    BY <1>4 DEF ExecFor, Branch
  <2> QED
    BY <1>1, <1>2, <2>1, EvalStep, HaltPanic, VoidValue, YieldStep, ExecScopedStep
<1>5. CASE Done # 0 /\ Done # 1 /\ Done # 2 /\ Done # 3
  <2>1. Again(SubSeq(Top.vs, 1, 1))
    BY <1>5 DEF ExecFor
  <2>2. Done \in Nat
    BY <1>1, TopType DEF Done
  <2>3. 1 \in 1 .. Done
    BY <1>5, <2>2
  <2>4. Top.vs[1] \in Value(Len(heap))
    BY <1>1, <2>3, TopType DEF Done
  <2>5. SubSeq(Top.vs, 1, 1) \in Seq(Value(Len(heap)))
    BY <2>4, SubSeqProperties
  <2> QED
    BY <1>1, <2>1, <2>5, AgainStep
<1> QED
  BY <1>3, <1>4, <1>5

LEMMA ExecReturnType == ASSUME TypeOK, ExecReturn PROVE TypeOK'
<1> DEFINE v == IF Done = 1 THEN Top.vs[1] ELSE VoidV
<1>1. stack # <<>>
  BY ReadyType DEF ExecReturn
<1>2. v \in Value(Len(heap))
  <2>1. Done = 1 => 1 \in 1 .. Done
    OBVIOUS
  <2> QED
    BY <1>1, <2>1, TopType, VoidValue DEF Done
<1>3. stack' \in Seq(Frames(Len(heap), Len(envs)))
  BY <1>1, TypeParts, CutType DEF ExecReturn
<1>4. flow' = Return(v)
  BY DEF ExecReturn
<1> HIDE DEF v
<1> QED
  BY <1>2, <1>3, <1>4 DEF ExecReturn, TypeOK, Return

LEMMA UnwindType == ASSUME TypeOK, Unwind PROVE TypeOK'
<1>1. stack # <<>> /\ UNCHANGED <<prog, decl, envs, heap, out, status>>
  BY DEF Unwind
<1>2. stack' \in Seq(Frames(Len(heap), Len(envs)))
  BY <1>1, TypeParts, PoppedType, CutType DEF Unwind
<1>3. flow' \in [k: {"Normal", "Return"}, v: Value(Len(heap))]
  <2>1. Normal \in [k: {"Normal", "Return"}, v: Value(Len(heap))]
    BY VoidValue DEF Normal
  <2> QED
    BY <2>1 DEF Unwind, TypeOK
<1> QED
  BY <1>1, <1>2, <1>3 DEF TypeOK

LEMMA RunType == ASSUME TypeOK, Run PROVE TypeOK'
<1>1. CASE RunDecl
  <2>1. /\ decl <= Len(prog) /\ decl' = decl + 1 /\ UNCHANGED <<prog, envs, heap, flow, out, status>>
        /\ stack' = <<Frame(prog[decl], Globals)>> \/ stack' = <<>>
    BY <1>1 DEF RunDecl
  <2>2. prog \in Seq(NodeId)
    BY ProgramAssumption DEF TypeOK
  <2>3. decl \in 1 .. Len(prog)
    BY <2>1, <2>2 DEF TypeOK
  <2>4. Frame(prog[decl], Globals) \in Frames(Len(heap), Len(envs))
    BY <2>2, <2>3, TypeParts, FrameType
  <2>5. stack' \in Seq(Frames(Len(heap), Len(envs)))
    <3> DEFINE F == Frames(Len(heap), Len(envs))  fr == Frame(prog[decl], Globals)
    <3>1. fr \in F
      BY <2>4
    <3> HIDE DEF F, fr
    <3>2. <<fr>> \in Seq(F) /\ <<>> \in Seq(F)
      BY <3>1
    <3> USE DEF F, fr
    <3> QED
      BY <2>1, <3>2
  <2>6. decl' \in 1 .. Len(prog) + 2
    <3>1. Len(prog) \in Nat
      BY <2>2
    <3>2. decl \in Int /\ 1 <= decl /\ decl <= Len(prog)
      BY <2>3, <3>1
    <3> QED
      BY <2>1, <3>1, <3>2
  <2> QED
    BY <2>1, <2>5, <2>6 DEF TypeOK
<1>2. CASE RunMain
  <2>1. CASE Functions("main") = {}
    BY <1>2, <2>1, HaltPanic DEF RunMain
  <2>2. CASE Functions("main") # {}
    <3>1. CallFunction("main", <<>>, <<>>) /\ decl' = decl + 1 /\ decl = Len(prog) + 1
      BY <1>2, <2>2 DEF RunMain
    <3>2. decl' \in 1 .. Len(prog) + 2
      <4>1. Len(prog) \in Nat
        BY ProgramAssumption DEF TypeOK
      <4> QED
        BY <3>1, <4>1
    <3>3. <<>> \in Seq(Value(Len(heap))) /\ <<>> \in Seq(Frames(Len(heap), Len(envs)))
      OBVIOUS
    <3> QED
      BY <3>1, <3>2, <3>3, CallStep
  <2> QED
    BY <2>1, <2>2
<1>3. CASE RunEnd
  BY <1>3, HaltStep DEF RunEnd
<1> QED
  BY <1>1, <1>2, <1>3 DEF Run

LEMMA InitType == Init => TypeOK
<1> SUFFICES ASSUME Init PROVE TypeOK
  OBVIOUS
<1>1. prog \in Programs /\ prog \in Seq(NodeId) /\ decl \in 1 .. Len(prog) + 2
  BY ProgramAssumption DEF Init
<1>2. Empty \in [Name -> [v: Value(0), d: {0} \cup NodeId]]
  BY VoidValue DEF Empty, Unbound
<1>3. <<Globals>> \in Seq(1 .. 1)
  BY DEF Globals
<1>4. [vars |-> Empty, chain |-> <<Globals>>] \in Environments(0, 1)
  BY <1>2, <1>3 DEF Environments
<1>5. envs \in Seq(Environments(0, 1)) /\ Len(envs) = 1 /\ envs # <<>>
  BY <1>4 DEF Init
<1>6. heap = <<>> /\ Len(heap) = 0 /\ stack = <<>> /\ out = <<>>
  BY DEF Init
<1>7. flow \in [k: {"Normal", "Return"}, v: Value(0)] /\ status = "run"
  BY VoidValue DEF Init, Normal
<1> QED
  BY <1>1, <1>5, <1>6, <1>7 DEF TypeOK

\* One step of the interpreter keeps the types.
LEMMA NextType == ASSUME TypeOK, [Next]_vars PROVE TypeOK'
<1>1. CASE EvalExpr
  BY <1>1, EvalOperandType, EvalLiteralType, EvalIdentType, EvalBinaryType, EvalShortCircuitType,
     EvalTernaryType, EvalUnaryType, EvalAssignType, LoadSlotType, EvalCompoundAssignType,
     EvalIncDecType, EvalIndexType, EvalFieldAccessType, EvalArrayLiteralType,
     EvalArrayCreationType, EvalPrintType, EvalBuiltinType, EvalCallType, EndCallType
  DEF EvalExpr
<1>2. CASE ExecStmt
  BY <1>2, ExecExprType, ExecVarDeclType, ExecBlockType, ExecIfType, ExecWhileType, ExecForType,
     ExecReturnType, UnwindType
  DEF ExecStmt
<1>3. CASE Run
  BY <1>3, RunType
<1>4. CASE UNCHANGED vars
  BY <1>4 DEF TypeOK, vars
<1> QED
  BY <1>1, <1>2, <1>3, <1>4 DEF Next, Halted

\* The state of the interpreter is well typed in every reachable state: no activation
\* ever names a node, an environment or an array that does not exist.
THEOREM TypeCorrect == Spec => []TypeOK
<1>1. Init => TypeOK
  BY InitType
<1>2. TypeOK /\ [Next]_vars => TypeOK'
  BY NextType
<1> QED
  BY <1>1, <1>2, PTL DEF Spec

(***************************************************************************)
(* What the invariants need to be inductive.                               *)
(***************************************************************************)
\* A compound assignment to a cell that has its array and its index, and has not
\* looked at the cell yet.
AwaitsSlot(f) == /\ Nodes[f.n].k = "CompoundAssign" /\ TargetKind(Nodes[f.n]) = "Index"
                 /\ Len(f.vs) = 2

\* It looks at the cell at once: it is never waiting for an activation it has called.
SlotsAreTakenAtOnce == \A j \in 1 .. Len(stack) - 1 : ~AwaitsSlot(stack[j])

\* A statement runs in some function's activation; the initialiser of a global alone
\* is a declaration that need not.
InCall == StmtKind \ {"VarDecl"}
StatementsBelongToCalls ==
  \A j \in DOMAIN stack :
    Nodes[stack[j].n].k \in InCall => \E j2 \in 1 .. j - 1 : Nodes[stack[j2].n].k = "Func"

\* Every environment sees the globals, and globals sees nothing else.
Sees(es, e) == {es[e].chain[l] : l \in DOMAIN es[e].chain}
GlobalsEndEachChain == /\ envs[Globals].chain = <<Globals>>
                       /\ \A e \in DOMAIN envs : Globals \in Sees(envs, e)

\* The cell of a compound assignment that is about to store to it is there.
SafeCell(h, f) == PendingCell(f) => /\ f.vs[1].k = "Array" /\ f.vs[2].k = "Int"
                                    /\ f.vs[2].i \in 0 .. Len(h[f.vs[1].r]) - 1

(***************************************************************************)
(* The shapes of a step, as far as the invariants can tell steps apart.    *)
(***************************************************************************)
\* No environment is made or given another parent; the new ones are under p.
SameScopes == Len(envs') = Len(envs) /\ \A e \in 1 .. Len(envs) : envs'[e].chain = envs[e].chain
ScopesUnder(p) ==
  /\ Len(envs') \in Nat /\ Len(envs) <= Len(envs')
  /\ \A e \in 1 .. Len(envs) : envs'[e].chain = envs[e].chain
  /\ \A e \in Len(envs) + 1 .. Len(envs') :
       /\ Sees(envs, p) \subseteq Sees(envs', e)
       /\ Sees(envs', e) \subseteq Sees(envs, p) \cup (Len(envs) + 1 .. Len(envs'))

\* Arrays are made, and keep their lengths.
CellsStay == Len(heap) <= Len(heap') /\ \A r \in 1 .. Len(heap) : Len(heap'[r]) = Len(heap[r])

Quiet == UNCHANGED <<envs, heap, flow>>
Halts == Quiet /\ stack' = <<>> /\ (flow = Normal \/ stack = <<>>)
Begins == /\ Quiet /\ stack = <<>>
          /\ \/ stack' = <<>>
             \/ \E n \in NodeId : Nodes[n].k = "VarDecl" /\ stack' = <<Frame(n, Globals)>>
Descends == /\ Quiet /\ stack # <<>> /\ ~AwaitsSlot(Top)
            /\ \E n \in NodeId : Nodes[n].k \in ExprKind /\ stack' = Push(n, Top.env)
Enters == /\ UNCHANGED <<heap, flow>> /\ stack # <<>> /\ ScopesUnder(Top.env)
          /\ Here.k \in {"Func", "Block", "If", "While", "For"}
          /\ \E n \in NodeId, e \in {Top.env} \cup (Len(envs) + 1 .. Len(envs')) :
               Nodes[n].k \in StmtKind /\ stack' = Push(n, e)
Calls == /\ UNCHANGED <<heap, flow>> /\ (stack = <<>> \/ Here.k = "Call")
         /\ ScopesUnder(Globals) /\ Len(envs') = Len(envs) + 1
         /\ \E n \in NodeId : Nodes[n].k = "Func" /\ stack' = Push(n, Len(envs) + 1)
Pops == flow' = flow /\ stack # <<>> /\ SameScopes /\ CellsStay /\ \E v : stack' = Popped(v)
Sets == /\ Quiet /\ stack # <<>>
        /\ \E vs : SafeCell(heap, [Top EXCEPT !.vs = vs]) /\ stack' = SetTop(vs)
Returns == /\ UNCHANGED <<envs, heap>> /\ stack # <<>> /\ flow = Normal /\ Here.k = "Return"
           /\ stack' = SubSeq(stack, 1, Len(stack) - 1)
Unwinds == /\ UNCHANGED <<envs, heap>> /\ stack # <<>> /\ flow # Normal
           /\ \/ Here.k = "Func" /\ flow' = Normal /\ \E v : stack' = Popped(v)
              \/ Here.k # "Func" /\ flow' = flow /\ stack' = SubSeq(stack, 1, Len(stack) - 1)
Shapes == \/ Halts \/ Begins \/ Descends \/ Enters \/ Calls \/ Pops \/ Sets \/ Returns \/ Unwinds

(***************************************************************************)
(* Each action has one of the shapes.                                      *)
(***************************************************************************)
ExprNode == {n \in NodeId : Nodes[n].k \in ExprKind}

\* What an expression, or a statement that only evaluates one, is made of.
LEMMA ExprKids ==
  ASSUME NEW n \in NodeId, Nodes[n].k \in ExprKind \cup {"Expr", "VarDecl", "Return"}
  PROVE  Nodes[n].kids \in Seq(ExprNode)
<1> DEFINE nd == Nodes[n]
<1>1. nd.kids \in Seq(NodeId) /\ Shape(nd)
  BY NodeType
<1>2. AllIn(nd.kids, ExprKind)
  <2>1. CASE nd.k \in {"Binary", "Assign", "Index", "CompoundAssign"}
    BY <1>1, <2>1 DEF Shape
  <2>2. CASE nd.k \in {"Unary", "IncDec", "FieldAccess", "ArrayCreation", "Expr"}
    BY <1>1, <2>2 DEF Shape
  <2>3. CASE nd.k \in {"Ternary", "Call", "ArrayLiteral", "VarDecl", "Return"}
    BY <1>1, <2>3 DEF Shape
  <2>4. CASE nd.k \in {"IntLiteral", "FloatLiteral", "BoolLiteral", "StringLiteral", "Null",
                       "Ident"}
    <3>1. nd.kids = <<>>
      BY <1>1, <2>4 DEF Shape
    <3> QED
      BY <3>1 DEF AllIn
  <2> QED
    BY <2>1, <2>2, <2>3, <2>4 DEF ExprKind
<1>3. \A j \in 1 .. Len(nd.kids) : nd.kids[j] \in ExprNode
  BY <1>1, <1>2 DEF AllIn, ExprNode
<1> HIDE DEF nd
<1>4. nd.kids \in Seq(ExprNode)
  BY <1>1, <1>3
<1> QED
  BY <1>4 DEF nd
\* The parts of an assignment's target, and its right-hand side, are expressions.
LEMMA TargetKidKinds ==
  ASSUME NEW n \in NodeId, Nodes[n].k \in {"Assign", "CompoundAssign", "IncDec"}
  PROVE  /\ TargetKind(Nodes[n]) = "Index" => TargetKids(Nodes[n]) \in Seq(ExprNode)
         /\ Nodes[n].k # "IncDec" => Nodes[n].kids[2] \in ExprNode
<1> DEFINE t == Nodes[n].kids[1]
<1>1. t \in NodeId
  BY TargetType
<1>2. TargetKind(Nodes[n]) = "Index" => TargetKids(Nodes[n]) \in Seq(ExprNode)
  BY <1>1, ExprKids DEF TargetKind, TargetKids, ExprKind
<1>3. ASSUME Nodes[n].k # "IncDec" PROVE Nodes[n].kids[2] \in ExprNode
  <2>1. Nodes[n].kids \in Seq(ExprNode)
    BY ExprKids DEF ExprKind
  <2>2. Len(Nodes[n].kids) = 2
    BY <1>3, NodeType DEF Shape
  <2> QED
    BY <2>1, <2>2
<1> QED
  BY <1>2, <1>3

\* Whatever an activation evaluates as an operand is an expression.
LEMMA OperandKinds ==
  ASSUME NEW n \in NodeId, Strict(Nodes[n])
  PROVE  Operands(Nodes[n]) \in Seq(ExprNode \cup {Slot})
<1> DEFINE nd == Nodes[n]  T == ExprNode \cup {Slot}
<1>1. nd.k \in ExprKind \cup {"Expr", "VarDecl", "Return"}
  BY DEF Strict
<1>2. nd.kids \in Seq(ExprNode)
  BY <1>1, ExprKids
<1>3. Seq(ExprNode) \subseteq Seq(T)
  BY SeqMono
<1>4. CASE nd.k \in {"Assign", "CompoundAssign", "IncDec"}
  <2> DEFINE ks == IF TargetKind(nd) = "Index" THEN TargetKids(nd) ELSE <<>>  b == nd.kids[2]
  <2>1. ks \in Seq(T)
    BY <1>3, <1>4, TargetKidKinds
  <2>2. nd.k # "IncDec" => b \in T
    BY <1>4, TargetKidKinds
  <2>3. /\ nd.k = "Assign" => Operands(nd) = <<b>> \o ks
        /\ nd.k = "CompoundAssign" => Operands(nd) = ks \o <<Slot, b>>
        /\ nd.k = "IncDec" => Operands(nd) = ks
    BY DEF Operands, SlotThenValue
  <2>4. Slot \in T
    OBVIOUS
  <2> HIDE DEF ks, b, T
  <2>5. nd.k # "IncDec" => <<b>> \in Seq(T) /\ <<Slot, b>> \in Seq(T)
    BY <2>2, <2>4
  <2>6. nd.k # "IncDec" => <<b>> \o ks \in Seq(T) /\ ks \o <<Slot, b>> \in Seq(T)
    BY <2>1, <2>5, ConcatProperties
  <2>7. Operands(nd) \in Seq(T)
    BY <1>4, <2>1, <2>3, <2>6
  <2> QED
    BY <2>7 DEF T
<1>5. CASE nd.k = "Call" /\ nd.name = "print" /\ nd.kids # <<>>
  <2>1. nd.kids[1] \in ExprNode
    BY <1>2, <1>5
  <2>2. Operands(nd) = <<nd.kids[1]>>
    BY <1>5 DEF Operands
  <2> QED
    BY <1>3, <2>1, <2>2
<1>6. CASE /\ nd.k \notin {"Assign", "CompoundAssign", "IncDec"}
           /\ ~(nd.k = "Call" /\ nd.name = "print" /\ nd.kids # <<>>)
  <2>1. Operands(nd) = nd.kids
    BY <1>6 DEF Operands
  <2> QED
    BY <1>2, <1>3, <2>1
<1> QED
  BY <1>4, <1>5, <1>6

(***************************************************************************)
(* The ways a step ends, again: each has its shape.                        *)
(***************************************************************************)
LEMMA HaltShape ==
  ASSUME NEW s, Halt(s), flow = Normal \/ stack = <<>> PROVE Halts
BY DEF Halt, Halts, Quiet

LEMMA EvalShape ==
  ASSUME stack # <<>>, NEW n \in ExprNode, Eval(n), ~AwaitsSlot(Top) PROVE Descends
BY DEF Eval, Descends, Quiet, ExprNode

LEMMA YieldShape == ASSUME TypeOK, stack # <<>>, NEW v, Yield(v) PROVE Pops
BY TypeParts DEF Yield, Pops, SameScopes, CellsStay

LEMMA FinishShape ==
  ASSUME TypeOK, stack # <<>>, flow = Normal, NEW o, Finish(o) PROVE Halts \/ Pops
BY HaltShape, YieldShape DEF Finish
LEMMA SetVarShape ==
  ASSUME TypeOK, stack # <<>>, flow = Normal, NEW x \in Name, NEW v, NEW w, SetVar(x, v, w)
  PROVE  Halts \/ Pops
<1>1. CASE Owner(Top.env, x) = {}
  BY <1>1, HaltShape DEF SetVar
<1>2. CASE Owner(Top.env, x) # {}
  <2>1. PICK o \in Owner(Top.env, x) : envs' = [envs EXCEPT ![o].vars[x].v = v]
    BY <1>2 DEF SetVar
  <2>2. o \in 1 .. Len(envs) /\ envs[o] \in Environments(Len(heap), Len(envs))
    BY OwnerType, TopType, TypeParts
  <2>3. envs \in Seq(Environments(Len(heap), Len(envs))) /\ Len(envs) \in Nat
    BY TypeParts
  <2> DEFINE en == [envs[o] EXCEPT !.vars[x].v = v]
  <2>4. en.chain = envs[o].chain
    BY <2>2 DEF Environments
  <2>5. envs' = [envs EXCEPT ![o] = en]
    BY <2>1
  <2> HIDE DEF en
  <2>6. Len(envs') = Len(envs)
    BY <2>3, <2>5
  <2>7. \A e \in 1 .. Len(envs) : envs'[e].chain = envs[e].chain
    BY <2>3, <2>4, <2>5
  <2>8. flow' = flow /\ heap' = heap /\ stack' = Popped(w)
    BY <1>2 DEF SetVar
  <2>9. SameScopes /\ CellsStay
    BY <2>6, <2>7, <2>8, TypeParts DEF SameScopes, CellsStay
  <2> QED
    BY <2>8, <2>9 DEF Pops
<1> QED
  BY <1>1, <1>2

\* A store changes a cell, never how many there are.
LEMMA CellsKept ==
  ASSUME TypeOK, NEW r, NEW c, NEW v, heap' = [heap EXCEPT ![r][c] = v]
  PROVE  CellsStay
<1>1. heap \in Seq(Seq(Value(Len(heap)))) /\ Len(heap) \in Nat
  BY TypeParts
<1> DEFINE cells == [heap[r] EXCEPT ![c] = v]
<1>2. heap' = [heap EXCEPT ![r] = cells]
  OBVIOUS
<1>3. ASSUME NEW r2 \in 1 .. Len(heap) PROVE Len(heap'[r2]) = Len(heap[r2])
  <2>1. heap[r2] \in Seq(Value(Len(heap)))
    BY <1>1
  <2>2. r2 = r => Len(cells) = Len(heap[r2])
    BY <2>1
  <2> HIDE DEF cells
  <2>3. r2 \in DOMAIN heap
    BY <1>1
  <2>4. r2 = r => heap'[r2] = cells
    BY <1>2, <2>3
  <2>5. r2 # r => heap'[r2] = heap[r2]
    BY <1>2, <2>3
  <2> QED
    BY <2>2, <2>4, <2>5
<1> HIDE DEF cells
<1>4. Len(heap') = Len(heap)
  BY <1>1, <1>2
<1> QED
  BY <1>1, <1>3, <1>4 DEF CellsStay

LEMMA SetCellShape ==
  ASSUME TypeOK, stack # <<>>, NEW r, NEW i, NEW v, NEW w, SetCell(r, i, v, w) PROVE Pops
<1> DEFINE c == i + 1
<1> HIDE DEF c
<1>1. heap' = [heap EXCEPT ![r][c] = v] /\ stack' = Popped(w) /\ UNCHANGED <<envs, flow>>
  BY DEF SetCell, c
<1>2. CellsStay
  BY <1>1, CellsKept
<1> QED
  BY <1>1, <1>2, TypeParts DEF Pops, SameScopes

\* A new array, and the step that returns.
LEMMA AllocateShape ==
  ASSUME TypeOK, NEW cells, heap' = Append(heap, cells) PROVE CellsStay
BY TypeParts DEF CellsStay

LEMMA DefaultShape ==
  ASSUME TypeOK, NEW t
  PROVE  /\ Len(NewCells(t)) \in Nat /\ Len(heap) <= Len(NewCells(t))
         /\ NewCells(t) \in Seq(Seq(Value(Len(heap))))
         /\ \A r \in 1 .. Len(heap) : NewCells(t)[r] = heap[r]
<1>1. heap \in Seq(Seq(Value(Len(heap)))) /\ Len(heap) \in Nat
  BY TypeParts
<1> DEFINE S == Seq(Value(Len(heap)))
<1>2. <<>> \in S
  OBVIOUS
<1> HIDE DEF S
<1>3. heap \in Seq(S)
  BY <1>1 DEF S
<1>4. /\ Append(heap, <<>>) \in Seq(S) /\ Len(Append(heap, <<>>)) = Len(heap) + 1
      /\ \A r \in 1 .. Len(heap) : Append(heap, <<>>)[r] = heap[r]
  BY <1>2, <1>3, AppendProperties
<1> QED
  BY <1>1, <1>3, <1>4 DEF NewCells, S
\* One more environment: the others are as they were, and it sees itself and what its
\* parent sees.
LEMMA ChildScope ==
  ASSUME NEW m \in Nat, NEW es, Len(es) \in Nat, es \in Seq(Environments(m, Len(es))),
         NEW e \in 1 .. Len(es)
  PROVE  /\ Len(Child(es, e)) = Len(es) + 1
         /\ \A e2 \in 1 .. Len(es) : Child(es, e)[e2] = es[e2]
         /\ Child(es, e)[Len(es) + 1].chain = <<Len(es) + 1>> \o es[e].chain
         /\ Sees(Child(es, e), Len(es) + 1) = {Len(es) + 1} \cup Sees(es, e)
<1> DEFINE k == Len(es) + 1  c == es[e].chain  up == <<k>> \o c
           new == [vars |-> Empty, chain |-> up]  es2 == Append(es, new)
<1>1. c \in Seq(1 .. Len(es))
  <2>1. es[e] \in Environments(m, Len(es))
    OBVIOUS
  <2> QED
    BY <2>1 DEF Environments
<1>2. new.chain = up
  OBVIOUS
<1> HIDE DEF new
<1>3. Len(es2) = k /\ es2[k] = new /\ \A e2 \in 1 .. Len(es) : es2[e2] = es[e2]
  BY AppendProperties
<1>4. Child(es, e) = es2
  BY DEF Child, new
<1> HIDE DEF es2
<1>5. DOMAIN up = 1 .. Len(c) + 1 /\ up[1] = k /\ \A l \in 1 .. Len(c) : up[l + 1] = c[l]
  <2>1. c \in Seq(Nat) /\ Len(c) \in Nat /\ k \in Nat
    BY <1>1, SeqMono
  <2> DEFINE own == <<k>>
  <2> HIDE DEF c, k
  <2>2. own \in Seq(Nat) /\ Len(own) = 1 /\ own[1] = k
    BY <2>1
  <2> HIDE DEF own
  <2>3. own \o c \in Seq(Nat) /\ Len(own \o c) = 1 + Len(c)
    BY <2>1, <2>2, ConcatProperties
  <2>4. \A l \in 1 .. Len(own) + Len(c) :
          (own \o c)[l] = IF l <= Len(own) THEN own[l] ELSE c[l - Len(own)]
    BY <2>1, <2>2, ConcatProperties
  <2> DEFINE u == own \o c
  <2> HIDE DEF u
  <2>5. DOMAIN u = 1 .. Len(c) + 1 /\ u[1] = k /\ \A l \in 1 .. Len(c) : u[l + 1] = c[l]
    BY <2>1, <2>2, <2>3, <2>4 DEF u
  <2> QED
    BY <2>5 DEF u, own
<1>6. {up[l] : l \in DOMAIN up} = {k} \cup {c[l] : l \in DOMAIN c}
  <2>1. Len(c) \in Nat /\ DOMAIN c = 1 .. Len(c)
    BY <1>1
  <2> HIDE DEF c, k, up
  <2>2. ASSUME NEW l \in DOMAIN up PROVE up[l] \in {k} \cup {c[j] : j \in DOMAIN c}
    <3>1. l = 1 \/ (l - 1 \in DOMAIN c /\ up[l] = c[l - 1])
      BY <1>5, <2>1
    <3> QED
      BY <1>5, <3>1
  <2>3. k \in {up[l] : l \in DOMAIN up}
    <3>1. 1 \in DOMAIN up
      BY <1>5, <2>1
    <3> QED
      BY <1>5, <3>1
  <2>4. ASSUME NEW j \in DOMAIN c PROVE c[j] \in {up[l] : l \in DOMAIN up}
    <3>1. j + 1 \in DOMAIN up /\ up[j + 1] = c[j]
      BY <1>5, <2>1
    <3> QED
      BY <3>1
  <2> QED
    BY <2>2, <2>3, <2>4
<1> QED
  BY <1>2, <1>3, <1>4, <1>6 DEF Sees

LEMMA ExecShape ==
  ASSUME TypeOK, stack # <<>>, NEW n \in NodeId, Nodes[n].k \in StmtKind, Exec(n, Top.env),
         Here.k \in {"Func", "Block", "If", "While", "For"}
  PROVE  Enters
<1>1. Top.env \in 1 .. Len(envs) /\ Len(envs) \in Nat
  BY TopType
<1>2. CASE Nodes[n].k \in {"Block", "For"}
  <2>1. /\ envs' = Child(envs, Top.env) /\ stack' = Push(n, Len(envs) + 1)
        /\ UNCHANGED <<heap, flow>>
    BY <1>2 DEF Exec
  <2>2. /\ Len(envs') = Len(envs) + 1
        /\ \A e2 \in 1 .. Len(envs) : envs'[e2] = envs[e2]
        /\ Sees(envs', Len(envs) + 1) = {Len(envs) + 1} \cup Sees(envs, Top.env)
    BY <1>1, <2>1, TypeParts, ChildScope
  <2>3. ScopesUnder(Top.env)
    BY <1>1, <2>2 DEF ScopesUnder
  <2>4. Len(envs) + 1 \in Len(envs) + 1 .. Len(envs')
    BY <1>1, <2>2
  <2> QED
    BY <2>1, <2>3, <2>4 DEF Enters
<1>3. CASE Nodes[n].k \notin {"Block", "For"}
  <2>1. envs' = envs /\ stack' = Push(n, Top.env) /\ UNCHANGED <<heap, flow>>
    BY <1>3 DEF Exec
  <2>2. ScopesUnder(Top.env)
    BY <1>1, <2>1 DEF ScopesUnder
  <2> QED
    BY <2>1, <2>2 DEF Enters
<1> QED
  BY <1>2, <1>3

LEMMA ExecScopedShape ==
  ASSUME TypeOK, stack # <<>>, NEW n \in NodeId, Nodes[n].k \in StmtKind, ExecScoped(n),
         Here.k \in {"Func", "Block", "If", "While", "For"}
  PROVE  Enters
<1> DEFINE es == Child(envs, Top.env)  k == Len(envs)  m == Len(heap)  p == Top.env
<1>1. p \in 1 .. k /\ k \in Nat /\ m \in Nat /\ envs \in Seq(Environments(m, k))
  BY TopType, TypeParts
<1>2. CASE Nodes[n].k = "Block"
  BY <1>2, ExecShape DEF ExecScoped
<1>3. CASE Nodes[n].k # "Block"
  <2>1. /\ envs' = IF Nodes[n].k = "For" THEN Child(es, Len(es)) ELSE es
        /\ stack' = Push(n, Len(envs')) /\ UNCHANGED <<heap, flow>>
    BY <1>3 DEF ExecScoped
  <2>2. /\ Len(es) = k + 1 /\ \A e2 \in 1 .. k : es[e2] = envs[e2]
        /\ Sees(es, k + 1) = {k + 1} \cup Sees(envs, Top.env)
    <3> HIDE DEF m, p
    <3>1. /\ Len(Child(envs, p)) = k + 1 /\ \A e2 \in 1 .. k : Child(envs, p)[e2] = envs[e2]
          /\ Sees(Child(envs, p), k + 1) = {k + 1} \cup Sees(envs, p)
      BY <1>1, ChildScope
    <3> QED
      BY <3>1 DEF p
  <2>3. es \in Seq(Environments(Len(heap), Len(es)))
    BY <1>1, <2>2, TypeParts, ChildType
  <2> HIDE DEF es
  <2>4. CASE Nodes[n].k = "For"
    <3>1. /\ Len(envs') = k + 2 /\ \A e2 \in 1 .. k + 1 : envs'[e2] = es[e2]
          /\ Sees(envs', k + 2) = {k + 2} \cup Sees(es, k + 1)
      <4>1. Len(es) \in Nat /\ k + 1 \in 1 .. Len(es) /\ Len(es) + 1 = k + 2
        BY <1>1, <2>2
      <4>2. envs' = Child(es, k + 1)
        BY <2>1, <2>2, <2>4
      <4>3. es \in Seq(Environments(m, Len(es))) /\ m \in Nat
        BY <1>1, <2>3
      <4> HIDE DEF m
      <4>4. /\ Len(Child(es, k + 1)) = Len(es) + 1
            /\ \A e2 \in 1 .. Len(es) : Child(es, k + 1)[e2] = es[e2]
            /\ Sees(Child(es, k + 1), Len(es) + 1) = {Len(es) + 1} \cup Sees(es, k + 1)
        BY <4>1, <4>3, ChildScope
      <4> QED
        BY <2>2, <4>1, <4>2, <4>4
    <3>2. Sees(envs', k + 1) = Sees(es, k + 1)
      BY <1>1, <3>1 DEF Sees
    <3>3. ScopesUnder(Top.env)
      <4>1. \A e2 \in 1 .. k : envs'[e2] = envs[e2]
        BY <1>1, <2>2, <3>1
      <4>2. \A e2 \in k + 1 .. Len(envs') : e2 = k + 1 \/ e2 = k + 2
        BY <1>1, <3>1
      <4>3. k + 1 .. Len(envs') = {k + 1, k + 2}
        BY <1>1, <3>1
      <4> QED
        BY <1>1, <2>2, <3>1, <3>2, <4>1, <4>2, <4>3 DEF ScopesUnder
    <3>4. Len(envs') \in k + 1 .. Len(envs')
      BY <1>1, <3>1
    <3> QED
      BY <2>1, <3>3, <3>4 DEF Enters
  <2>5. CASE Nodes[n].k # "For"
    <3>1. envs' = es
      BY <2>1, <2>5
    <3>2. ScopesUnder(Top.env)
      BY <1>1, <2>2, <3>1 DEF ScopesUnder
    <3>3. Len(envs') \in k + 1 .. Len(envs')
      BY <1>1, <2>2, <3>1
    <3> QED
      BY <2>1, <3>2, <3>3 DEF Enters
  <2> QED
    BY <2>4, <2>5
<1> QED
  BY <1>2, <1>3
LEMMA CallShape ==
  ASSUME TypeOK, NEW f, NEW args, CallFunction(f, args, stack),
         flow = Normal \/ stack = <<>>, stack = <<>> \/ Here.k = "Call"
  PROVE  Halts \/ Calls
<1>1. CASE Functions(f) = {}
  BY <1>1, HaltShape DEF CallFunction
<1>2. CASE Functions(f) # {}
  <2> DEFINE k == Len(envs) + 1  es == Child(envs, Globals)
  <2>1. PICK d \in Functions(f) :
          /\ envs' = [es EXCEPT ![k].vars = Bind(Nodes[d].params, args)]
          /\ stack' = Push(d, k)
    BY <1>2 DEF CallFunction, CalleeParent, Push
  <2>2. UNCHANGED <<heap, flow>>
    BY <1>2 DEF CallFunction
  <2>3. d \in NodeId /\ Nodes[d].k = "Func"
    <3>1. prog \in Seq(NodeId)
      BY ProgramAssumption DEF TypeOK
    <3> QED
      BY <3>1 DEF Functions
  <2>4. /\ Len(envs) \in Nat /\ Globals \in 1 .. Len(envs)
        /\ envs \in Seq(Environments(Len(heap), Len(envs))) /\ Len(heap) \in Nat
    BY TypeParts
  <2>5. /\ Len(es) = k /\ \A e2 \in 1 .. Len(envs) : es[e2] = envs[e2]
        /\ Sees(es, k) = {k} \cup Sees(envs, Globals)
    <3> DEFINE g == Globals  m == Len(heap)
    <3>1. g \in 1 .. Len(envs) /\ m \in Nat /\ envs \in Seq(Environments(m, Len(envs)))
      BY <2>4
    <3> HIDE DEF g, m
    <3>2. /\ Len(Child(envs, g)) = Len(envs) + 1
          /\ \A e2 \in 1 .. Len(envs) : Child(envs, g)[e2] = envs[e2]
          /\ Sees(Child(envs, g), Len(envs) + 1) = {Len(envs) + 1} \cup Sees(envs, g)
      BY <2>4, <3>1, ChildScope
    <3> QED
      BY <3>2 DEF g
  <2>6. es \in Seq(Environments(Len(heap), k))
    BY <2>4, ChildType
  <2> HIDE DEF es
  <2> DEFINE en == [es[k] EXCEPT !.vars = Bind(Nodes[d].params, args)]
  <2>7. en.chain = es[k].chain
    <3>1. es[k] \in Environments(Len(heap), k)
      BY <2>4, <2>5, <2>6
    <3> QED
      BY <3>1 DEF Environments
  <2>8. envs' = [es EXCEPT ![k] = en]
    BY <2>1
  <2> HIDE DEF en
  <2>9. /\ Len(envs') = k /\ envs'[k] = en
        /\ \A e2 \in 1 .. Len(envs) : envs'[e2] = envs[e2]
    BY <2>4, <2>5, <2>6, <2>8
  <2>10. Sees(envs', k) = {k} \cup Sees(envs, Globals)
    BY <2>5, <2>7, <2>9 DEF Sees
  <2>11. ScopesUnder(Globals)
    <3>1. Len(envs) + 1 .. Len(envs') = {k}
      BY <2>4, <2>9
    <3> HIDE DEF k
    <3> QED
      BY <2>4, <2>9, <2>10, <3>1 DEF ScopesUnder, k
  <2> QED
    BY <2>1, <2>2, <2>3, <2>9, <2>11 DEF Calls
<1> QED
  BY <1>1, <1>2

(***************************************************************************)
(* Expressions.                                                            *)
(***************************************************************************)
\* An activation that acts runs in a program that is not returning.
LEMMA ReadyShape ==
  ASSUME NEW k, Ready(k) PROVE stack # <<>> /\ flow = Normal /\ Here.k = k
BY DEF Ready, At, Running

LEMMA EvalOperandShape == ASSUME TypeOK, EvalOperand PROVE Descends
<1> DEFINE ops == Operands(Here)  n == ops[Done + 1]
<1>1. /\ stack # <<>> /\ Strict(Here) /\ Done < Len(ops) /\ n # Slot /\ Eval(n)
  BY DEF EvalOperand, Running
<1>2. Done \in Nat /\ Here = Nodes[Top.n] /\ Top.n \in NodeId
  BY <1>1, TopType DEF Done, Here
<1>3. ops \in Seq(ExprNode \cup {Slot})
  BY <1>1, <1>2, OperandKinds
<1>4. n \in ExprNode
  <2>1. Done + 1 \in 1 .. Len(ops)
    BY <1>1, <1>2, <1>3
  <2> QED
    BY <1>1, <1>3, <2>1
<1>5. ~AwaitsSlot(Top)
  <2>1. SUFFICES ASSUME AwaitsSlot(Top) PROVE FALSE
    OBVIOUS
  <2>2. ops[3] = Slot /\ Done = 2
    BY <1>2, <2>1, CompoundOperands DEF AwaitsSlot, Done
  <2> QED
    BY <1>1, <2>2
<1> QED
  BY <1>1, <1>4, <1>5, EvalShape

\* No other activation has a slot to take.
LEMMA NoSlot == ASSUME Here.k # "CompoundAssign" PROVE ~AwaitsSlot(Top)
BY DEF AwaitsSlot, Here

LEMMA EvalLiteralShape == ASSUME TypeOK, EvalLiteral PROVE Pops
BY YieldShape DEF EvalLiteral, At, Running

LEMMA EvalIdentShape == ASSUME TypeOK, EvalIdent PROVE Halts \/ Pops
<1>1. stack # <<>> /\ flow = Normal
  BY DEF EvalIdent, At, Running
<1>2. Halt("panic") \/ \E o \in Owner(Top.env, Here.name) : Yield(envs[o].vars[Here.name].v)
  BY DEF EvalIdent
<1> QED
  BY <1>1, <1>2, HaltShape, YieldShape

LEMMA EvalShortCircuitShape == ASSUME TypeOK, EvalShortCircuit PROVE Halts \/ Descends \/ Pops
<1>1. stack # <<>> /\ flow = Normal /\ Here.k = "Binary"
  BY DEF EvalShortCircuit, At, Running
<1>2. Here.kids[1] \in ExprNode /\ Here.kids[2] \in ExprNode
  <2>1. Here.kids \in Seq(ExprNode) /\ Len(Here.kids) = 2
    BY <1>1, TopType, ExprKids DEF Here, ExprKind, Shape
  <2> QED
    BY <2>1
<1>3. \/ Eval(Here.kids[1]) \/ Eval(Here.kids[2]) \/ Halt("panic")
      \/ Yield(BoolV(TRUE)) \/ Yield(BoolV(FALSE))
  BY DEF EvalShortCircuit, Branch
<1> QED
  BY <1>1, <1>2, <1>3, NoSlot, EvalShape, HaltShape, YieldShape

LEMMA EvalTernaryShape == ASSUME TypeOK, EvalTernary PROVE Halts \/ Descends \/ Pops
<1>1. stack # <<>> /\ flow = Normal /\ Here.k = "Ternary"
  BY DEF EvalTernary, At, Running
<1>2. \A j \in 1 .. 3 : Here.kids[j] \in ExprNode
  <2>1. Here.kids \in Seq(ExprNode) /\ Len(Here.kids) = 3
    BY <1>1, TopType, ExprKids DEF Here, ExprKind, Shape
  <2> QED
    BY <2>1
<1>3. Yield(Top.vs[2]) \/ Halt("panic") \/ \E j \in 1 .. 3 : Eval(Here.kids[j])
  BY DEF EvalTernary, Branch
<1> QED
  BY <1>1, <1>2, <1>3, NoSlot, EvalShape, HaltShape, YieldShape

LEMMA EvalAssignShape == ASSUME TypeOK, EvalAssign PROVE Halts \/ Pops
<1>1. stack # <<>> /\ flow = Normal /\ Here.k = "Assign"
  BY ReadyShape DEF EvalAssign
<1>2. Nodes[Here.kids[1]].name \in Name
  BY <1>1, TopType, TargetType, NodeType DEF Here
<1>3. \/ SetVar(Nodes[Here.kids[1]].name, Top.vs[1], Top.vs[1])
      \/ SetCell(Top.vs[2].r, Top.vs[3].i, Top.vs[1], Top.vs[1])
      \/ Halt("panic") \/ Halt("IndexOutOfBounds")
  BY DEF EvalAssign, OnCell
<1> QED
  BY <1>1, <1>2, <1>3, SetVarShape, SetCellShape, HaltShape
\* The value that LoadSlot keeps is the one its check was for.
LEMMA LoadSlotShape == ASSUME TypeOK, LoadSlot PROVE Halts \/ Sets
<1> DEFINE x == Nodes[Here.kids[1]].name  ops == Operands(Here)
<1>1. /\ stack # <<>> /\ flow = Normal /\ Here.k = "CompoundAssign" /\ Here = Nodes[Top.n]
      /\ Done < Len(ops) /\ ops[Done + 1] = Slot
  BY DEF LoadSlot, At, Running, Here
<1>2. ASSUME NEW v, Keep(v),
             TargetKind(Here) = "Index" => /\ Top.vs[1].k = "Array" /\ Top.vs[2].k = "Int"
                                           /\ InBounds(Top.vs[2].i, Top.vs[1].r)
      PROVE  Sets
  <2> DEFINE vs == Append(Top.vs, v)  f == [Top EXCEPT !.vs = vs]
  <2>1. stack' = SetTop(vs) /\ Quiet
    BY <1>2 DEF Keep, Quiet
  <2>2. SafeCell(heap, f)
    <3>1. f.n = Top.n /\ f.vs = vs
      BY <1>1, TopType DEF Frames
    <3>2. SUFFICES ASSUME PendingCell(f)
                   PROVE  /\ f.vs[1].k = "Array" /\ f.vs[2].k = "Int"
                          /\ InBounds(f.vs[2].i, f.vs[1].r)
      BY DEF SafeCell, InBounds
    <3>3. TargetKind(Here) = "Index" /\ Len(vs) > 2
      BY <1>1, <3>1, <3>2 DEF PendingCell
    <3>4. Top.vs \in Seq(Value(Len(heap)))
      BY <1>1, TopType
    <3>5. vs[1] = Top.vs[1] /\ vs[2] = Top.vs[2]
      <4>1. Len(vs) = Len(Top.vs) + 1
        BY <3>4
      <4>2. 1 \in 1 .. Len(Top.vs) /\ 2 \in 1 .. Len(Top.vs)
        BY <3>3, <3>4, <4>1
      <4> QED
        BY <3>4, <4>2, AppendProperties
    <3> QED
      BY <1>2, <3>1, <3>3, <3>5
  <2> QED
    BY <1>1, <2>1, <2>2 DEF Sets
<1>3. CASE TargetKind(Here) = "Ident"
  <2>1. Halt("panic") \/ \E o \in Owner(Top.env, x) : Keep(envs[o].vars[x].v)
    BY <1>3 DEF LoadSlot
  <2> QED
    BY <1>1, <1>2, <1>3, <2>1, HaltShape
<1>4. CASE TargetKind(Here) = "Index"
  <2>1. \/ Halt("panic") \/ Halt("IndexOutOfBounds")
        \/ /\ Top.vs[1].k = "Array" /\ Top.vs[2].k = "Int" /\ InBounds(Top.vs[2].i, Top.vs[1].r)
           /\ Keep(heap[Top.vs[1].r][Top.vs[2].i + 1])
    BY <1>4 DEF LoadSlot, OnCell
  <2> QED
    BY <1>1, <1>2, <2>1, HaltShape
<1>5. CASE TargetKind(Here) \notin {"Ident", "Index"}
  BY <1>1, <1>5, HaltShape DEF LoadSlot
<1> QED
  BY <1>3, <1>4, <1>5

LEMMA EvalCompoundAssignShape == ASSUME TypeOK, EvalCompoundAssign PROVE Halts \/ Pops
<1> DEFINE new == ApplyBinaryOp(heap, Here.op, Top.vs[Done - 1], Top.vs[Done])
<1>1. stack # <<>> /\ flow = Normal /\ Here.k = "CompoundAssign"
  BY ReadyShape DEF EvalCompoundAssign
<1>2. Nodes[Here.kids[1]].name \in Name
  BY <1>1, TopType, TargetType, NodeType DEF Here
<1>3. \/ Halt(new.e) \/ SetVar(Nodes[Here.kids[1]].name, new, new)
      \/ SetCell(Top.vs[1].r, Top.vs[2].i, new, new)
  BY DEF EvalCompoundAssign
<1> HIDE DEF new
<1> QED
  BY <1>1, <1>2, <1>3, SetVarShape, SetCellShape, HaltShape

LEMMA EvalIncDecShape == ASSUME TypeOK, EvalIncDec PROVE Halts \/ Pops
<1> DEFINE x == Nodes[Here.kids[1]].name
<1>1. stack # <<>> /\ flow = Normal /\ Here.k = "IncDec"
  BY ReadyShape DEF EvalIncDec
<1>2. x \in Name
  BY <1>1, TopType, TargetType, NodeType DEF Here
<1>3. CASE TargetKind(Here) = "Ident"
  <2>1. \/ \E s : Halt(s)
        \/ \E v, w : SetVar(x, v, w)
    BY <1>3 DEF EvalIncDec
  <2> QED
    BY <1>1, <1>2, <2>1, SetVarShape, HaltShape
<1>4. CASE TargetKind(Here) = "Index"
  <2>1. \/ \E s : Halt(s)
        \/ \E v, w : SetCell(Top.vs[1].r, Top.vs[2].i, v, w)
    BY <1>4 DEF EvalIncDec, OnCell
  <2> QED
    BY <1>1, <2>1, SetCellShape, HaltShape
<1>5. CASE TargetKind(Here) \notin {"Ident", "Index"}
  BY <1>1, <1>5, HaltShape DEF EvalIncDec
<1> QED
  BY <1>3, <1>4, <1>5

LEMMA EvalIndexShape == ASSUME TypeOK, EvalIndex PROVE Halts \/ Pops
<1>1. stack # <<>> /\ flow = Normal
  BY ReadyShape DEF EvalIndex
<1>2. \/ Halt("panic") \/ Halt("IndexOutOfBounds")
      \/ Yield(heap[Top.vs[1].r][Top.vs[2].i + 1])
  BY DEF EvalIndex, OnCell
<1> QED
  BY <1>1, <1>2, HaltShape, YieldShape

LEMMA EvalArrayLiteralShape == ASSUME TypeOK, EvalArrayLiteral PROVE Pops
<1>1. /\ stack # <<>> /\ heap' = Append(heap, Top.vs) /\ stack' = Popped(ArrV(Len(heap) + 1))
      /\ UNCHANGED <<envs, flow>>
  BY ReadyShape DEF EvalArrayLiteral
<1> QED
  BY <1>1, AllocateShape, TypeParts DEF Pops, SameScopes

LEMMA EvalArrayCreationShape == ASSUME TypeOK, EvalArrayCreation PROVE Halts \/ Pops
<1> DEFINE h == NewCells(Here.ty)
<1>1. stack # <<>> /\ flow = Normal
  BY ReadyShape DEF EvalArrayCreation
<1>2. \/ Halt("panic") \/ Halt("NegativeArraySize")
      \/ \E cells : /\ heap' = Append(h, cells) /\ stack' = Popped(ArrV(Len(h) + 1))
                    /\ UNCHANGED <<envs, flow>>
  BY DEF EvalArrayCreation
<1>3. ASSUME NEW cells, heap' = Append(h, cells), stack' = Popped(ArrV(Len(h) + 1)),
             UNCHANGED <<envs, flow>>
      PROVE  Pops
  <2>1. /\ Len(h) \in Nat /\ Len(heap) <= Len(h) /\ h \in Seq(Seq(Value(Len(heap))))
        /\ \A r \in 1 .. Len(heap) : h[r] = heap[r]
    BY DefaultShape
  <2>2. Len(heap) \in Nat
    BY TypeParts
  <2> HIDE DEF h
  <2>3. /\ Len(Append(h, cells)) = Len(h) + 1
        /\ \A r \in 1 .. Len(h) : Append(h, cells)[r] = h[r]
    BY <2>1
  <2>4. CellsStay
    BY <1>3, <2>1, <2>2, <2>3 DEF CellsStay
  <2> QED
    BY <1>1, <1>3, <2>4, TypeParts DEF Pops, SameScopes
<1> QED
  BY <1>1, <1>2, <1>3, HaltShape

LEMMA EvalPrintShape == ASSUME TypeOK, EvalPrint PROVE Halts \/ Pops
<1>1. stack # <<>> /\ flow = Normal
  BY ReadyShape DEF EvalPrint
<1>2. Halt("panic") \/ (stack' = Popped(VoidV) /\ UNCHANGED <<envs, heap, flow>>)
  BY DEF EvalPrint
<1> QED
  BY <1>1, <1>2, HaltShape, TypeParts DEF Pops, SameScopes, CellsStay

\* The actions that only apply an operation to values.
LEMMA OperationShape ==
  ASSUME TypeOK, EvalBinary \/ EvalUnary \/ EvalFieldAccess \/ EvalBuiltin PROVE Halts \/ Pops
<1>1. stack # <<>> /\ flow = Normal
  BY ReadyShape DEF EvalBinary, EvalUnary, EvalFieldAccess, EvalBuiltin
<1>2. \E o : Finish(o)
  BY DEF EvalBinary, EvalUnary, EvalFieldAccess, EvalBuiltin
<1> QED
  BY <1>1, <1>2, FinishShape

LEMMA EvalCallShape == ASSUME TypeOK, EvalCall \/ EndCall PROVE Halts \/ Calls \/ Pops
<1>1. CASE EvalCall
  BY <1>1, ReadyShape, CallShape DEF EvalCall
<1>2. CASE EndCall
  BY <1>2, YieldShape DEF EndCall, At, Running
<1> QED
  BY <1>1, <1>2
(***************************************************************************)
(* Statements, and the program.                                            *)
(***************************************************************************)
LEMMA ExecVarDeclShape == ASSUME TypeOK, ExecVarDecl PROVE Pops
<1> DEFINE v == IF Done = 1 THEN Top.vs[1] ELSE Default(Here.ty)
           x == Nodes[Top.n].name  e == Top.env
           en == [envs[e] EXCEPT !.vars[x] = [v |-> v, d |-> Top.n]]
<1>1. stack # <<>>
  BY ReadyShape DEF ExecVarDecl
<1>2. /\ envs' = [envs EXCEPT ![e] = en] /\ stack' = Popped(VoidV) /\ flow' = flow
      /\ heap' = heap \/ heap' = NewCells(Here.ty)
  BY DEF ExecVarDecl, Define
<1>3. /\ e \in 1 .. Len(envs) /\ envs \in Seq(Environments(Len(heap), Len(envs)))
      /\ Len(envs) \in Nat /\ Len(heap) \in Nat
  BY <1>1, TopType, TypeParts
<1>4. en.chain = envs[e].chain
  <2>1. envs[e] \in Environments(Len(heap), Len(envs))
    BY <1>3
  <2> HIDE DEF v, x
  <2> QED
    BY <2>1 DEF Environments
<1> HIDE DEF en, e
<1>5. Len(envs') = Len(envs) /\ \A e2 \in 1 .. Len(envs) : envs'[e2].chain = envs[e2].chain
  BY <1>2, <1>3, <1>4
<1>6. CellsStay
  BY <1>2, <1>3, DefaultShape DEF CellsStay
<1> QED
  BY <1>1, <1>2, <1>5, <1>6 DEF Pops, SameScopes

LEMMA ExecBlockShape == ASSUME TypeOK, ExecBlock PROVE Enters \/ Pops
<1>1. stack # <<>> /\ Here.k \in {"Block", "Func"} /\ Done \in Nat
  BY TopType DEF ExecBlock, At, Running, Done
<1>2. CASE Done < Len(Here.kids)
  <2>1. Exec(Here.kids[Done + 1], Top.env)
    BY <1>2 DEF ExecBlock
  <2>2. Here.kids[Done + 1] \in NodeId /\ Nodes[Here.kids[Done + 1]].k \in StmtKind
    <3>1. Here.kids \in Seq(NodeId) /\ AllIn(Here.kids, StmtKind)
      BY <1>1, TopType DEF Shape
    <3>2. Done + 1 \in 1 .. Len(Here.kids)
      BY <1>1, <1>2, <3>1
    <3> QED
      BY <3>1, <3>2 DEF AllIn
  <2> QED
    BY <1>1, <2>1, <2>2, ExecShape
<1>3. CASE ~(Done < Len(Here.kids))
  BY <1>1, <1>3, YieldShape DEF ExecBlock
<1> QED
  BY <1>2, <1>3

LEMMA ExecIfShape == ASSUME TypeOK, ExecIf PROVE Halts \/ Descends \/ Enters \/ Pops
<1>1. stack # <<>> /\ flow = Normal /\ Here.k = "If"
  BY DEF ExecIf, At, Running
<1>2. /\ Here.kids[1] \in ExprNode /\ Here.kids[2] \in NodeId /\ Nodes[Here.kids[2]].k \in StmtKind
      /\ Len(Here.kids) = 3 => Here.kids[3] \in NodeId /\ Nodes[Here.kids[3]].k \in StmtKind
  <2> DEFINE ks == Here.kids
  <2>1. /\ ks \in Seq(NodeId) /\ (Len(ks) = 2 \/ Len(ks) = 3) /\ Nodes[ks[1]].k \in ExprKind
        /\ AllIn(Tail(ks), StmtKind)
    BY <1>1, TopType DEF Shape
  <2> HIDE DEF ks
  <2>2. \A j \in 1 .. Len(ks) : ks[j] \in NodeId
    BY <2>1
  <2>3. \A j \in 2 .. Len(ks) : Nodes[ks[j]].k \in StmtKind
    <3>1. SUFFICES ASSUME NEW j \in 2 .. Len(ks) PROVE Nodes[ks[j]].k \in StmtKind
      OBVIOUS
    <3>2. j - 1 \in DOMAIN Tail(ks) /\ Tail(ks)[j - 1] = ks[j]
      BY <2>1
    <3> QED
      BY <2>1, <3>2 DEF AllIn
  <2> QED
    BY <2>1, <2>2, <2>3 DEF ExprNode, ks
<1>3. \/ Eval(Here.kids[1]) \/ Halt("panic") \/ Yield(VoidV) \/ ExecScoped(Here.kids[2])
      \/ Len(Here.kids) = 3 /\ ExecScoped(Here.kids[3])
  BY DEF ExecIf, Branch
<1> QED
  BY <1>1, <1>2, <1>3, NoSlot, EvalShape, HaltShape, YieldShape, ExecScopedShape

\* A loop that starts again is not an assignment.
LEMMA AgainShape ==
  ASSUME TypeOK, stack # <<>>, Here.k # "CompoundAssign", NEW vs, Again(vs) PROVE Sets
<1>1. SafeCell(heap, [Top EXCEPT !.vs = vs])
  BY TopType DEF SafeCell, PendingCell, Here, Frames
<1> QED
  BY <1>1 DEF Again, Sets, Quiet

LEMMA ExecWhileShape == ASSUME TypeOK, ExecWhile PROVE Shapes
<1>1. stack # <<>> /\ flow = Normal /\ Here.k = "While"
  BY DEF ExecWhile, At, Running
<1>2. Here.kids[1] \in ExprNode /\ Here.kids[2] \in NodeId /\ Nodes[Here.kids[2]].k \in StmtKind
  BY <1>1, TopType DEF Shape, ExprNode
<1>3. \/ Eval(Here.kids[1]) \/ Halt("panic") \/ Yield(VoidV) \/ ExecScoped(Here.kids[2])
      \/ Again(<<>>)
  BY DEF ExecWhile, Branch
<1> QED
  BY <1>1, <1>2, <1>3, NoSlot, EvalShape, HaltShape, YieldShape, ExecScopedShape, AgainShape
  DEF Shapes

LEMMA ExecForShape == ASSUME TypeOK, ExecFor PROVE Shapes
<1>1. stack # <<>> /\ flow = Normal /\ Here.k = "For"
  BY DEF ExecFor, At, Running
<1>2. /\ Here.kids[1] \in NodeId /\ Nodes[Here.kids[1]].k \in StmtKind
      /\ Here.kids[2] \in ExprNode /\ Here.kids[3] \in ExprNode
      /\ Here.kids[4] \in NodeId /\ Nodes[Here.kids[4]].k \in StmtKind
  BY <1>1, TopType DEF Shape, ExprNode, StmtKind
<1>3. \/ Exec(Here.kids[1], Top.env) \/ Eval(Here.kids[2]) \/ Eval(Here.kids[3])
      \/ Halt("panic") \/ Yield(VoidV) \/ ExecScoped(Here.kids[4])
      \/ Again(SubSeq(Top.vs, 1, 1))
  BY DEF ExecFor, Branch
<1> QED
  BY <1>1, <1>2, <1>3, NoSlot, EvalShape, HaltShape, YieldShape, ExecShape, ExecScopedShape,
     AgainShape
  DEF Shapes

LEMMA ExecStmtShape == ASSUME TypeOK, ExecStmt PROVE Shapes
<1>1. CASE ExecExpr
  BY <1>1, ReadyShape, YieldShape DEF ExecExpr, Shapes
<1>2. CASE ExecReturn
  BY <1>2, ReadyShape DEF ExecReturn, Returns, Shapes
<1>3. CASE Unwind
  BY <1>3 DEF Unwind, Unwinds, Shapes
<1> QED
  BY <1>1, <1>2, <1>3, ExecVarDeclShape, ExecBlockShape, ExecIfShape, ExecWhileShape, ExecForShape
  DEF ExecStmt, Shapes

LEMMA RunShape == ASSUME TypeOK, Run PROVE Shapes
<1>1. CASE RunDecl
  <2>1. /\ Quiet /\ stack = <<>> /\ decl <= Len(prog)
        /\ \/ stack' = <<>>
           \/ Nodes[prog[decl]].k = "VarDecl" /\ stack' = <<Frame(prog[decl], Globals)>>
    BY <1>1 DEF RunDecl, AtRun, Quiet
  <2>2. prog[decl] \in NodeId
    <3>1. prog \in Seq(NodeId)
      BY ProgramAssumption DEF TypeOK
    <3>2. decl \in 1 .. Len(prog)
      BY <2>1, <3>1 DEF TypeOK
    <3> QED
      BY <3>1, <3>2
  <2> QED
    BY <2>1, <2>2 DEF Begins, Shapes
<1>2. CASE RunMain
  <2>1. stack = <<>> /\ (Halt("panic") \/ CallFunction("main", <<>>, stack))
    BY <1>2 DEF RunMain, AtRun
  <2> QED
    BY <2>1, HaltShape, CallShape DEF Shapes
<1>3. CASE RunEnd
  BY <1>3, HaltShape DEF RunEnd, AtRun, Shapes
<1> QED
  BY <1>1, <1>2, <1>3 DEF Run

\* A step of the interpreter has one of the shapes.
LEMMA StepShape == ASSUME TypeOK, [Next]_vars PROVE Shapes \/ UNCHANGED vars
<1>1. CASE EvalExpr
  BY <1>1, EvalOperandShape, EvalLiteralShape, EvalIdentShape, EvalShortCircuitShape,
     EvalTernaryShape, EvalAssignShape, LoadSlotShape, EvalCompoundAssignShape, EvalIncDecShape,
     EvalIndexShape, EvalArrayLiteralShape, EvalArrayCreationShape, EvalPrintShape,
     OperationShape, EvalCallShape
  DEF EvalExpr, Shapes
<1> QED
  BY <1>1, ExecStmtShape, RunShape DEF Next, Halted
(***************************************************************************)
(* What each shape leaves of the activations.                              *)
(***************************************************************************)
LEMMA Pushed ==
  ASSUME TypeOK, NEW n, NEW e, stack' = Push(n, e)
  PROVE  /\ Len(stack) \in Nat /\ Len(stack') = Len(stack) + 1
         /\ \A j \in 1 .. Len(stack) : stack'[j] = stack[j]
         /\ stack'[Len(stack) + 1] = Frame(n, e)
BY TypeParts DEF Push

\* A caller that is answered has one more value.
LEMMA Answered ==
  ASSUME TypeOK, stack # <<>>, NEW v, stack' = Popped(v)
  PROVE  /\ Len(stack) \in Nat \ {0} /\ Len(stack') = Len(stack) - 1
         /\ \A j \in 1 .. Len(stack) - 2 : stack'[j] = stack[j]
         /\ \A j \in 1 .. Len(stack) - 1 : stack'[j].n = stack[j].n /\ stack'[j].env = stack[j].env
         /\ Len(stack) > 1 =>
              stack'[Len(stack) - 1].vs = Append(stack[Len(stack) - 1].vs, v)
<1>1. stack \in Seq(Frames(Len(heap), Len(envs))) /\ Len(stack) \in Nat \ {0}
  BY TypeParts
<1>2. \A j \in 1 .. Len(stack) : stack[j] \in Frames(Len(heap), Len(envs))
  BY <1>1
<1> DEFINE g(j) == IF j = Len(stack) - 1 THEN [stack[j] EXCEPT !.vs = Append(@, v)] ELSE stack[j]
<1>3. stack' = [j \in 1 .. Len(stack) - 1 |-> g(j)]
  BY DEF Popped
<1>4. \A j \in 1 .. Len(stack) - 1 : g(j).n = stack[j].n /\ g(j).env = stack[j].env
  BY <1>1, <1>2 DEF Frames
<1>5. Len(stack) > 1 => g(Len(stack) - 1).vs = Append(stack[Len(stack) - 1].vs, v)
  BY <1>1, <1>2 DEF Frames
<1>6. \A j \in 1 .. Len(stack) - 2 : g(j) = stack[j]
  BY <1>1
<1> HIDE DEF g
<1>7. Len(stack') = Len(stack) - 1 /\ \A j \in 1 .. Len(stack) - 1 : stack'[j] = g(j)
  BY <1>1, <1>3
<1> QED
  BY <1>1, <1>4, <1>5, <1>6, <1>7

LEMMA Changed ==
  ASSUME TypeOK, stack # <<>>, NEW vs, stack' = SetTop(vs)
  PROVE  /\ Len(stack) \in Nat \ {0} /\ Len(stack') = Len(stack)
         /\ \A j \in 1 .. Len(stack) - 1 : stack'[j] = stack[j]
         /\ stack'[Len(stack)] = [Top EXCEPT !.vs = vs]
         /\ \A j \in 1 .. Len(stack) : stack'[j].n = stack[j].n /\ stack'[j].env = stack[j].env
<1>1. stack \in Seq(Frames(Len(heap), Len(envs))) /\ Len(stack) \in Nat \ {0}
  BY TypeParts
<1> DEFINE f == [Top EXCEPT !.vs = vs]
<1>2. f.n = Top.n /\ f.env = Top.env
  BY TopType DEF Frames
<1>3. stack' = [stack EXCEPT ![Len(stack)] = f]
  BY DEF SetTop, Top
<1> HIDE DEF f
<1>4. /\ Len(stack') = Len(stack) /\ \A j \in 1 .. Len(stack) - 1 : stack'[j] = stack[j]
      /\ stack'[Len(stack)] = f
  BY <1>1, <1>3
<1>5. \A j \in 1 .. Len(stack) : j = Len(stack) \/ j \in 1 .. Len(stack) - 1
  BY <1>1
<1> QED
  BY <1>1, <1>2, <1>4, <1>5 DEF f, Top

LEMMA Cut ==
  ASSUME TypeOK, stack # <<>>, stack' = SubSeq(stack, 1, Len(stack) - 1)
  PROVE  /\ Len(stack) \in Nat \ {0} /\ Len(stack') = Len(stack) - 1
         /\ \A j \in 1 .. Len(stack) - 1 : stack'[j] = stack[j]
<1> DEFINE F == Frames(Len(heap), Len(envs))
<1>1. stack \in Seq(F) /\ Len(stack) \in Nat \ {0}
  BY TypeParts
<1> HIDE DEF F
<1> DEFINE k == Len(stack) - 1
<1>2. k \in Nat /\ 1 \in Int /\ \A j \in 1 .. k : stack[j] \in F
  BY <1>1
<1> HIDE DEF k
<1>3. /\ Len(SubSeq(stack, 1, k)) = IF 1 <= k THEN k - 1 + 1 ELSE 0
      /\ \A j \in 1 .. k - 1 + 1 : SubSeq(stack, 1, k)[j] = stack[1 + j - 1]
  BY <1>2, SubSeqProperties
<1>4. Len(SubSeq(stack, 1, k)) = k /\ \A j \in 1 .. k : SubSeq(stack, 1, k)[j] = stack[j]
  BY <1>2, <1>3
<1> QED
  BY <1>1, <1>4 DEF k
(***************************************************************************)
(* A compound assignment's cell.                                           *)
(***************************************************************************)
Slots == SlotStaysInBounds /\ SlotsAreTakenAtOnce

\* The same, in terms of the frames and the heap of a state.
SlotsOf(h, st) == /\ \A j \in 1 .. Len(st) : SafeCell(h, st[j])
                  /\ \A j \in 1 .. Len(st) - 1 : ~AwaitsSlot(st[j])

LEMMA SlotsMean == ASSUME TypeOK PROVE Slots <=> SlotsOf(heap, stack)
<1>1. DOMAIN stack = 1 .. Len(stack)
  BY TypeParts
<1> QED
  BY <1>1 DEF Slots, SlotsOf, SlotStaysInBounds, SlotsAreTakenAtOnce, SafeCell, InBounds

\* An array's cells are where they were.
LEMMA CellStaysSafe ==
  ASSUME TypeOK, CellsStay, NEW f \in Frames(Len(heap), Len(envs)), SafeCell(heap, f)
  PROVE  SafeCell(heap', f)
<1>1. SUFFICES ASSUME PendingCell(f)
               PROVE  /\ f.vs[1].k = "Array" /\ f.vs[2].k = "Int"
                      /\ f.vs[2].i \in 0 .. Len(heap'[f.vs[1].r]) - 1
  BY DEF SafeCell
<1>2. f.vs[1].k = "Array" /\ f.vs[2].k = "Int" /\ f.vs[2].i \in 0 .. Len(heap[f.vs[1].r]) - 1
  BY <1>1 DEF SafeCell
<1>3. f.vs \in Seq(Value(Len(heap))) /\ Len(f.vs) > 2
  BY <1>1 DEF PendingCell, Frames
<1>4. f.vs[1] \in Value(Len(heap))
  BY <1>3
<1>5. f.vs[1].r \in 1 .. Len(heap)
  BY <1>2, <1>4, ValueCases
<1>6. Len(heap'[f.vs[1].r]) = Len(heap[f.vs[1].r])
  BY <1>5 DEF CellsStay
<1> QED
  BY <1>2, <1>6

\* A caller that was not waiting for a slot may be given a value.
LEMMA AnsweredStaysSafe ==
  ASSUME NEW m, NEW e, NEW f \in Frames(m, e), NEW g, NEW v, NEW h,
         g.n = f.n, g.vs = Append(f.vs, v), ~AwaitsSlot(f), SafeCell(h, f)
  PROVE  SafeCell(h, g)
<1>1. f.vs \in Seq(Value(m)) /\ Len(f.vs) \in Nat
  BY DEF Frames
<1>2. SUFFICES ASSUME PendingCell(g)
               PROVE  /\ g.vs[1].k = "Array" /\ g.vs[2].k = "Int"
                      /\ g.vs[2].i \in 0 .. Len(h[g.vs[1].r]) - 1
  BY DEF SafeCell
<1>3. Len(f.vs) > 2
  <2>1. Len(g.vs) = Len(f.vs) + 1 /\ Len(g.vs) > 2
    BY <1>1, <1>2 DEF PendingCell
  <2>2. Len(f.vs) # 2
    <3>1. Nodes[f.n].k = "CompoundAssign" /\ TargetKind(Nodes[f.n]) = "Index"
      BY <1>2 DEF PendingCell
    <3> QED
      BY <3>1 DEF AwaitsSlot
  <2> DEFINE a == Len(f.vs)  b == Len(g.vs)
  <2>3. a \in Nat /\ b = a + 1 /\ b > 2 /\ a # 2
    BY <1>1, <2>1, <2>2
  <2> HIDE DEF a, b
  <2>4. a > 2
    BY <2>3
  <2> QED
    BY <2>4 DEF a
<1>4. PendingCell(f)
  BY <1>2, <1>3 DEF PendingCell
<1>5. g.vs[1] = f.vs[1] /\ g.vs[2] = f.vs[2]
  BY <1>1, <1>3
<1> QED
  BY <1>4, <1>5 DEF SafeCell

LEMMA PushKeepsSlots ==
  ASSUME TypeOK, SlotsOf(heap, stack), NEW n, NEW e, stack' = Push(n, e), heap' = heap,
         stack = <<>> \/ ~AwaitsSlot(Top)
  PROVE  SlotsOf(heap', stack')
<1>1. SafeCell(heap, Frame(n, e))
  BY DEF SafeCell, PendingCell, Frame
<1>2. ASSUME NEW j \in 1 .. Len(stack') PROVE SafeCell(heap', stack'[j])
  <2>1. j \in 1 .. Len(stack) \/ j = Len(stack) + 1
    BY Pushed
  <2> QED
    BY <1>1, <2>1, Pushed DEF SlotsOf
<1>3. ASSUME NEW j \in 1 .. Len(stack') - 1 PROVE ~AwaitsSlot(stack'[j])
  <2>1. j \in 1 .. Len(stack) /\ stack'[j] = stack[j]
    BY Pushed
  <2>2. CASE j = Len(stack)
    BY <2>1, <2>2 DEF Top
  <2>3. CASE j # Len(stack)
    <3>1. j \in 1 .. Len(stack) - 1
      BY <2>1, <2>3, Pushed
    <3> QED
      BY <2>1, <3>1 DEF SlotsOf
  <2> QED
    BY <2>2, <2>3
<1> QED
  BY <1>2, <1>3 DEF SlotsOf

LEMMA PopKeepsSlots ==
  ASSUME TypeOK, SlotsOf(heap, stack), stack # <<>>, CellsStay, NEW v, stack' = Popped(v)
  PROVE  SlotsOf(heap', stack')
<1> DEFINE k == Len(stack) - 1
<1>1. k \in Nat /\ Len(stack') = k /\ Len(stack) = k + 1
  BY Answered
<1>2. ASSUME NEW j \in 1 .. k
      PROVE  /\ stack[j] \in Frames(Len(heap), Len(envs))
             /\ SafeCell(heap, stack[j]) /\ SafeCell(heap', stack[j]) /\ ~AwaitsSlot(stack[j])
  <2>1. j \in 1 .. Len(stack) /\ j \in 1 .. Len(stack) - 1
    BY <1>1
  <2>2. stack[j] \in Frames(Len(heap), Len(envs)) /\ SafeCell(heap, stack[j])
    BY <2>1, TypeParts DEF SlotsOf
  <2>3. ~AwaitsSlot(stack[j])
    BY <2>1 DEF SlotsOf
  <2> QED
    BY <2>2, <2>3, CellStaysSafe
<1>3. ASSUME NEW j \in 1 .. k PROVE SafeCell(heap', stack'[j])
  <2>1. CASE j = k
    <3>1. stack'[j].n = stack[j].n /\ stack'[j].vs = Append(stack[j].vs, v)
      BY <1>1, <2>1, Answered
    <3> QED
      BY <1>2, <3>1, AnsweredStaysSafe
  <2>2. CASE j # k
    <3>1. stack'[j] = stack[j]
      BY <1>1, <2>2, Answered
    <3> QED
      BY <1>2, <3>1
  <2> QED
    BY <2>1, <2>2
<1>4. ASSUME NEW j \in 1 .. k - 1 PROVE ~AwaitsSlot(stack'[j])
  <2>1. j \in 1 .. k /\ stack'[j] = stack[j]
    BY <1>1, Answered
  <2> QED
    BY <1>2, <2>1
<1> QED
  BY <1>1, <1>3, <1>4 DEF SlotsOf

LEMMA SetKeepsSlots ==
  ASSUME TypeOK, SlotsOf(heap, stack), stack # <<>>, heap' = heap,
         NEW vs, SafeCell(heap, [Top EXCEPT !.vs = vs]), stack' = SetTop(vs)
  PROVE  SlotsOf(heap', stack')
<1>1. ASSUME NEW j \in 1 .. Len(stack') PROVE SafeCell(heap', stack'[j])
  <2>1. j = Len(stack) \/ j \in 1 .. Len(stack) - 1
    BY Changed
  <2>2. j \in 1 .. Len(stack)
    BY Changed
  <2> QED
    BY <2>1, <2>2, Changed DEF SlotsOf
<1>2. ASSUME NEW j \in 1 .. Len(stack') - 1 PROVE ~AwaitsSlot(stack'[j])
  BY Changed DEF SlotsOf
<1> QED
  BY <1>1, <1>2 DEF SlotsOf

LEMMA CutKeepsSlots ==
  ASSUME TypeOK, SlotsOf(heap, stack), stack # <<>>, heap' = heap,
         stack' = SubSeq(stack, 1, Len(stack) - 1)
  PROVE  SlotsOf(heap', stack')
<1>1. ASSUME NEW j \in 1 .. Len(stack') PROVE SafeCell(heap', stack'[j])
  BY Cut DEF SlotsOf
<1>2. ASSUME NEW j \in 1 .. Len(stack') - 1 PROVE ~AwaitsSlot(stack'[j])
  BY Cut DEF SlotsOf
<1> QED
  BY <1>1, <1>2 DEF SlotsOf

LEMMA StepKeepsSlots ==
  ASSUME TypeOK, Shapes, SlotsOf(heap, stack) PROVE SlotsOf(heap', stack')
<1>1. CASE Halts
  BY <1>1 DEF Halts, SlotsOf
<1>2. CASE Begins
  <2>1. stack' = <<>> => SlotsOf(heap', stack')
    BY DEF SlotsOf
  <2>2. ASSUME NEW n \in NodeId, stack' = <<Frame(n, Globals)>> PROVE SlotsOf(heap', stack')
    <3>1. SafeCell(heap', Frame(n, Globals))
      BY DEF SafeCell, PendingCell, Frame
    <3> DEFINE f == Frame(n, Globals)
    <3> HIDE DEF f
    <3>2. Len(<<f>>) = 1 /\ <<f>>[1] = f
      OBVIOUS
    <3> QED
      BY <2>2, <3>1, <3>2 DEF SlotsOf, f
  <2> QED
    BY <1>2, <2>1, <2>2 DEF Begins
<1>3. CASE Descends
  BY <1>3, PushKeepsSlots DEF Descends, Quiet
<1>4. CASE Enters
  BY <1>4, NoSlot, PushKeepsSlots DEF Enters
<1>5. CASE Calls
  BY <1>5, NoSlot, PushKeepsSlots DEF Calls
<1>6. CASE Pops
  BY <1>6, PopKeepsSlots DEF Pops
<1>7. CASE Sets
  BY <1>7, SetKeepsSlots DEF Sets, Quiet
<1>8. CASE Returns
  BY <1>8, CutKeepsSlots DEF Returns
<1>9. CASE Unwinds
  <2>1. heap' = heap /\ CellsStay
    BY <1>9, TypeParts DEF Unwinds, CellsStay
  <2> QED
    BY <1>9, <2>1, PopKeepsSlots, CutKeepsSlots DEF Unwinds
<1> QED
  BY <1>1, <1>2, <1>3, <1>4, <1>5, <1>6, <1>7, <1>8, <1>9 DEF Shapes

\* The cell that a compound assignment checked before its right-hand side was evaluated
\* is still there when it stores to it, whatever that side did.
THEOREM SlotSafety == Spec => []SlotStaysInBounds
<1>1. Init => Slots
  BY DEF Init, Slots, SlotStaysInBounds, SlotsAreTakenAtOnce
<1>2. TypeOK /\ TypeOK' /\ Slots /\ [Next]_vars => Slots'
  <2>1. SUFFICES ASSUME TypeOK, TypeOK', Slots, [Next]_vars PROVE Slots'
    OBVIOUS
  <2>2. SlotsOf(heap, stack)
    BY <2>1, SlotsMean
  <2>3. SlotsOf(heap', stack')
    BY <2>1, <2>2, StepShape, StepKeepsSlots DEF vars
  <2>4. DOMAIN stack' = 1 .. Len(stack')
    BY <2>1 DEF TypeOK
  <2> QED
    BY <2>3, <2>4 DEF Slots, SlotsOf, SlotStaysInBounds, SlotsAreTakenAtOnce, SafeCell, InBounds
<1>3. Slots => SlotStaysInBounds
  BY DEF Slots
<1> QED
  BY <1>1, <1>2, <1>3, TypeCorrect, PTL DEF Spec
(***************************************************************************)
(* A Return's call.                                                        *)
(***************************************************************************)
IsFunc(st, j) == Nodes[st[j].n].k = "Func"
CallsOf(st) == \A j \in 1 .. Len(st) : Nodes[st[j].n].k \in InCall => \E j2 \in 1 .. j - 1 : IsFunc(st, j2)
ReturnOf(fl, st) == fl # Normal => \E j \in 1 .. Len(st) : IsFunc(st, j)
Kept(s, st) == \A j \in 1 .. Len(st) : st[j].n = s[j].n

\* What is cut off the end of the stack was nothing's call.
LEMMA FewerCalls ==
  ASSUME Len(stack) \in Nat, Len(stack') \in Nat, Len(stack') <= Len(stack),
         Kept(stack, stack'), CallsOf(stack)
  PROVE  CallsOf(stack')
<1>1. ASSUME NEW j \in 1 .. Len(stack'), Nodes[stack'[j].n].k \in InCall
      PROVE  \E j2 \in 1 .. j - 1 : IsFunc(stack', j2)
  <2>1. j \in 1 .. Len(stack) /\ Nodes[stack[j].n].k \in InCall
    BY <1>1 DEF Kept
  <2>2. PICK j2 \in 1 .. j - 1 : IsFunc(stack, j2)
    BY <2>1 DEF CallsOf
  <2>3. j2 \in 1 .. Len(stack')
    BY <1>1
  <2> QED
    BY <2>2, <2>3 DEF IsFunc, Kept
<1> QED
  BY <1>1 DEF CallsOf

\* A frame is pushed in a call, or needs none.
LEMMA MoreCalls ==
  ASSUME TypeOK, CallsOf(stack), NEW n, NEW e, stack' = Push(n, e),
         Nodes[n].k \in InCall => \E j2 \in 1 .. Len(stack) : IsFunc(stack, j2)
  PROVE  CallsOf(stack')
<1> DEFINE k == Len(stack)
<1>1. k \in Nat /\ Len(stack') = k + 1 /\ \A j \in 1 .. k : stack'[j] = stack[j]
  BY Pushed
<1>2. stack'[k + 1].n = n
  <2>1. stack'[k + 1] = Frame(n, e)
    BY Pushed
  <2>2. Frame(n, e).n = n
    BY DEF Frame
  <2> QED
    BY <2>1, <2>2
<1>3. ASSUME NEW j \in 1 .. Len(stack'), Nodes[stack'[j].n].k \in InCall
      PROVE  \E j2 \in 1 .. j - 1 : IsFunc(stack', j2)
  <2>1. CASE j = k + 1
    <3>1. PICK j2 \in 1 .. k : IsFunc(stack, j2)
      BY <1>2, <1>3, <2>1
    <3>2. j2 \in 1 .. j - 1 /\ stack'[j2] = stack[j2]
      BY <1>1, <2>1, <3>1
    <3> QED
      BY <3>1, <3>2 DEF IsFunc
  <2>2. CASE j # k + 1
    <3>1. j \in 1 .. k
      BY <1>1, <2>2
    <3>2. stack'[j] = stack[j]
      BY <1>1, <3>1
    <3>3. PICK j2 \in 1 .. j - 1 : IsFunc(stack, j2)
      BY <1>3, <3>1, <3>2 DEF CallsOf
    <3>4. stack'[j2] = stack[j2]
      BY <1>1, <3>1
    <3> QED
      BY <3>3, <3>4 DEF IsFunc
  <2> QED
    BY <2>1, <2>2
<1> QED
  BY <1>3 DEF CallsOf

\* A push or a change of values leaves a Return its call.
LEMMA StillReturns ==
  ASSUME Len(stack) \in Nat, Len(stack') \in Nat, Len(stack) <= Len(stack'),
         Kept(stack', stack), flow' = flow, ReturnOf(flow, stack)
  PROVE  ReturnOf(flow', stack')
<1>1. SUFFICES ASSUME flow # Normal PROVE \E j \in 1 .. Len(stack') : IsFunc(stack', j)
  BY DEF ReturnOf
<1>2. PICK j \in 1 .. Len(stack) : IsFunc(stack, j)
  BY <1>1 DEF ReturnOf
<1>3. j \in 1 .. Len(stack') /\ stack'[j].n = stack[j].n
  BY DEF Kept
<1> QED
  BY <1>2, <1>3 DEF IsFunc

LEMMA RunningReturns == ASSUME flow' = Normal PROVE ReturnOf(flow', stack')
BY DEF ReturnOf

\* No expression, and no function, needs a call to be in.
LEMMA NotInCall == /\ \A n : Nodes[n].k \in ExprKind \cup {"Func", "VarDecl"} => Nodes[n].k \notin InCall
BY DEF InCall, StmtKind, ExprKind
LEMMA PushReturns ==
  ASSUME TypeOK, ReturnOf(flow, stack), NEW n, NEW e, stack' = Push(n, e), flow' = flow
  PROVE  ReturnOf(flow', stack')
<1>1. Len(stack) \in Nat /\ Len(stack') = Len(stack) + 1 /\ Kept(stack', stack)
  BY Pushed DEF Kept
<1> QED
  BY <1>1, StillReturns

\* While a Return is on its way up, nothing else happens.
LEMMA ReturnsFirst == ASSUME Next, flow # Normal, stack # <<>> PROVE Unwind \/ UNCHANGED vars
<1>1. ~EvalExpr
  BY DEF EvalExpr, EvalOperand, EvalLiteral, EvalIdent, EvalBinary, EvalShortCircuit, EvalTernary,
     EvalUnary, EvalAssign, LoadSlot, EvalCompoundAssign, EvalIncDec, EvalIndex, EvalFieldAccess,
     EvalArrayLiteral, EvalArrayCreation, EvalPrint, EvalBuiltin, EvalCall, EndCall, Ready, At,
     Running
<1>2. ~(ExecExpr \/ ExecVarDecl \/ ExecBlock \/ ExecIf \/ ExecWhile \/ ExecFor \/ ExecReturn)
  BY DEF ExecExpr, ExecVarDecl, ExecBlock, ExecIf, ExecWhile, ExecFor, ExecReturn, Ready, At,
     Running
<1>3. ~Run
  BY DEF Run, RunDecl, RunMain, RunEnd, AtRun
<1> QED
  BY <1>1, <1>2, <1>3 DEF Next, ExecStmt, Halted

LEMMA StepKeepsReturn ==
  ASSUME TypeOK, Shapes, CallsOf(stack), ReturnOf(flow, stack),
         Unwinds \/ flow = Normal \/ stack = <<>>
  PROVE  CallsOf(stack') /\ ReturnOf(flow', stack')
<1>1. CASE Halts
  <2>1. flow' = Normal
    <3>1. stack = <<>> => flow = Normal
      BY DEF ReturnOf
    <3> QED
      BY <1>1, <3>1 DEF Halts, Quiet
  <2>2. CallsOf(stack')
    BY <1>1 DEF Halts, CallsOf
  <2> QED
    BY <2>1, <2>2, RunningReturns
<1>2. CASE Begins
  <2>1. flow' = Normal
    BY <1>2 DEF Begins, Quiet, ReturnOf
  <2>2. CASE stack' = <<>>
    BY <2>1, <2>2, RunningReturns DEF CallsOf
  <2>3. ASSUME NEW n \in NodeId, Nodes[n].k = "VarDecl", stack' = <<Frame(n, Globals)>>
        PROVE  CallsOf(stack')
    <3> DEFINE f == Frame(n, Globals)
    <3>1. f.n = n
      BY DEF Frame
    <3> HIDE DEF f
    <3>2. Len(stack') = 1 /\ stack'[1] = f
      BY <2>3 DEF f
    <3>3. \A j \in 1 .. Len(stack') : Nodes[stack'[j].n].k \notin InCall
      BY <2>3, <3>1, <3>2, NotInCall
    <3> QED
      BY <3>3 DEF CallsOf
  <2> QED
    BY <1>2, <2>1, <2>2, <2>3, RunningReturns DEF Begins
<1>3. CASE Descends
  <2>1. PICK n \in NodeId : Nodes[n].k \in ExprKind /\ stack' = Push(n, Top.env)
    BY <1>3 DEF Descends
  <2>2. CallsOf(stack')
    BY <2>1, NotInCall, MoreCalls
  <2>3. ReturnOf(flow', stack')
    BY <1>3, <2>1, PushReturns DEF Descends, Quiet
  <2> QED
    BY <2>2, <2>3
<1>4. CASE Enters
  <2>1. PICK n \in NodeId, e \in {Top.env} \cup (Len(envs) + 1 .. Len(envs')) :
          Nodes[n].k \in StmtKind /\ stack' = Push(n, e)
    BY <1>4 DEF Enters
  <2>2. \E j \in 1 .. Len(stack) : IsFunc(stack, j)
    <3>1. Len(stack) \in Nat \ {0} /\ Here.k \in {"Func"} \cup InCall
      BY <1>4, TypeParts DEF Enters, InCall, StmtKind
    <3>2. CASE Here.k = "Func"
      BY <3>1, <3>2 DEF IsFunc, Here, Top
    <3>3. CASE Here.k \in InCall
      <4>1. \E j \in 1 .. Len(stack) - 1 : IsFunc(stack, j)
        BY <3>1, <3>3 DEF CallsOf, Here, Top
      <4> QED
        BY <3>1, <4>1
    <3> QED
      BY <3>1, <3>2, <3>3
  <2>3. CallsOf(stack')
    BY <2>1, <2>2, MoreCalls
  <2>4. ReturnOf(flow', stack')
    BY <1>4, <2>1, PushReturns DEF Enters
  <2> QED
    BY <2>3, <2>4
<1>5. CASE Calls
  <2>1. PICK n \in NodeId : Nodes[n].k = "Func" /\ stack' = Push(n, Len(envs) + 1)
    BY <1>5 DEF Calls
  <2>2. CallsOf(stack')
    BY <2>1, NotInCall, MoreCalls
  <2>3. ReturnOf(flow', stack')
    BY <1>5, <2>1, PushReturns DEF Calls
  <2> QED
    BY <2>2, <2>3
<1>6. CASE Pops /\ ~Unwinds
  <2>1. PICK v : stack' = Popped(v)
    BY <1>6 DEF Pops
  <2>2. /\ Len(stack) \in Nat /\ Len(stack') \in Nat /\ Len(stack') <= Len(stack)
        /\ Kept(stack, stack')
    BY <1>6, <2>1, Answered DEF Pops, Kept
  <2>3. flow' = Normal
    BY <1>6 DEF Pops
  <2> QED
    BY <2>2, <2>3, FewerCalls, RunningReturns
<1>7. CASE Sets
  <2>1. PICK vs : stack' = SetTop(vs)
    BY <1>7 DEF Sets
  <2>2. Len(stack) \in Nat /\ Len(stack') = Len(stack) /\ Kept(stack, stack') /\ Kept(stack', stack)
    BY <1>7, <2>1, Changed DEF Sets, Kept
  <2> QED
    BY <1>7, <2>2, FewerCalls, StillReturns DEF Sets, Quiet
<1>8. CASE Returns
  <2>1. /\ Len(stack) \in Nat \ {0} /\ Len(stack') = Len(stack) - 1 /\ Kept(stack, stack')
    BY <1>8, Cut DEF Returns, Kept
  <2>2. CallsOf(stack')
    BY <2>1, FewerCalls
  <2>3. PICK j \in 1 .. Len(stack) - 1 : IsFunc(stack, j)
    <3>1. Here.k \in InCall
      BY <1>8 DEF Returns, InCall, StmtKind
    <3> QED
      BY <2>1, <3>1 DEF CallsOf, Here, Top
  <2>4. j \in 1 .. Len(stack') /\ IsFunc(stack', j)
    BY <2>1, <2>3 DEF IsFunc, Kept
  <2> QED
    BY <2>2, <2>4 DEF ReturnOf
<1>9. CASE Unwinds
  <2>1. CASE Here.k = "Func" /\ flow' = Normal /\ \E v : stack' = Popped(v)
    <3>1. PICK v : stack' = Popped(v)
      BY <2>1
    <3>2. Len(stack) \in Nat \ {0} /\ Len(stack') = Len(stack) - 1 /\ Kept(stack, stack')
      BY <1>9, <3>1, Answered DEF Unwinds, Kept
    <3> QED
      BY <2>1, <3>2, FewerCalls, RunningReturns
  <2>2. CASE /\ Here.k # "Func" /\ flow' = flow
             /\ stack' = SubSeq(stack, 1, Len(stack) - 1)
    <3>1. Len(stack) \in Nat \ {0} /\ Len(stack') = Len(stack) - 1 /\ Kept(stack, stack')
      BY <1>9, <2>2, Cut DEF Unwinds, Kept
    <3>2. CallsOf(stack')
      BY <3>1, FewerCalls
    <3>3. PICK j \in 1 .. Len(stack) : IsFunc(stack, j)
      BY <1>9 DEF Unwinds, ReturnOf
    <3>4. j # Len(stack)
      BY <2>2, <3>3 DEF IsFunc, Here, Top
    <3>5. j \in 1 .. Len(stack') /\ IsFunc(stack', j)
      BY <3>1, <3>3, <3>4 DEF IsFunc, Kept
    <3> QED
      BY <3>2, <3>5 DEF ReturnOf
  <2> QED
    BY <1>9, <2>1, <2>2 DEF Unwinds
<1> QED
  BY <1>1, <1>2, <1>3, <1>4, <1>5, <1>6, <1>7, <1>8, <1>9 DEF Shapes

\* A `return` is always inside a call, and its Return leaves the statements around it
\* one by one until it meets that call: it never unwinds past it.
THEOREM ReturnSafety == Spec => []ReturnHasItsCall
<1> DEFINE I == ReturnHasItsCall /\ StatementsBelongToCalls
<1>1. Init => I
  BY DEF Init, ReturnHasItsCall, StatementsBelongToCalls
<1>2. TypeOK /\ TypeOK' /\ I /\ [Next]_vars => I'
  <2>1. SUFFICES ASSUME TypeOK, TypeOK', I, [Next]_vars PROVE I'
    OBVIOUS
  <2>2. DOMAIN stack = 1 .. Len(stack) /\ DOMAIN stack' = 1 .. Len(stack')
    BY <2>1 DEF TypeOK
  <2>3. CallsOf(stack) /\ ReturnOf(flow, stack)
    BY <2>1, <2>2 DEF ReturnHasItsCall, StatementsBelongToCalls, CallsOf, ReturnOf, IsFunc
  <2>4. CallsOf(stack') /\ ReturnOf(flow', stack')
    <3>1. CASE UNCHANGED vars
      BY <2>3, <3>1 DEF vars
    <3>2. CASE Next /\ Shapes /\ ~UNCHANGED vars
      <4>1. Unwind => Unwinds
        BY DEF Unwind, Unwinds
      <4>2. Unwinds \/ flow = Normal \/ stack = <<>>
        BY <3>2, <4>1, ReturnsFirst
      <4> QED
        BY <2>1, <2>3, <3>2, <4>2, StepKeepsReturn
    <3> QED
      BY <2>1, <3>1, <3>2, StepShape
  <2> QED
    BY <2>2, <2>4 DEF ReturnHasItsCall, StatementsBelongToCalls, CallsOf, ReturnOf, IsFunc
<1>3. I => ReturnHasItsCall
  OBVIOUS
<1> QED
  BY <1>1, <1>2, <1>3, TypeCorrect, PTL DEF Spec
(***************************************************************************)
(* Activations see nothing of each other.                                  *)
(***************************************************************************)
CallsUpTo(st, j) == {j2 \in 1 .. j : IsFunc(st, j2)}
CallAt(st, j) == LET fs == CallsUpTo(st, j)
                 IN  IF fs = {} THEN 0 ELSE CHOOSE j2 \in fs : \A j3 \in fs : j3 <= j2
Apart(es, st, j1, j2) ==
  CallAt(st, j1) # CallAt(st, j2) => Sees(es, st[j1].env) \cap Sees(es, st[j2].env) = {Globals}
IsolatedOf(es, st) == \A j1, j2 \in 1 .. Len(st) : Apart(es, st, j1, j2)
GlobalsOf(es) == es[Globals].chain = <<Globals>> /\ \A e \in 1 .. Len(es) : Globals \in Sees(es, e)

LEMMA SameCall ==
  ASSUME NEW s, NEW t, NEW j, NEW j2, CallsUpTo(s, j) = CallsUpTo(t, j2)
  PROVE  CallAt(s, j) = CallAt(t, j2)
BY DEF CallAt

LEMMA KeptCall ==
  ASSUME NEW s, NEW t, NEW j \in Nat, \A j2 \in 1 .. j : t[j2].n = s[j2].n
  PROVE  CallAt(t, j) = CallAt(s, j)
<1>1. CallsUpTo(t, j) = CallsUpTo(s, j)
  BY DEF CallsUpTo, IsFunc
<1> QED
  BY <1>1, SameCall

LEMMA SameSees ==
  ASSUME NEW es, NEW fs, NEW e, fs[e].chain = es[e].chain PROVE Sees(fs, e) = Sees(es, e)
BY DEF Sees

\* An environment sees environments that exist, and a frame's environment is one.
LEMMA SeesType ==
  ASSUME TypeOK
  PROVE  /\ Len(envs) \in Nat \ {0} /\ Len(stack) \in Nat /\ Globals \in 1 .. Len(envs)
         /\ \A e \in 1 .. Len(envs) : Sees(envs, e) \subseteq 1 .. Len(envs)
         /\ \A j \in 1 .. Len(stack) : stack[j].env \in 1 .. Len(envs)
<1>1. /\ envs \in Seq(Environments(Len(heap), Len(envs))) /\ Len(envs) \in Nat \ {0}
      /\ stack \in Seq(Frames(Len(heap), Len(envs))) /\ Globals \in 1 .. Len(envs)
  BY TypeParts
<1>2. ASSUME NEW e \in 1 .. Len(envs) PROVE Sees(envs, e) \subseteq 1 .. Len(envs)
  <2>1. envs[e] \in Environments(Len(heap), Len(envs))
    BY <1>1
  <2>2. envs[e].chain \in Seq(1 .. Len(envs))
    BY <2>1 DEF Environments
  <2> QED
    BY <2>2 DEF Sees
<1>3. ASSUME NEW j \in 1 .. Len(stack) PROVE stack[j].env \in 1 .. Len(envs)
  <2>1. stack[j] \in Frames(Len(heap), Len(envs))
    BY <1>1
  <2> QED
    BY <2>1 DEF Frames
<1> QED
  BY <1>1, <1>2, <1>3

\* Steps that take frames away, or change only values.
LEMMA FewerApart ==
  ASSUME TypeOK, IsolatedOf(envs, stack), Len(stack') \in Nat, Len(stack') <= Len(stack),
         \A j \in 1 .. Len(stack') : stack'[j].n = stack[j].n /\ stack'[j].env = stack[j].env,
         \A e \in 1 .. Len(envs) : envs'[e].chain = envs[e].chain
  PROVE  IsolatedOf(envs', stack')
<1>1. ASSUME NEW j \in 1 .. Len(stack')
      PROVE  /\ j \in 1 .. Len(stack) /\ CallAt(stack', j) = CallAt(stack, j)
             /\ Sees(envs', stack'[j].env) = Sees(envs, stack[j].env)
  <2>1. j \in 1 .. Len(stack) /\ stack'[j].env = stack[j].env /\ stack[j].env \in 1 .. Len(envs)
    BY SeesType
  <2>2. CallAt(stack', j) = CallAt(stack, j)
    <3>1. j \in Nat /\ \A j2 \in 1 .. j : stack'[j2].n = stack[j2].n
      OBVIOUS
    <3> QED
      BY <3>1, KeptCall
  <2> QED
    BY <2>1, <2>2, SameSees
<1> QED
  BY <1>1 DEF IsolatedOf, Apart

\* A frame whose environment sees what s holds, and new environments: it is apart from
\* the frames that s is apart from.
LEMMA OneMoreApart ==
  ASSUME TypeOK, IsolatedOf(envs, stack), GlobalsOf(envs), NEW n, NEW e, stack' = Push(n, e),
         \A e2 \in 1 .. Len(envs) : envs'[e2].chain = envs[e2].chain,
         NEW s, Globals \in s, s \subseteq Sees(envs', e),
         \A x \in Sees(envs', e) : x \in s \/ x \notin 1 .. Len(envs),
         \A j \in 1 .. Len(stack) : CallAt(stack', Len(stack) + 1) # CallAt(stack, j)
                                      => s \cap Sees(envs, stack[j].env) = {Globals}
  PROVE  IsolatedOf(envs', stack')
<1> DEFINE k == Len(stack)
<1>1. k \in Nat /\ Len(stack') = k + 1 /\ \A j \in 1 .. k : stack'[j] = stack[j]
  BY Pushed
<1>2. stack'[k + 1].env = e
  <2>1. stack'[k + 1] = Frame(n, e)
    BY Pushed
  <2>2. Frame(n, e).env = e
    BY DEF Frame
  <2> QED
    BY <2>1, <2>2
<1>3. ASSUME NEW j \in 1 .. k
      PROVE  /\ CallAt(stack', j) = CallAt(stack, j)
             /\ Sees(envs', stack'[j].env) = Sees(envs, stack[j].env)
             /\ Sees(envs, stack[j].env) \subseteq 1 .. Len(envs)
             /\ Globals \in Sees(envs, stack[j].env)
  <2>1. stack'[j] = stack[j] /\ stack[j].env \in 1 .. Len(envs)
    BY <1>1, SeesType
  <2>2. CallAt(stack', j) = CallAt(stack, j)
    <3>1. j \in Nat /\ \A j2 \in 1 .. j : stack'[j2].n = stack[j2].n
      BY <1>1
    <3> QED
      BY <3>1, KeptCall
  <2> QED
    BY <2>1, <2>2, SameSees, SeesType DEF GlobalsOf
<1>4. ASSUME NEW j \in 1 .. k PROVE Apart(envs', stack', k + 1, j) /\ Apart(envs', stack', j, k + 1)
  <2>1. SUFFICES ASSUME CallAt(stack', k + 1) # CallAt(stack', j)
                 PROVE  Sees(envs', e) \cap Sees(envs', stack'[j].env) = {Globals}
    BY <1>2 DEF Apart
  <2>2. s \cap Sees(envs, stack[j].env) = {Globals}
    BY <1>3, <2>1
  <2> QED
    BY <1>3, <2>2
<1>5. ASSUME NEW j1 \in 1 .. k, NEW j2 \in 1 .. k PROVE Apart(envs', stack', j1, j2)
  <2>1. Apart(envs, stack, j1, j2)
    BY DEF IsolatedOf
  <2> QED
    BY <1>3, <2>1 DEF Apart
<1>6. Apart(envs', stack', k + 1, k + 1)
  BY DEF Apart
<1>7. \A j \in 1 .. Len(stack') : j \in 1 .. k \/ j = k + 1
  BY <1>1
<1> HIDE DEF k
<1> QED
  BY <1>4, <1>5, <1>6, <1>7 DEF IsolatedOf
\* An operand, a statement or a body belongs to the call that its parent belongs to.
LEMMA InnerApart ==
  ASSUME TypeOK, IsolatedOf(envs, stack), GlobalsOf(envs), stack # <<>>, ScopesUnder(Top.env),
         NEW n, Nodes[n].k # "Func", NEW e \in {Top.env} \cup (Len(envs) + 1 .. Len(envs')),
         stack' = Push(n, e)
  PROVE  IsolatedOf(envs', stack')
<1> DEFINE k == Len(stack)  s == Sees(envs, Top.env)
<1>1. k \in 1 .. Len(stack) /\ k \in Nat /\ Len(stack') = k + 1
      /\ \A j \in 1 .. k : stack'[j] = stack[j]
  BY Pushed, SeesType, TypeParts
<1>2. /\ Top.env \in 1 .. Len(envs) /\ Top.env = stack[k].env /\ s \subseteq 1 .. Len(envs)
      /\ Len(envs) \in Nat
  BY TopType, SeesType DEF Top
<1>3. Globals \in s
  BY <1>2 DEF GlobalsOf
<1>4. \A e2 \in 1 .. Len(envs) : envs'[e2].chain = envs[e2].chain
  BY DEF ScopesUnder
<1>5. s \subseteq Sees(envs', e) /\ \A x \in Sees(envs', e) : x \in s \/ x \notin 1 .. Len(envs)
  <2>1. CASE e = Top.env
    BY <1>2, <1>4, <2>1, SameSees
  <2>2. CASE e \in Len(envs) + 1 .. Len(envs')
    <3>1. /\ s \subseteq Sees(envs', e)
          /\ Sees(envs', e) \subseteq s \cup (Len(envs) + 1 .. Len(envs'))
      BY <2>2 DEF ScopesUnder
    <3>2. \A x \in Len(envs) + 1 .. Len(envs') : x \notin 1 .. Len(envs)
      BY <1>2
    <3> QED
      BY <3>1, <3>2
  <2> QED
    BY <2>1, <2>2
<1>6. CallAt(stack', k + 1) = CallAt(stack, k)
  <2>1. ~IsFunc(stack', k + 1)
    <3>1. stack'[k + 1] = Frame(n, e)
      BY Pushed
    <3>2. Frame(n, e).n = n
      BY DEF Frame
    <3> QED
      BY <3>1, <3>2 DEF IsFunc
  <2>2. \A j \in 1 .. k : IsFunc(stack', j) <=> IsFunc(stack, j)
    BY <1>1 DEF IsFunc
  <2>3. \A j : j \in 1 .. k + 1 <=> j \in 1 .. k \/ j = k + 1
    BY <1>1
  <2> HIDE DEF k
  <2>4. CallsUpTo(stack', k + 1) = CallsUpTo(stack, k)
    BY <2>1, <2>2, <2>3 DEF CallsUpTo
  <2> QED
    BY <2>4, SameCall
<1>7. ASSUME NEW j \in 1 .. Len(stack), CallAt(stack', Len(stack) + 1) # CallAt(stack, j)
      PROVE  s \cap Sees(envs, stack[j].env) = {Globals}
  <2>1. CallAt(stack, k) # CallAt(stack, j)
    BY <1>6, <1>7
  <2>2. Apart(envs, stack, k, j)
    BY <1>1 DEF IsolatedOf
  <2>3. Sees(envs, stack[k].env) \cap Sees(envs, stack[j].env) = {Globals}
    BY <2>1, <2>2 DEF Apart
  <2> QED
    BY <1>2, <2>3
<1> HIDE DEF s
<1> QED
  BY <1>3, <1>4, <1>5, <1>7, OneMoreApart

\* A call sees the globals, and its own.
LEMMA CallApart ==
  ASSUME TypeOK, IsolatedOf(envs, stack), GlobalsOf(envs), ScopesUnder(Globals),
         Len(envs') = Len(envs) + 1, NEW n, stack' = Push(n, Len(envs) + 1)
  PROVE  IsolatedOf(envs', stack')
<1> DEFINE e == Len(envs) + 1  s == Sees(envs, Globals)
<1>1. s = {Globals}
  BY DEF GlobalsOf, Sees
<1>2. Len(envs) \in Nat /\ e \in Len(envs) + 1 .. Len(envs') /\ e \notin 1 .. Len(envs)
  BY SeesType
<1>3. /\ s \subseteq Sees(envs', e) /\ Sees(envs', e) \subseteq s \cup (Len(envs) + 1 .. Len(envs'))
      /\ \A e2 \in 1 .. Len(envs) : envs'[e2].chain = envs[e2].chain
  BY <1>2 DEF ScopesUnder
<1>4. \A x \in Len(envs) + 1 .. Len(envs') : x \notin 1 .. Len(envs)
  BY <1>2
<1>5. \A j \in 1 .. Len(stack) : s \cap Sees(envs, stack[j].env) = {Globals}
  BY <1>1, SeesType DEF GlobalsOf
<1>6. Globals \in s /\ \A x \in Sees(envs', e) : x \in s \/ x \notin 1 .. Len(envs)
  BY <1>1, <1>3, <1>4
<1> HIDE DEF s, e
<1>7. stack' = Push(n, e)
  BY DEF e
<1> QED
  BY <1>3, <1>5, <1>6, <1>7, OneMoreApart

LEMMA GlobalsKept ==
  ASSUME TypeOK, GlobalsOf(envs),
         SameScopes \/ \E p \in 1 .. Len(envs) : ScopesUnder(p)
  PROVE  GlobalsOf(envs')
<1>1. \A e \in 1 .. Len(envs) : envs'[e].chain = envs[e].chain /\ Globals \in Sees(envs', e)
  <2>1. \A e \in 1 .. Len(envs) : envs'[e].chain = envs[e].chain
    BY DEF SameScopes, ScopesUnder
  <2> QED
    BY <2>1, SameSees DEF GlobalsOf
<1>2. envs'[Globals].chain = <<Globals>>
  BY <1>1, SeesType DEF GlobalsOf
<1>3. CASE SameScopes
  BY <1>1, <1>2, <1>3 DEF SameScopes, GlobalsOf
<1>4. ASSUME NEW p \in 1 .. Len(envs), ScopesUnder(p) PROVE GlobalsOf(envs')
  <2>1. \A e \in Len(envs) + 1 .. Len(envs') : Globals \in Sees(envs', e)
    BY <1>4 DEF GlobalsOf, ScopesUnder
  <2>2. \A e \in 1 .. Len(envs') : e \in 1 .. Len(envs) \/ e \in Len(envs) + 1 .. Len(envs')
    BY <1>4, SeesType DEF ScopesUnder
  <2> QED
    BY <1>1, <1>2, <2>1, <2>2 DEF GlobalsOf
<1> QED
  BY <1>3, <1>4
LEMMA StepKeepsApart ==
  ASSUME TypeOK, TypeOK', Shapes, IsolatedOf(envs, stack), GlobalsOf(envs)
  PROVE  IsolatedOf(envs', stack') /\ GlobalsOf(envs')
<1>1. CASE UNCHANGED envs /\ Len(stack') \in {0, 1}
  BY <1>1 DEF IsolatedOf, Apart
<1>2. CASE Halts \/ Begins
  <2>1. Len(stack') \in {0, 1}
    BY <1>2 DEF Halts, Begins
  <2> QED
    BY <1>1, <1>2, <2>1 DEF Halts, Begins, Quiet
<1>3. CASE Descends
  <2>1. PICK n \in NodeId : Nodes[n].k \in ExprKind /\ stack' = Push(n, Top.env)
    BY <1>3 DEF Descends
  <2>2. envs' = envs /\ Nodes[n].k # "Func" /\ stack # <<>>
    BY <1>3, <2>1 DEF Descends, Quiet, ExprKind
  <2>3. ScopesUnder(Top.env)
    BY <2>2, SeesType DEF ScopesUnder
  <2> QED
    BY <2>1, <2>2, <2>3, InnerApart
<1>4. CASE Enters
  <2>1. PICK n \in NodeId, e \in {Top.env} \cup (Len(envs) + 1 .. Len(envs')) :
          Nodes[n].k \in StmtKind /\ stack' = Push(n, e)
    BY <1>4 DEF Enters
  <2>2. Nodes[n].k # "Func" /\ stack # <<>> /\ ScopesUnder(Top.env) /\ Top.env \in 1 .. Len(envs)
    BY <1>4, <2>1, TopType DEF Enters, StmtKind
  <2> QED
    BY <2>1, <2>2, InnerApart, GlobalsKept
<1>5. CASE Calls
  <2>1. PICK n \in NodeId : stack' = Push(n, Len(envs) + 1)
    BY <1>5 DEF Calls
  <2> QED
    BY <1>5, <2>1, CallApart, GlobalsKept, SeesType DEF Calls
<1>6. CASE Pops
  <2>1. PICK v : stack' = Popped(v)
    BY <1>6 DEF Pops
  <2> QED
    BY <1>6, <2>1, Answered, FewerApart, GlobalsKept DEF Pops, SameScopes
<1>7. CASE Sets
  <2>1. PICK vs : stack' = SetTop(vs)
    BY <1>7 DEF Sets
  <2> QED
    <3>1. stack # <<>> /\ envs' = envs
      BY <1>7 DEF Sets, Quiet
    <3>2. /\ Len(stack) \in Nat /\ Len(stack') = Len(stack)
          /\ \A j \in 1 .. Len(stack) : stack'[j].n = stack[j].n /\ stack'[j].env = stack[j].env
      BY <2>1, <3>1, Changed
    <3>3. /\ Len(stack') \in Nat /\ Len(stack') <= Len(stack)
          /\ \A j \in 1 .. Len(stack') : stack'[j].n = stack[j].n /\ stack'[j].env = stack[j].env
      BY <3>2
    <3> QED
      BY <3>1, <3>3, FewerApart
<1>8. CASE Returns
  BY <1>8, Cut, FewerApart DEF Returns
<1>9. CASE Unwinds
  <2>1. ASSUME NEW v, stack' = Popped(v) PROVE IsolatedOf(envs', stack')
    BY <1>9, <2>1, Answered, FewerApart DEF Unwinds
  <2>2. ASSUME stack' = SubSeq(stack, 1, Len(stack) - 1) PROVE IsolatedOf(envs', stack')
    BY <1>9, <2>2, Cut, FewerApart DEF Unwinds
  <2> QED
    BY <1>9, <2>1, <2>2 DEF Unwinds
<1> QED
  BY <1>2, <1>3, <1>4, <1>5, <1>6, <1>7, <1>8, <1>9 DEF Shapes

\* Scoping is lexical, however deep the recursion: two activations on the stack share the
\* globals and no other environment.
THEOREM IsolationSafety == Spec => []ActivationsIsolated
<1> DEFINE I == ActivationsIsolated /\ GlobalsEndEachChain
<1>1. Init => I
  <2>1. SUFFICES ASSUME Init PROVE I
    OBVIOUS
  <2> DEFINE en == [vars |-> Empty, chain |-> <<Globals>>]
  <2>2. envs = <<en>> /\ en.chain = <<Globals>> /\ stack = <<>>
    BY <2>1 DEF Init
  <2> HIDE DEF en
  <2>3. DOMAIN envs = {1} /\ envs[1].chain = <<Globals>>
    BY <2>2
  <2>4. GlobalsEndEachChain
    BY <2>3 DEF GlobalsEndEachChain, Sees, Globals
  <2> QED
    BY <2>2, <2>4 DEF ActivationsIsolated
<1>2. TypeOK /\ TypeOK' /\ I /\ [Next]_vars => I'
  <2>1. SUFFICES ASSUME TypeOK, TypeOK', I, [Next]_vars PROVE I'
    OBVIOUS
  <2>2. /\ DOMAIN stack = 1 .. Len(stack) /\ DOMAIN stack' = 1 .. Len(stack')
        /\ DOMAIN envs = 1 .. Len(envs) /\ DOMAIN envs' = 1 .. Len(envs')
    BY <2>1 DEF TypeOK
  <2>3. IsolatedOf(envs, stack) /\ GlobalsOf(envs)
    <3>1. \A j : Activation(j) = CallAt(stack, j)
      BY DEF Activation, CallAt, CallsUpTo, IsFunc
    <3>2. \A j : Reach(j) = Sees(envs, stack[j].env)
      BY DEF Reach, Sees
    <3>3. IsolatedOf(envs, stack)
      BY <2>1, <2>2, <3>1, <3>2 DEF ActivationsIsolated, IsolatedOf, Apart
    <3> QED
      BY <2>1, <2>2, <3>3 DEF GlobalsEndEachChain, GlobalsOf
  <2>4. IsolatedOf(envs', stack') /\ GlobalsOf(envs')
    <3>1. CASE Shapes
      BY <2>1, <2>3, <3>1, StepKeepsApart
    <3>2. CASE UNCHANGED vars
      BY <2>3, <3>2 DEF vars
    <3> QED
      BY <2>1, <3>1, <3>2, StepShape
  <2> QED
    <3>1. \A j : Activation(j)' = CallAt(stack', j)
      BY DEF Activation, CallAt, CallsUpTo, IsFunc
    <3>2. \A j : Reach(j)' = Sees(envs', stack'[j].env)
      BY DEF Reach, Sees
    <3>3. ActivationsIsolated'
      BY <2>2, <2>4, <3>1, <3>2 DEF ActivationsIsolated, IsolatedOf, Apart
    <3>4. GlobalsEndEachChain'
      BY <2>2, <2>4 DEF GlobalsEndEachChain, GlobalsOf, Sees
    <3> QED
      BY <3>3, <3>4
<1>3. I => ActivationsIsolated
  OBVIOUS
<1> QED
  BY <1>1, <1>2, <1>3, TypeCorrect, PTL DEF Spec
===============================================================================
