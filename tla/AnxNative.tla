------------------------------- MODULE AnxNative ------------------------------
(***************************************************************************)
(* A built program at work: the basic blocks of AnxCodegen, linked with    *)
(* the C shim (codegen/runtime.c) and libc's malloc and calloc, as a       *)
(* machine that executes one instruction at a time.  What LLVM and C       *)
(* leave undefined is a choice among what a target may do; each place      *)
(* where that, or the shim, is known to differ from the interpreter is     *)
(* noted in `gaps` when the program comes by it.                           *)
(*                                                                         *)
(* Memory is objects of cells: a cell is a value of the element type, or a *)
(* byte of a string.  Widths matter in two places, both in the shim: the   *)
(* bytes that memcmp compares, and the words that anx_print_array reads.   *)
(***************************************************************************)
EXTENDS AnxValue

VARIABLES
  blocks,   \* the module: AnxCodegen's
  cpu,      \* the activations: block, next instruction, block before, registers
  mem,      \* every stack slot, array and string buffer made
  printed,  \* what was written to stdout
  ended,    \* "run", then "ok" or why the process ended
  gaps      \* which known differences the program has come by: a history variable

vars == <<blocks, cpu, mem, printed, ended, gaps>>

Undef      == [k |-> "Undef"]
Ptr(o, i)  == [k |-> "Ptr", o |-> o, i |-> i]
Struct(m, p) == [k |-> "Struct", len |-> m, data |-> p]
Bytes(s)   == [of |-> "bytes", at |-> Append(s, 0)]     \* NUL-terminated
Cells(s)   == [of |-> "cells", at |-> s]

\* The entry block of a function.
Entry(d) == CHOOSE b \in DOMAIN blocks : blocks[b].fn = d /\ \A b2 \in 1 .. b - 1 : blocks[b2].fn # d
Enter(d, args) == [b |-> Entry(d), i |-> 1, from |-> 0, regs |-> <<>>, args |-> args]

Top == cpu[Len(cpu)]
Here == blocks[Top.b].code[Top.i]
Running == ended = "run" /\ cpu # <<>>
At(ops) == Running /\ Here.op \in ops

Read(x) == CASE x.k = "const" -> x.v
             [] x.k = "param" -> Top.args[x.v]
             [] OTHER -> IF x.v \in DOMAIN Top.regs THEN Top.regs[x.v] ELSE Undef
In(j) == Read(Here.args[j])

Next1(f) == [f EXCEPT !.i = @ + 1]
SetReg(f, r, v) == [f EXCEPT !.regs = [q \in DOMAIN f.regs \cup {r} |-> IF q = r THEN v ELSE f.regs[q]]]
Step(f) == cpu' = [cpu EXCEPT ![Len(cpu)] = f]
\* The instruction's result is v.
Result(v) == Step(Next1(SetReg(Top, Here.r, v)))

Same(vs) == UNCHANGED vs
End(e) == /\ ended' = e /\ cpu' = <<>> /\ UNCHANGED <<blocks, mem, printed, gaps>>

(***************************************************************************)
(* Integer and float instructions.  Shifting by the width or more, and     *)
(* dividing the least int by -1, are undefined.                            *)
(***************************************************************************)
Compares == {"slt", "sle", "sgt", "sge", "eq", "ne", "ult", "ule"}
FloatCompares == {"olt", "ole", "ogt", "oge", "oeq", "one"}

Unsigned(i) == IF i < 0 THEN i + 2 * (MaxInt + 1) ELSE i
IntHolds(op, a, b) == CASE op = "slt" -> a < b  [] op = "sle" -> a <= b
                        [] op = "sgt" -> a > b  [] op = "sge" -> a >= b
                        [] op = "eq"  -> a = b  [] op = "ne"  -> a # b
                        [] op = "ult" -> Unsigned(a) < Unsigned(b)
                        [] OTHER      -> Unsigned(a) <= Unsigned(b)

\* Ordered comparisons: false when either operand is a NaN.
FloatHolds(op, x, y) == /\ NaN \notin {x, y}
                        /\ CASE op = "olt" -> FloatLess(x, y)  [] op = "ole" -> ~FloatLess(y, x)
                             [] op = "ogt" -> FloatLess(y, x)  [] op = "oge" -> ~FloatLess(x, y)
                             [] op = "oeq" -> x = y            [] OTHER -> x # y

\* fmod: the remainder has x's sign.
FloatRem(x, y) == IF ~Finite(x) \/ y \in {0, NaN} THEN NaN
                  ELSE IF Finite(y) THEN Remainder(x, y) ELSE x

AstOp(op) == CASE op = "and" -> "BitAnd" [] op = "or" -> "BitOr" [] op = "xor" -> "BitXor"
               [] op = "shl" -> "Shl" [] op = "ashr" -> "Shr" [] OTHER -> "UShr"
FloatAst(op) == CASE op = "fadd" -> "Add" [] op = "fsub" -> "Sub" [] op = "fmul" -> "Mul"
                  [] OTHER -> "Div"

Trap == [k |-> "Trap"]
\* What a binary instruction may give.
Outcomes(op, l, r) ==
  CASE op \in Compares /\ Both("Int", l, r) -> {BoolV(IntHolds(op, l.i, r.i))}
    [] op \in {"eq", "ne"} /\ Both("Bool", l, r) -> {BoolV((l.b = r.b) = (op = "eq"))}
    [] op = "and" /\ Both("Bool", l, r) -> {BoolV(l.b /\ r.b)}
    [] ~Both("Int", l, r) /\ ~Both("Float", l, r) -> {Undef}
    [] op = "add" -> {IntV(Wrap(l.i + r.i))}
    [] op = "sub" -> {IntV(Wrap(l.i - r.i))}
    [] op = "mul" -> {IntV(Wrap(l.i * r.i))}
    [] op \in {"sdiv", "srem"} ->
         IF r.i = 0 THEN {Trap, IntV(0)}
         ELSE LET v == IntV(Wrap(IF op = "sdiv" THEN Quotient(l.i, r.i) ELSE Remainder(l.i, r.i)))
              IN  IF l.i = MinInt /\ r.i = -1 THEN {Trap, v} ELSE {v}
    [] op \in {"and", "or", "xor"} -> {BitOp(AstOp(op), l.i, r.i)}
    [] op \in {"shl", "ashr", "lshr"} ->
         {BitOp(AstOp(op), l.i, r.i)} \cup (IF r.i \in BitPos THEN {} ELSE {IntV(0)})
    [] op \in FloatCompares -> {BoolV(FloatHolds(op, l.f, r.f))}
    [] op = "frem" -> {FloatV(FloatRem(l.f, r.f))}
    [] OTHER -> {FloatArith(FloatAst(op), l.f, r.f)}

Binary == {"add", "sub", "mul", "sdiv", "srem", "and", "or", "xor", "shl", "ashr", "lshr",
           "fadd", "fsub", "fmul", "fdiv", "frem"} \cup Compares \cup FloatCompares

\* Where the interpreter does something else: numeric_cmp takes a NaN for equal, a NaN
\* is not equal to itself, an amount is masked, a remainder of floats panics, and a
\* debug build's arithmetic does.
BinaryGap(op, l, r) ==
  CASE op \in {"ole", "oge", "one"} /\ NaN \in {l.f, r.f} -> {"a NaN compared"}
    [] op \in {"shl", "ashr", "lshr"} /\ r.i \notin BitPos -> {"a wide shift"}
    [] op \in {"sdiv", "srem"} /\ l.i = MinInt /\ r.i = -1 -> {"the least int divided by -1"}
    [] op = "frem" -> {"a remainder of floats"}
    [] op = "add" /\ OverflowChecks /\ l.i + r.i \notin Int64 -> {"an overflow"}
    [] op = "sub" /\ OverflowChecks /\ l.i - r.i \notin Int64 -> {"an overflow"}
    [] op = "mul" /\ OverflowChecks /\ l.i * r.i \notin Int64 -> {"an overflow"}
    [] OTHER -> {}

BinaryInstr ==
  /\ At(Binary)
  /\ \E v \in Outcomes(Here.op, In(1), In(2)) :
       IF v = Trap THEN ended' = "trap" /\ cpu' = <<>> ELSE Result(v) /\ Same(ended)
  /\ gaps' = gaps \cup BinaryGap(Here.op, In(1), In(2))
  /\ Same(<<blocks, mem, printed>>)

UnaryInstr ==
  /\ At({"neg", "fneg", "not", "trunc", "zext", "length", "data", "pack"})
  /\ LET x == In(1)
     IN  /\ Result(CASE Here.op = "neg" -> IntV(Wrap(-x.i))
                     [] Here.op = "fneg" -> FloatV(FloatNeg(x.f))
                     [] Here.op = "not" -> IF x.k = "Bool" THEN BoolV(~x.b)
                                           ELSE IntV(IntOf(BitPos \ Bits(x.i)))
                     [] Here.op = "length" -> IntV(x.len)
                     [] Here.op = "data"   -> x.data
                     [] Here.op = "pack"   -> Struct(x.i, In(2))
                     [] OTHER -> x)
         /\ gaps' = gaps \cup IF Here.op = "neg" /\ OverflowChecks /\ x.i = MinInt
                              THEN {"an overflow"} ELSE {}
  /\ Same(<<blocks, mem, printed, ended>>)

(***************************************************************************)
(* Control.                                                                *)
(***************************************************************************)
Jump(b) == Step([Top EXCEPT !.b = b, !.i = 1, !.from = Top.b])

Branch ==
  /\ At({"br", "condbr"})
  /\ IF Here.op = "br" THEN Jump(Here.to[1])
     ELSE IF In(1).b THEN Jump(Here.to[1]) ELSE Jump(Here.to[2])
  /\ Same(<<blocks, mem, printed, ended, gaps>>)

PhiInstr ==
  /\ At({"phi"})
  /\ Result(IF Top.from = Here.to[1] THEN In(1) ELSE IF Top.from = Here.to[2] THEN In(2) ELSE Undef)
  /\ Same(<<blocks, mem, printed, ended, gaps>>)

Call ==
  /\ At({"call"})
  /\ cpu' = Append(cpu, Enter(Here.to[1], [j \in DOMAIN Here.args |-> In(j)]))
  /\ Same(<<blocks, mem, printed, ended, gaps>>)

\* A return to the instruction after the call; main's is the process's.
Ret ==
  /\ At({"ret"})
  /\ LET m == Len(cpu) - 1
         caller == cpu[m]
         site == blocks[caller.b].code[caller.i]
         back == IF Here.args = <<>> THEN caller ELSE SetReg(caller, site.r, In(1))
     IN  IF m = 0 THEN cpu' = <<>> /\ ended' = "ok"
         ELSE cpu' = [SubSeq(cpu, 1, m) EXCEPT ![m] = Next1(back)] /\ Same(ended)
  /\ Same(<<blocks, mem, printed, gaps>>)

(***************************************************************************)
(* Memory.                                                                 *)
(***************************************************************************)
\* The bytes of an element, and those an array was given by malloc or calloc.
WordBytes == 8
Width(v) == IF v.k = "Bool" THEN 1 ELSE WordBytes
Size(p) == IF p.o = 0 \/ mem[p.o].at = <<>> THEN 0 ELSE Len(mem[p.o].at) * Width(mem[p.o].at[1])

Exists(p, i) == p.o \in DOMAIN mem /\ p.i + i + 1 \in DOMAIN mem[p.o].at
Cell(p, i) == mem[p.o].at[p.i + i + 1]

Allocate(obj, v) == mem' = Append(mem, obj) /\ Result(v) /\ Same(<<blocks, printed, ended, gaps>>)
New == Ptr(Len(mem) + 1, 0)

\* A stack slot, an array without values, an array of zeros, a literal.
Alloc ==
  /\ At({"alloca", "malloc", "calloc", "strlit"})
  /\ CASE Here.op = "alloca" -> Allocate(Cells(<<Undef>>), New)
       [] Here.op = "malloc" -> Allocate(Cells([j \in 1 .. In(1).i |-> Undef]), New)
       [] Here.op = "calloc" -> Allocate(Cells([j \in 1 .. In(1).i |-> In(2)]), New)
       [] OTHER -> Allocate(Bytes(In(1).s), Struct(Len(In(1).s), New))

Gep == At({"gep"}) /\ Result(Ptr(In(1).o, In(1).i + In(2).i)) /\ Same(<<blocks, mem, printed, ended, gaps>>)

Load ==
  /\ At({"load"})
  /\ IF Exists(In(1), 0) THEN Result(Cell(In(1), 0)) /\ Same(<<blocks, mem, printed, ended, gaps>>)
     ELSE End("fault")

\* "init" stores at an index of a fresh array.
Store ==
  /\ At({"store", "init"})
  /\ LET i == IF Here.op = "init" THEN In(2).i ELSE 0
         v == In(Len(Here.args))
     IN  IF Exists(In(1), i)
         THEN /\ mem' = [mem EXCEPT ![In(1).o].at[In(1).i + i + 1] = v]
              /\ Step(Next1(Top)) /\ Same(<<blocks, printed, ended, gaps>>)
         ELSE End("fault")

(***************************************************************************)
(* The shim (runtime.c).                                                   *)
(***************************************************************************)
\* The first m bytes of a buffer; none of the null pointer's.
BytesOf(p, m) == IF p.o = 0 THEN <<>> ELSE SubSeq(mem[p.o].at, p.i + 1, p.i + m)
NewStr(s) == Allocate(Bytes(s), Struct(Len(s), New))

StrConcat ==
  /\ At({"anx_str_concat"})
  /\ NewStr(BytesOf(In(1).data, In(1).len) \o BytesOf(In(2).data, In(2).len))

\* One byte, or the bytes from start to end, without a look at the chars they are part of.
StrCut ==
  /\ At({"anx_str_char_at", "anx_str_substring"})
  /\ LET s == BytesOf(In(1).data, In(1).len)
         one == Here.op = "anx_str_char_at"
         cut == SubSeq(s, In(2).i + 1, IF one THEN In(2).i + 1 ELSE In(3).i)
     IN  /\ mem' = Append(mem, Bytes(cut)) /\ Result(Struct(Len(cut), New))
         /\ gaps' = gaps \cup IF cut = (IF one THEN Latin1(cut[1]) ELSE FromUtf8Lossy(cut)) THEN {}
                              ELSE {"part of a char"}
  /\ Same(<<blocks, printed, ended>>)

\* memcmp of the first `length` bytes.  Of an array that is so many bytes of its cells:
\* `length` cells are not compared, only as many as those bytes reach into.
Compared(p, m) ==
  IF p.o = 0 \/ m = 0 THEN <<>>
  ELSE IF mem[p.o].of = "bytes" THEN BytesOf(p, m)
  ELSE LET w == Width(mem[p.o].at[1]) IN SubSeq(mem[p.o].at, 1, (m + w - 1) \div w)

IsString(x) == x.data.o = 0 \/ mem[x.data.o].of = "bytes"

StrEquals ==
  /\ At({"anx_str_equals"})
  /\ LET l == In(1)  r == In(2)
     IN  /\ Result(BoolV(l.len = r.len /\ Compared(l.data, l.len) = Compared(r.data, r.len)))
         /\ gaps' = gaps \cup IF IsString(l) /\ IsString(r) THEN {} ELSE {"arrays compared"}
  /\ Same(<<blocks, mem, printed, ended>>)

Puts(t) == printed' = Append(printed, t) /\ Step(Next1(Top))

PrintScalar ==
  /\ At({"anx_print_int", "anx_print_bool", "anx_print_float"})
  /\ Puts(In(1)) /\ Same(<<blocks, mem, ended, gaps>>)

\* printf("%s") stops at the NUL; of the null pointer it prints a text of its own, or
\* the process ends.
NullText == [k |-> "NullText"]
PrintStr ==
  /\ At({"anx_print_str"})
  /\ IF In(1).o = 0
     THEN /\ gaps' = gaps \cup {"a default string printed"}
          /\ \/ Puts(NullText) /\ Same(ended)
             \/ ended' = "fault" /\ cpu' = <<>> /\ Same(printed)
     ELSE /\ Puts(StrV(SelectSeq(mem[In(1).o].at, LAMBDA c : c # 0)))
          /\ Same(<<ended, gaps>>)
  /\ Same(<<blocks, mem>>)

\* `length` words are read, whatever the elements are: of floats that is the ints their
\* bits spell.  Bools are a byte each, so that seven bytes in eight of what is read lie
\* behind the array: other ints are printed, or the process ends.
Listed(m, p) == IF m = 0 THEN <<>> ELSE SubSeq(mem[p.o].at, 1, m)
Word(v) == IF v.k = "Int" THEN v ELSE [k |-> "Bits", of |-> v]
Overreads(m, p) == m * WordBytes > Size(p)
Garbage == [k |-> "Garbage"]
PrintArray ==
  /\ At({"anx_print_array"})
  /\ LET m == In(1).i  p == In(2)
     IN  IF Overreads(m, p)
         THEN /\ gaps' = gaps \cup {"a bool array printed"}
              /\ \/ Puts(Garbage) /\ Same(ended)
                 \/ ended' = "fault" /\ cpu' = <<>> /\ Same(printed)
         ELSE /\ Puts([k |-> "List", of |-> [j \in 1 .. m |-> Word(Listed(m, p)[j])]])
              /\ gaps' = gaps \cup {"an array printed"} /\ Same(ended)
  /\ Same(<<blocks, mem>>)

\* exit(2) after a message; or control falls into unreachable code.
PanicOf(f) == CASE f = "anx_panic_oob" -> "IndexOutOfBounds"
                [] f = "anx_panic_div_zero" -> "DivisionByZero"
                [] f = "anx_panic_neg_size" -> "NegativeArraySize"
                [] f = "anx_panic_str_oob"  -> "StringIndexOutOfBounds"
                [] OTHER -> f
RuntimePanic ==
  /\ At({"anx_panic_oob", "anx_panic_div_zero", "anx_panic_neg_size", "anx_panic_str_oob",
          "unreachable"})
  /\ End(PanicOf(Here.op))

-----------------------------------------------------------------------------
Init == cpu = <<>> /\ mem = <<>> /\ printed = <<>> /\ ended = "run" /\ gaps = {}

\* The system starts the C main, function 0.
Start == ended = "run" /\ cpu = <<>> /\ cpu' = <<Enter(0, <<>>)>> /\ Same(<<blocks, mem, printed, ended, gaps>>)

Next == \/ Start \/ BinaryInstr \/ UnaryInstr \/ Branch \/ PhiInstr \/ Call \/ Ret \/ Alloc \/ Gep
        \/ Load \/ Store \/ StrConcat \/ StrCut \/ StrEquals \/ PrintScalar \/ PrintStr
        \/ PrintArray \/ RuntimePanic

\* No register is used before it is set, on any path: each value an instruction takes
\* is there.
WellDefined ==
  Running /\ Here.op # "phi" => \A j \in DOMAIN Here.args : In(j) # Undef

\* The elements that the shim is about to print are of the kinds ks.
Lists(ks) ==
  At({"anx_print_array"}) => \A j \in 1 .. In(1).i : Listed(In(1).i, In(2))[j].k \in ks

\* The shim prints no more than the array, but of bools.
ListsWhatIsThere == At({"anx_print_array"}) => ~Overreads(In(1).i, In(2)) \/ Lists({"Bool"})
===============================================================================
