------------------------------ MODULE AnxCodegen ------------------------------
(***************************************************************************)
(* Code generation (codegen/mod.rs): the tree and the checker's types in,  *)
(* LLVM basic blocks out.  An activation of a codegen_* function is a      *)
(* frame of `gens`.  What the function does, in order, is its plan: it     *)
(* generates a child, emits an instruction, appends blocks, moves the      *)
(* builder.  `vs` holds the values the plan has produced so far (of        *)
(* children and of instructions alike), `bbs` the blocks it knows.         *)
(*                                                                         *)
(* A value has an LLVM type, and is a constant, a parameter or a register; *)
(* `None`, which the code has for a void result, is of type "void".        *)
(* Strings and arrays are both a "struct": { i64 length, ptr data }.       *)
(***************************************************************************)
EXTENDS AnxAst

VARIABLES
  prog, types,  \* the program, and SemaResult.types
  stage,        \* declare, compile, done; or panic
  todo,         \* the declaration that stage is at
  gens,         \* the activations, the innermost last
  slots,        \* Scopes: name -> stack slot; the innermost scope last
  blocks,       \* every basic block: the function it is in and its instructions
  builder,      \* the block instructions are appended to
  regs          \* how many instructions have been built

cgVars == <<stage, todo, gens, slots, blocks, builder, regs>>
vars   == <<prog, types, cgVars>>

(***************************************************************************)
(* LLVM types and values.                                                  *)
(***************************************************************************)
\* llvm_basic_type, where "void" is unreachable!.
LType(t) == IF IsArray(t) THEN "struct"
            ELSE CASE t.base = "Int" -> "i64"    [] t.base = "Float" -> "double"
                   [] t.base = "Bool" -> "i1"    [] t.base = "Str" -> "struct"
                   [] OTHER -> "void"

TypeAt(n) == IF n \in DOMAIN types THEN types[n] ELSE TVoid
ElemType(a) == IF IsArray(TypeAt(a)) THEN LType(ElemOf(TypeAt(a))) ELSE "void"

Const(t, c) == [t |-> t, k |-> "const", v |-> c]
Arg(t, i)   == [t |-> t, k |-> "param", v |-> i]
Reg(t, r)   == [t |-> t, k |-> "reg", v |-> r]
NoValue     == Const("void", VoidV)
PtrV(o, i)  == [k |-> "Ptr", o |-> o, i |-> i]           \* object 0: null
StructV(m, p) == [k |-> "Struct", len |-> m, data |-> p]
NullPtr     == Const("ptr", PtrV(0, 0))
I64(m)      == Const("i64", IntV(m))

\* The variant of BasicValueEnum a value is.
Class(x) == IF x.t \in {"i64", "i1", "i8"} THEN "int" ELSE x.t

\* default_value, and what codegen_expr gives for a literal.
DefaultValue(t) == CASE LType(t) = "struct" -> Const("struct", StructV(0, PtrV(0, 0)))
                     [] LType(t) = "i1"     -> Const("i1", BoolV(FALSE))
                     [] LType(t) = "double" -> Const("double", FloatV(0))
                     [] OTHER               -> I64(0)
Literal(nd) == CASE nd.k = "IntLiteral"   -> Const("i64", nd.lit)
                 [] nd.k = "FloatLiteral" -> Const("double", nd.lit)
                 [] nd.k = "BoolLiteral"  -> Const("i1", nd.lit)
                 [] OTHER                 -> NullPtr

\* An instruction: its result's register and type ("none" when it has no result),
\* its operands, and the blocks it names (a call: the function called).
Instr(op, t, args, to) == [op |-> op, t |-> t, args |-> args, to |-> to, r |-> regs + 1]

Terminator == {"br", "condbr", "ret", "unreachable"}
Terminated(b) == LET c == blocks[b].code IN c # <<>> /\ c[Len(c)].op \in Terminator

(***************************************************************************)
(* Scopes.  A slot's `d` is the declaration it is for: a history field.    *)
(***************************************************************************)
NoSlot  == [ptr |-> NoValue, d |-> 0]
NoSlots == [x \in Name |-> NoSlot]

\* resolve_var: no slot when no scope has the name.  A slip: outermost first.
ResolveOutermost(x) ==
  LET has == {s \in DOMAIN slots : slots[s][x].d # 0}
  IN  IF has = {} THEN NoSlot ELSE slots[CHOOSE s \in has : \A s2 \in has : s <= s2][x]
ResolveVar(x) ==
  LET has == {s \in DOMAIN slots : slots[s][x].d # 0}
  IN  IF has = {} THEN NoSlot ELSE slots[CHOOSE s \in has : \A s2 \in has : s2 <= s][x]

Slot(x) == ResolveVar(x).ptr

(***************************************************************************)
(* The steps a plan is made of.                                            *)
(***************************************************************************)
Gen(n)           == [do |-> "gen", n |-> n, scoped |-> FALSE]   \* codegen_expr, codegen_stmt
Value(n)         == [do |-> "value", n |-> n, scoped |-> FALSE] \* codegen_expr, not None
Scoped(n)        == [do |-> "gen", n |-> n, scoped |-> TRUE]    \* codegen_scoped
Emit(op, t, as)  == [do |-> "emit", op |-> op, t |-> t, args |-> as, to |-> <<>>]
Goto(op, as, to) == [do |-> "emit", op |-> op, t |-> "none", args |-> as, to |-> to]
Phi(t, as, to)   == [do |-> "emit", op |-> "phi", t |-> t, args |-> as, to |-> to]
CallTo(t, as, d) == [do |-> "emit", op |-> "call", t |-> t, args |-> as, to |-> <<d>>]
Guard(ok, f, as) == [do |-> "guard", ok |-> ok, f |-> f, args |-> as]
Blocks(m)        == [do |-> "blocks", m |-> m]    \* append_basic_block, m times
Position(b)      == [do |-> "position", b |-> b]  \* position_at_end
InsertBlock      == [do |-> "mark"]               \* get_insert_block
Alloca(t)        == [do |-> "alloca", t |-> t]
Bind(p)          == [do |-> "bind", ptr |-> p]    \* scopes.last_mut().insert
Give(x)          == [do |-> "give", x |-> x]      \* an expression's value
Flow(on)         == [do |-> "give", x |-> Const("flow", BoolV(on))]  \* a statement's `terminated`
Unreachable      == [do |-> "panic"]              \* unreachable! or expect

\* The operands an instruction takes; into_int_value and its kin panic on others.
IntOp == [Add |-> "add", Sub |-> "sub", Mul |-> "mul", Div |-> "sdiv", Mod |-> "srem",
          BitAnd |-> "and", BitOr |-> "or", BitXor |-> "xor", Shl |-> "shl", Shr |-> "ashr",
          UShr |-> "lshr", Lt |-> "slt", LtEq |-> "sle", Gt |-> "sgt", GtEq |-> "sge",
          Eq |-> "eq", NotEq |-> "ne"]
FloatOp == [Add |-> "fadd", Sub |-> "fsub", Mul |-> "fmul", Div |-> "fdiv", Mod |-> "frem",
            Lt |-> "olt", LtEq |-> "ole", Gt |-> "ogt", GtEq |-> "oge", Eq |-> "oeq",
            NotEq |-> "one"]
IntOps   == {IntOp[o] : o \in DOMAIN IntOp} \cup {"neg", "not", "ult", "ule", "condbr"}
FloatOps == {FloatOp[o] : o \in DOMAIN FloatOp} \cup {"fneg"}
Takes(op, args) ==
  CASE op \in IntOps   -> \A i \in DOMAIN args : Class(args[i]) = "int"
    [] op \in FloatOps -> \A i \in DOMAIN args : args[i].t = "double"
    [] op \in {"length", "data", "anx_str_concat", "anx_str_equals"} ->
         \A i \in DOMAIN args : args[i].t = "struct"
    [] op \in {"load", "store"} -> args[1].t = "ptr"
    [] op = "phi" -> Class(args[1]) = Class(args[2])
    [] OTHER -> TRUE

(***************************************************************************)
(* The plans.  v(i) is the i-th value of the activation, last the latest,  *)
(* b(j) the j-th block; what is not there yet is not looked at.            *)
(***************************************************************************)
V(f, i) == IF i \in DOMAIN f.vs THEN f.vs[i] ELSE NoValue
Last(f) == V(f, Len(f.vs))
B(f, j) == IF j \in DOMAIN f.bbs THEN f.bbs[j] ELSE 0

\* apply_int_binop (with emit_div_zero_guard), apply_float_binop, apply_str_binop.
\* A slip: an unguarded division.
DivideUnguarded(f, op, l, r) == <<Emit(IntOp[op], l.t, <<l, r>>)>>
ApplyIntBinop(f, op, l, r) ==
  (IF op \in {"Div", "Mod"}
   THEN <<Emit("ne", "i1", <<r, I64(0)>>), Guard(Last(f), "anx_panic_div_zero", <<>>)>>
   ELSE <<>>)
  \o <<Emit(IntOp[op], IF op \in Compare \cup Equality THEN "i1" ELSE l.t, <<l, r>>)>>

ApplyStrBinop(f, op, l, r) ==
  CASE op = "Add" -> <<Emit("anx_str_concat", "struct", <<l, r>>)>>
    [] op \in Equality ->
         <<Emit("anx_str_equals", "i8", <<l, r>>), Emit("trunc", "i1", <<Last(f)>>)>>
         \o (IF op = "NotEq" THEN <<Emit("not", "i1", <<Last(f)>>)>> ELSE <<>>)
    [] OTHER -> <<Unreachable>>

ApplyBinop(f, op, l, r) ==
  CASE Class(l) = "int" -> ApplyIntBinop(f, op, l, r)
    [] Class(l) = "double" /\ op \in DOMAIN FloatOp ->
         <<Emit(FloatOp[op], IF op \in Compare \cup Equality THEN "i1" ELSE "double", <<l, r>>)>>
    [] Class(l) = "struct" -> ApplyStrBinop(f, op, l, r)
    [] OTHER -> <<Unreachable>>

\* codegen_short_circuit: the blocks are appended before the left operand is
\* generated.  A slip: the right operand is taken to end where it starts.
RhsStart(f) == B(f, 1)
RhsEnd(f)   == B(f, 4)
ShortCircuit(f, nd) ==
  <<Blocks(2), Value(nd.kids[1]), InsertBlock,
    Goto("condbr", <<V(f, 1)>>, IF nd.op = "And" THEN <<B(f, 1), B(f, 2)>> ELSE <<B(f, 2), B(f, 1)>>),
    Position(B(f, 1)), Value(nd.kids[2]), InsertBlock, Goto("br", <<>>, <<B(f, 2)>>),
    Position(B(f, 2)), Phi("i1", <<V(f, 1), V(f, 2)>>, <<B(f, 3), RhsEnd(f)>>), Give(Last(f))>>

Ternary(f, nd) ==
  <<Blocks(3), Value(nd.kids[1]), Goto("condbr", <<V(f, 1)>>, <<B(f, 1), B(f, 2)>>),
    Position(B(f, 1)), Value(nd.kids[2]), InsertBlock, Goto("br", <<>>, <<B(f, 3)>>),
    Position(B(f, 2)), Value(nd.kids[3]), InsertBlock, Goto("br", <<>>, <<B(f, 3)>>),
    Position(B(f, 3)),
    Phi(LType(TypeAt(f.n)), <<V(f, 2), V(f, 3)>>, <<B(f, 4), B(f, 5)>>), Give(Last(f))>>

\* codegen_index_ptr: one unsigned compare covers both bounds.  Its values start
\* after the k that the activation has; the pointer is the last of its IndexValues.
IndexValues == 6

\* A slip: no bounds check.
IndexUnguarded(f, a, i, k) ==
  <<Value(a), Emit("length", "i64", <<V(f, k + 1)>>), Emit("data", "ptr", <<V(f, k + 1)>>),
    Value(i), Emit("ult", "i1", <<V(f, k + 4), V(f, k + 2)>>),
    Emit("gep", "ptr", <<V(f, k + 3), V(f, k + 4)>>)>>
IndexPtr(f, a, i, k) ==
  <<Value(a), Emit("length", "i64", <<V(f, k + 1)>>), Emit("data", "ptr", <<V(f, k + 1)>>),
    Value(i), Emit("ult", "i1", <<V(f, k + 4), V(f, k + 2)>>),
    Guard(V(f, k + 5), "anx_panic_oob", <<V(f, k + 4), V(f, k + 2)>>)>>
  \o (IF ElemType(a) = "void" THEN <<Unreachable>>
      ELSE <<Emit("gep", "ptr", <<V(f, k + 3), V(f, k + 4)>>)>>)

\* An assignment's target: the plan of its pointer, the pointer, its type, and how
\* many values come before what follows.
Target(f, t, k) ==
  CASE Nodes[t].k = "Ident" ->
         [plan |-> <<>>, ptr |-> Slot(Nodes[t].name), ty |-> LType(TypeAt(t)), used |-> k]
    [] Nodes[t].k = "Index" ->
         [plan |-> IndexPtr(f, Nodes[t].kids[1], Nodes[t].kids[2], k),
          ptr |-> V(f, k + IndexValues), ty |-> ElemType(Nodes[t].kids[1]), used |-> k + IndexValues]
    [] OTHER -> [plan |-> <<Unreachable>>, ptr |-> NoValue, ty |-> "void", used |-> k]

Assign(f, nd) ==
  LET to == Target(f, nd.kids[1], 1)
  IN  <<Value(nd.kids[2])>> \o to.plan \o <<Emit("store", "none", <<to.ptr, V(f, 1)>>), Give(V(f, 1))>>

CompoundAssign(f, nd) ==
  LET to == Target(f, nd.kids[1], 0)
  IN  to.plan \o <<Emit("load", to.ty, <<to.ptr>>), Value(nd.kids[2])>>
      \o ApplyBinop(f, nd.op, V(f, to.used + 1), V(f, to.used + 2))
      \o <<Emit("store", "none", <<to.ptr, Last(f)>>), Give(Last(f))>>

IncDec(f, nd) ==
  LET to  == Target(f, nd.kids[1], 0)
      cur == V(f, to.used + 1)
      add == IF nd.op = "Inc" THEN "Add" ELSE "Sub"
  IN  to.plan \o <<Emit("load", to.ty, <<to.ptr>>)>>
      \o (IF Class(cur) = "int" THEN <<Emit(IntOp[add], cur.t, <<cur, I64(1)>>)>>
          ELSE <<Emit(FloatOp[add], "double", <<cur, Const("double", FloatV(2))>>)>>)
      \o <<Emit("store", "none", <<to.ptr, Last(f)>>), Give(IF nd.prefix THEN Last(f) ELSE cur)>>

\* codegen_print dispatches on the value, and on the checker's type of a struct.
PrintValue(f, arg) ==
  LET x == V(f, 1)
  IN  CASE x.t = "i1" -> <<Emit("zext", "i8", <<x>>), Emit("anx_print_bool", "none", <<Last(f)>>)>>
        [] x.t = "i64"    -> <<Emit("anx_print_int", "none", <<x>>)>>
        [] x.t = "double" -> <<Emit("anx_print_float", "none", <<x>>)>>
        [] x.t = "struct" /\ TypeAt(arg) = TStr ->
             <<Emit("data", "ptr", <<x>>), Emit("anx_print_str", "none", <<Last(f)>>)>>
        [] x.t = "struct" /\ IsArray(TypeAt(arg)) ->
             <<Emit("length", "i64", <<x>>), Emit("data", "ptr", <<x>>),
               Emit("anx_print_array", "none", <<V(f, 2), V(f, 3)>>)>>
        [] OTHER -> <<Unreachable>>

\* codegen_char_at.
CharAt(f, as) ==
  <<Value(as[1]), Emit("length", "i64", <<V(f, 1)>>), Value(as[2]),
    Emit("ult", "i1", <<V(f, 3), V(f, 2)>>), Guard(V(f, 4), "anx_panic_str_oob", <<V(f, 3), V(f, 2)>>),
    Emit("anx_str_char_at", "struct", <<V(f, 1), V(f, 3)>>), Give(Last(f))>>

\* codegen_substring: start within the length, then end within it and not before start.
Substring(f, as) ==
  <<Value(as[1]), Emit("length", "i64", <<V(f, 1)>>), Value(as[2]), Value(as[3]),
    Emit("ule", "i1", <<V(f, 3), V(f, 2)>>), Guard(V(f, 5), "anx_panic_str_oob", <<V(f, 3), V(f, 2)>>),
    Emit("ule", "i1", <<V(f, 4), V(f, 2)>>), Emit("sle", "i1", <<V(f, 3), V(f, 4)>>),
    Emit("and", "i1", <<V(f, 6), V(f, 7)>>), Guard(V(f, 8), "anx_panic_str_oob", <<V(f, 4), V(f, 2)>>),
    Emit("anx_str_substring", "struct", <<V(f, 1), V(f, 3), V(f, 4)>>), Give(Last(f))>>

\* The function a name stands for.  The map is filled before any body is compiled.
\* A slip: as each body is compiled.
FuncSoFar(x) == {prog[j] : j \in {j2 \in DOMAIN prog : /\ j2 <= todo /\ Nodes[prog[j2]].k = "Func"
                                                       /\ Nodes[prog[j2]].name = x}}
Func(x) == {prog[i] : i \in {j \in DOMAIN prog :
              /\ Nodes[prog[j]].k = "Func" /\ Nodes[prog[j]].name = x
              /\ \A j2 \in j + 1 .. Len(prog) :
                   ~(Nodes[prog[j2]].k = "Func" /\ Nodes[prog[j2]].name = x)}}

\* codegen_field_access: there is no field but length.
LengthOf(f, object) == <<Value(object), Emit("length", "i64", <<V(f, 1)>>), Give(Last(f))>>

Call(f, nd) ==
  LET as == nd.kids
  IN  CASE nd.name = "print"     -> <<Value(as[1])>> \o PrintValue(f, as[1]) \o <<Give(NoValue)>>
        [] nd.name = "length"    -> LengthOf(f, as[1])
        [] nd.name = "charAt"    -> CharAt(f, as)
        [] nd.name = "substring" -> Substring(f, as)
        [] OTHER -> IF Func(nd.name) = {} THEN <<Unreachable>>
                    ELSE LET d == CHOOSE d \in Func(nd.name) : TRUE
                         IN  [i \in DOMAIN as |-> Value(as[i])]
                             \o <<CallTo(LType(Nodes[d].ty), [i \in DOMAIN as |-> V(f, i)], d), Give(Last(f))>>

\* size_of_basic_type: a string or an array as an element is unreachable!.
HasSize(lt) == lt \in {"i64", "i1", "double"}

\* build_len_data_struct.
LenDataStruct(m, p) == Emit("pack", "struct", <<m, p>>)

\* codegen_array_literal; "init" is the pair of a gep and a store.
ArrayLiteral(f, nd) ==
  LET es == nd.kids
      m  == Len(es)
  IN  IF ElemType(f.n) = "void" THEN <<Unreachable>>
      ELSE [i \in 1 .. m |-> Value(es[i])]
           \o (IF HasSize(ElemType(f.n)) THEN <<Emit("malloc", "ptr", <<I64(m)>>)>>
               ELSE <<Unreachable>>)
           \o [i \in 1 .. m |-> Emit("init", "none", <<V(f, m + 1), I64(i - 1), V(f, i)>>)]
           \o <<LenDataStruct(I64(m), V(f, m + 1)), Give(Last(f))>>

ArrayCreation(f, nd) ==
  IF ~HasSize(LType(nd.ty)) THEN <<Unreachable>>
  ELSE <<Value(nd.kids[1]), Emit("sge", "i1", <<V(f, 1), I64(0)>>),
         Guard(V(f, 2), "anx_panic_neg_size", <<V(f, 1)>>),
         Emit("calloc", "ptr", <<V(f, 1), DefaultValue(nd.ty)>>),
         LenDataStruct(V(f, 1), Last(f)), Give(Last(f))>>

Unary(f, nd) ==
  LET neg == IF Class(V(f, 1)) = "int" THEN "neg" ELSE "fneg"
  IN  <<Value(nd.kids[1]), Emit(IF nd.op = "Neg" THEN neg ELSE "not", V(f, 1).t, <<V(f, 1)>>),
        Give(Last(f))>>

ExprPlan(f, nd) ==
  CASE nd.k = "Ident" -> <<Emit("load", LType(TypeAt(f.n)), <<Slot(nd.name)>>), Give(Last(f))>>
    [] nd.k = "Binary" /\ nd.op \in Lazy -> ShortCircuit(f, nd)
    [] nd.k = "Binary" /\ nd.op \notin Lazy ->
         <<Value(nd.kids[1]), Value(nd.kids[2])>>
         \o ApplyBinop(f, nd.op, V(f, 1), V(f, 2)) \o <<Give(Last(f))>>
    [] nd.k = "Unary"          -> Unary(f, nd)
    [] nd.k = "Assign"         -> Assign(f, nd)
    [] nd.k = "CompoundAssign" -> CompoundAssign(f, nd)
    [] nd.k = "IncDec"         -> IncDec(f, nd)
    [] nd.k = "Ternary"        -> Ternary(f, nd)
    [] nd.k = "Call"           -> Call(f, nd)
    [] nd.k = "Index" ->
         IndexPtr(f, nd.kids[1], nd.kids[2], 0)
         \o <<Emit("load", ElemType(nd.kids[1]), <<Last(f)>>), Give(Last(f))>>
    [] nd.k = "FieldAccess"    -> LengthOf(f, nd.kids[1])
    [] nd.k = "ArrayLiteral"   -> ArrayLiteral(f, nd)
    [] nd.k = "ArrayCreation"  -> ArrayCreation(f, nd)
    [] nd.k = "StringLiteral"  -> <<Emit("strlit", "struct", <<Const("str", nd.lit)>>), Give(Last(f))>>
    [] OTHER -> <<Give(Literal(nd))>>

\* A statement's answer: TRUE when control cannot fall out of it.
Ended(x) == x.t = "flow" /\ x.v.b

\* Out of a branch of an if that falls through.  A slip: out of every one.
AlwaysBranch(x, b) == <<Goto("br", <<>>, <<b>>)>>
BranchUnless(x, b) == IF Ended(x) THEN <<>> ELSE <<Goto("br", <<>>, <<b>>)>>

\* codegen_if.
CodegenIf(f, nd) ==
  LET both == Len(nd.kids) = 3 /\ Ended(V(f, 2)) /\ Ended(V(f, 3))
  IN  <<Value(nd.kids[1]), Blocks(3), Goto("condbr", <<V(f, 1)>>, <<B(f, 1), B(f, 2)>>),
        Position(B(f, 1)), Scoped(nd.kids[2])>> \o BranchUnless(V(f, 2), B(f, 3))
      \o <<Position(B(f, 2))>>
      \o (IF Len(nd.kids) = 3 THEN <<Scoped(nd.kids[3])>> \o BranchUnless(V(f, 3), B(f, 3))
          ELSE <<Goto("br", <<>>, <<B(f, 3)>>)>>)
      \o <<Position(B(f, 3))>>
      \o (IF both THEN <<Goto("unreachable", <<>>, <<>>), Flow(TRUE)>> ELSE <<Flow(FALSE)>>)

\* codegen_while, and codegen_for from its condition on: k values come before it.
Loop(f, cond, body, update, k) ==
  <<Blocks(3), Goto("br", <<>>, <<B(f, 1)>>), Position(B(f, 1)), Value(cond),
    Goto("condbr", <<V(f, k + 1)>>, <<B(f, 2), B(f, 3)>>), Position(B(f, 2)), Scoped(body)>>
  \o (IF Ended(V(f, k + 2)) THEN <<>> ELSE update \o <<Goto("br", <<>>, <<B(f, 1)>>)>>)
  \o <<Position(B(f, 3)), Flow(FALSE)>>

StmtPlan(f, nd) ==
  CASE nd.k = "Expr" -> <<Gen(nd.kids[1]), Flow(FALSE)>>
    [] nd.k = "VarDecl" ->
         IF LType(nd.ty) = "void" THEN <<Unreachable>>
         ELSE <<Alloca(LType(nd.ty))>>
              \o (IF nd.kids = <<>> THEN <<Emit("store", "none", <<V(f, 1), DefaultValue(nd.ty)>>)>>
                  ELSE <<Value(nd.kids[1]), Emit("store", "none", <<V(f, 1), V(f, 2)>>)>>)
              \o <<Bind(V(f, 1)), Flow(FALSE)>>
    [] nd.k = "If"    -> CodegenIf(f, nd)
    [] nd.k = "While" -> Loop(f, nd.kids[1], nd.kids[2], <<>>, 0)
    [] nd.k = "For"   ->
         <<Gen(nd.kids[1])>> \o Loop(f, nd.kids[2], nd.kids[4], <<Gen(nd.kids[3])>>, 1)
    [] nd.k = "Return" ->
         IF nd.kids = <<>> THEN <<Goto("ret", <<>>, <<>>), Flow(TRUE)>>
         ELSE <<Value(nd.kids[1]), Goto("ret", <<V(f, 1)>>, <<>>), Flow(TRUE)>>
    [] OTHER -> <<>>

\* codegen_block: what follows a statement that ended is dead code.  A slip: it is
\* generated all the same.
KeepGoing(f) == FALSE
BlockEnded(f) == Ended(Last(f))
BlockStep(f, nd) ==
  IF BlockEnded(f) THEN Flow(TRUE)
  ELSE IF Len(f.vs) = Len(nd.kids) THEN Flow(FALSE) ELSE Gen(nd.kids[Len(f.vs) + 1])

\* A plan ends in an answer or a panic; beyond it there is nothing.
Taken(plan, pc) == IF pc \in DOMAIN plan THEN plan[pc] ELSE Unreachable

StepOf(f) ==
  LET nd == Nodes[f.n]
  IN  CASE nd.k \in {"Block", "Func"} -> BlockStep(f, nd)
        [] nd.k \in ExprKind          -> Taken(ExprPlan(f, nd), f.pc)
        [] OTHER                      -> Taken(StmtPlan(f, nd), f.pc)

(***************************************************************************)
(* Taking a step.                                                          *)
(***************************************************************************)
Frame(n, owned) == [n |-> n, pc |-> 1, owned |-> owned, vs |-> <<>>, bbs |-> <<>>]
Top    == gens[Len(gens)]
Step   == StepOf(Top)
Active(do) == stage = "compile" /\ gens # <<>> /\ Step.do \in do

Advance(vs, bbs) == gens' = [gens EXCEPT ![Len(gens)].pc = @ + 1,
                                         ![Len(gens)].vs = @ \o vs, ![Len(gens)].bbs = @ \o bbs]

Panics == stage' = "panic" /\ gens' = <<>> /\ UNCHANGED <<prog, types, todo, slots, blocks, builder, regs>>

\* A child: a block and a for loop open a scope, codegen_scoped one for what is no block.
GenChild ==
  /\ Active({"gen", "value"})
  /\ LET k == Nodes[Step.n].k
         owned == (IF k \in {"Block", "For"} THEN 1 ELSE 0) + (IF Step.scoped /\ k # "Block" THEN 1 ELSE 0)
     IN  /\ gens' = Append(gens, Frame(Step.n, owned))
         /\ slots' = slots \o [s \in 1 .. owned |-> NoSlots]
  /\ UNCHANGED <<prog, types, stage, todo, blocks, builder, regs>>

\* An activation returns.  Where its caller unwraps None, or expects a value, it panics.
Unwraps == Len(gens) > 1 /\ StepOf(gens[Len(gens) - 1]).do = "value"
Return ==
  /\ Active({"give"}) /\ Nodes[Top.n].k # "Func"
  /\ IF Step.x.t = "void" /\ Unwraps THEN Panics
     ELSE LET m == Len(gens) - 1
          IN  /\ gens' = [SubSeq(gens, 1, m) EXCEPT ![m].pc = @ + 1, ![m].vs = Append(@, Step.x)]
              /\ slots' = SubSeq(slots, 1, Len(slots) - Top.owned)
              /\ UNCHANGED <<prog, types, stage, todo, blocks, builder, regs>>

EmitInstr ==
  /\ Active({"emit"})
  /\ IF ~Takes(Step.op, Step.args) THEN Panics
     ELSE LET i == Instr(Step.op, Step.t, Step.args, Step.to)
          IN  /\ blocks' = [blocks EXCEPT ![builder].code = Append(@, i)]
              /\ regs' = regs + 1
              /\ Advance(CASE Step.t = "none" -> <<>> [] Step.t = "void" -> <<NoValue>>
                           [] OTHER -> <<Reg(Step.t, i.r)>>, <<>>)
              /\ UNCHANGED <<prog, types, stage, todo, slots, builder>>

Bare(b) == [fn |-> blocks[b].fn, code |-> <<>>]

\* emit_runtime_guard: on to a fresh block when ok holds, or to the runtime's panic.
RuntimeGuard ==
  /\ Active({"guard"})
  /\ LET ok == Len(blocks) + 1
         panics == [Bare(builder) EXCEPT
                      !.code = <<Instr(Step.f, "none", Step.args, <<>>),
                                 Instr("unreachable", "none", <<>>, <<>>)>>]
     IN  /\ blocks' = [blocks EXCEPT ![builder].code =
                         Append(@, Instr("condbr", "none", <<Step.ok>>, <<ok, ok + 1>>))]
                      \o <<Bare(builder), panics>>
         /\ builder' = ok
  /\ regs' = regs + 1 /\ Advance(<<>>, <<>>)
  /\ UNCHANGED <<prog, types, stage, todo, slots>>

AppendBlocks ==
  /\ Active({"blocks"})
  /\ blocks' = blocks \o [j \in 1 .. Step.m |-> Bare(builder)]
  /\ Advance(<<>>, [j \in 1 .. Step.m |-> Len(blocks) + j])
  /\ UNCHANGED <<prog, types, stage, todo, slots, builder, regs>>

PositionAtEnd ==
  /\ Active({"position"}) /\ builder' = Step.b /\ Advance(<<>>, <<>>)
  /\ UNCHANGED <<prog, types, stage, todo, slots, blocks, regs>>

GetInsertBlock ==
  /\ Active({"mark"}) /\ Advance(<<>>, <<builder>>)
  /\ UNCHANGED <<prog, types, stage, todo, slots, blocks, builder, regs>>

\* create_entry_alloca: before the first instruction of the function's first block.
\* A slip: where the builder is.
AllocaHere == builder
EntryBlock == CHOOSE b \in DOMAIN blocks : /\ blocks[b].fn = blocks[builder].fn
                                           /\ \A b2 \in 1 .. b - 1 : blocks[b2].fn # blocks[b].fn
CreateEntryAlloca ==
  /\ Active({"alloca"})
  /\ blocks' = [blocks EXCEPT ![EntryBlock].code = <<Instr("alloca", "ptr", <<>>, <<>>)>> \o @]
  /\ regs' = regs + 1 /\ Advance(<<Reg("ptr", regs + 1)>>, <<>>)
  /\ UNCHANGED <<prog, types, stage, todo, slots, builder>>

BindName ==
  /\ Active({"bind"})
  /\ slots' = [slots EXCEPT ![Len(slots)][Nodes[Top.n].name] = [ptr |-> Step.ptr, d |-> Top.n]]
  /\ Advance(<<>>, <<>>)
  /\ UNCHANGED <<prog, types, stage, todo, blocks, builder, regs>>

GiveUp == Active({"panic"}) /\ Panics

(***************************************************************************)
(* compile: every function is declared, then every body compiled, then the *)
(* C main that calls anx_main.  A top-level variable is passed over.       *)
(***************************************************************************)
Decl == Nodes[prog[todo]]

\* declare_function: a void parameter has no LLVM type.
DeclareFunction ==
  /\ stage = "declare" /\ todo <= Len(prog)
  /\ IF Decl.k = "Func" /\ \E i \in DOMAIN Decl.params : Nodes[Decl.params[i]].ty = TVoid
     THEN Panics
     ELSE todo' = todo + 1 /\ UNCHANGED <<prog, types, stage, gens, slots, blocks, builder, regs>>

DeclareDone ==
  /\ stage = "declare" /\ todo = Len(prog) + 1
  /\ stage' = "compile" /\ todo' = 1
  /\ UNCHANGED <<prog, types, gens, slots, blocks, builder, regs>>

\* compile_function up to its body: a slot for each parameter, the later of two of one
\* name in scope.
ParamScope(ps) == [x \in Name |->
  LET named == {i \in DOMAIN ps : Nodes[ps[i]].name = x}
  IN  IF named = {} THEN NoSlot
      ELSE LET i == CHOOSE i \in named : \A j \in named : j <= i
           IN  [ptr |-> Reg("ptr", regs + i), d |-> ps[i]]]

CompileFunction ==
  /\ stage = "compile" /\ gens = <<>> /\ todo <= Len(prog) /\ Decl.k = "Func"
  /\ LET ps == Decl.params
         m  == Len(ps)
         allocas == [i \in 1 .. m |-> [Instr("alloca", "ptr", <<>>, <<>>) EXCEPT !.r = regs + m + 1 - i]]
         stores  == [i \in 1 .. m |->
                       [Instr("store", "none", <<Reg("ptr", regs + i), Arg(LType(Nodes[ps[i]].ty), i)>>, <<>>)
                          EXCEPT !.r = regs + m + i]]
     IN  /\ \E f \in Func(Decl.name) : blocks' = Append(blocks, [fn |-> f, code |-> allocas \o stores])
         /\ slots' = <<ParamScope(ps)>>
         /\ regs' = regs + 2 * m
  /\ builder' = Len(blocks) + 1
  /\ gens' = <<Frame(prog[todo], 0)>>
  /\ UNCHANGED <<prog, types, stage, todo>>

\* compile_function after its body.
Close(code) ==
  IF Ended(Step.x) THEN code
  ELSE Append(code, Instr(IF Decl.ty = TVoid THEN "ret" ELSE "unreachable", "none", <<>>, <<>>))

EndFunction ==
  /\ Active({"give"}) /\ Nodes[Top.n].k = "Func"
  /\ blocks' = [blocks EXCEPT ![builder].code = Close(@)]
  /\ regs' = regs + 1 /\ gens' = <<>> /\ slots' = <<>> /\ todo' = todo + 1
  /\ UNCHANGED <<prog, types, stage, builder>>

SkipVariable ==
  /\ stage = "compile" /\ gens = <<>> /\ todo <= Len(prog) /\ Decl.k # "Func"
  /\ todo' = todo + 1 /\ UNCHANGED <<prog, types, stage, gens, slots, blocks, builder, regs>>

\* emit_c_main_wrapper; the C main is function 0.
EmitCMainWrapper ==
  /\ stage = "compile" /\ gens = <<>> /\ todo = Len(prog) + 1
  /\ blocks' = Append(blocks, [fn |-> 0, code |->
       <<Instr("call", "void", <<>>, <<CHOOSE d \in Func("main") : TRUE>>),
         Instr("ret", "none", <<I64(0)>>, <<>>)>>])
  /\ builder' = Len(blocks) + 1 /\ regs' = regs + 2 /\ stage' = "done"
  /\ UNCHANGED <<prog, types, todo, gens, slots>>

Init == /\ stage = "declare" /\ todo = 1 /\ gens = <<>> /\ slots = <<>>
        /\ blocks = <<>> /\ builder = 0 /\ regs = 0

CodegenExpr == GenChild \/ Return \/ EmitInstr \/ RuntimeGuard \/ AppendBlocks \/ PositionAtEnd
               \/ GetInsertBlock \/ CreateEntryAlloca \/ BindName \/ GiveUp
Compile == DeclareFunction \/ DeclareDone \/ CompileFunction \/ EndFunction \/ SkipVariable
           \/ EmitCMainWrapper
Next == CodegenExpr \/ Compile

-----------------------------------------------------------------------------
(***************************************************************************)
(* Properties of the module that is generated.                             *)
(***************************************************************************)
Targets(b) == LET c == blocks[b].code
              IN  IF Terminated(b) THEN {c[Len(c)].to[i] : i \in DOMAIN c[Len(c)].to} ELSE {}
Predecessors(b) == {b2 \in DOMAIN blocks : b \in Targets(b2)}
PhisOf(b) == {i \in DOMAIN blocks[b].code : blocks[b].code[i].op = "phi"}
Finished(b) == gens = <<>> \/ blocks[b].fn # blocks[builder].fn

\* Whatever combination of returns, branches, loops and short circuits a function is
\* made of, nothing is ever appended after a terminator, and every block of a finished
\* function has one: dead code is left out exactly where codegen_stmt answers that
\* control cannot get there.
OneTerminatorPerBlock ==
  stage # "panic" => \A b \in DOMAIN blocks :
    LET c == blocks[b].code
    IN  /\ \A i \in 1 .. Len(c) - 1 : c[i].op \notin Terminator
        /\ Finished(b) => Terminated(b)

\* A phi comes first in its block and has one value for each way in, each for the
\* block the operand ended in - not the one it began in.
PhisNameTheirPredecessors ==
  stage # "panic" => \A b \in DOMAIN blocks : \A i \in PhisOf(b) :
    LET to == blocks[b].code[i].to
    IN  /\ i = 1 /\ to[1] # to[2]
        /\ Finished(b) => {to[1], to[2]} = Predecessors(b)

\* A loop's body never allocates a stack slot: they are all in the entry block.
AllocasInEntry ==
  stage # "panic" => \A b \in DOMAIN blocks : \A i \in DOMAIN blocks[b].code :
    blocks[b].code[i].op = "alloca" => Predecessors(b) = {} /\ \A b2 \in 1 .. b - 1 : blocks[b2].fn # blocks[b].fn
===============================================================================
