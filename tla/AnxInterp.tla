------------------------------ MODULE AnxInterp -------------------------------
(***************************************************************************)
(* The tree-walking interpreter (interp/mod.rs).  The code recurses over   *)
(* the tree; here each Rust activation of eval_expr, exec_stmt or          *)
(* call_function is a frame of `stack`, and the values its callees have    *)
(* returned to it so far are the frame's `vs`.  A frame either calls down  *)
(* (pushes the frame of a child), or completes: it pops itself and appends *)
(* its value to the caller's `vs`.  A completed statement returns VoidV.   *)
(***************************************************************************)
EXTENDS AnxValue

VARIABLES
  prog,     \* the program: its declarations, in source order
  decl,     \* run: the next declaration to define; then main; then the end
  stack,    \* the activations, the innermost last
  envs,     \* every Environment made; envs[1] is `globals`
  heap,     \* every array made: the sequence of its cells
  flow,     \* Flow: Normal, or a Return on its way up
  out,      \* what print wrote
  status    \* "run", then "ok", or what a Failure is

vars == <<prog, decl, stack, envs, heap, flow, out, status>>

(***************************************************************************)
(* Environments.  An entry's `d` is the declaration that made it (a        *)
(* history field; 0 for a name that is not defined).  `chain` lists the    *)
(* environment itself, its parent, and so on up to globals.                *)
(***************************************************************************)
Unbound == [v |-> VoidV, d |-> 0]
Empty   == [x \in Name |-> Unbound]
Globals == 1

Child(es, e) == Append(es, [vars |-> Empty, chain |-> <<Len(es) + 1>> \o es[e].chain])

\* The environment `get` and `set` find x in: the first of e's chain that defines
\* it; none when the walk runs off the end of the chain.
Owner(e, x) ==
  LET c == envs[e].chain
  IN  {c[i] : i \in {j \in DOMAIN c : /\ envs[c[j]].vars[x].d # 0
                                      /\ \A j2 \in 1 .. j - 1 : envs[c[j2]].vars[x].d = 0}}

(***************************************************************************)
(* Frames.                                                                 *)
(***************************************************************************)
Frame(n, e) == [n |-> n, env |-> e, vs |-> <<>>]
Normal      == [k |-> "Normal", v |-> VoidV]
Return(v)   == [k |-> "Return", v |-> v]

Top  == stack[Len(stack)]
Here == Nodes[Top.n]
Done == Len(Top.vs)            \* how many values the top frame has
Running == status = "run" /\ flow = Normal /\ stack # <<>>
At(k) == Running /\ Here.k = k

Push(n, e)  == Append(stack, Frame(n, e))
SetTop(vs)  == [stack EXCEPT ![Len(stack)].vs = vs]
\* The stack when the top frame has returned v to its caller.
Popped(v)   == [i \in 1 .. Len(stack) - 1 |->
                  IF i = Len(stack) - 1 THEN [stack[i] EXCEPT !.vs = Append(@, v)]
                  ELSE stack[i]]

\* An error or a panic leaves every activation at once.
Halt(s) == /\ status' = s /\ stack' = <<>>
           /\ UNCHANGED <<prog, decl, envs, heap, flow, out>>

Eval(n)   == stack' = Push(n, Top.env) /\ UNCHANGED <<prog, decl, envs, heap, flow, out, status>>
Keep(v)   == /\ stack' = SetTop(Append(Top.vs, v))
             /\ UNCHANGED <<prog, decl, envs, heap, flow, out, status>>
Yield(v)  == stack' = Popped(v) /\ UNCHANGED <<prog, decl, envs, heap, flow, out, status>>
Finish(o) == IF o.k = "Fail" THEN Halt(o.e) ELSE Yield(o)

Define(e, n, v) == [envs EXCEPT ![e].vars[Nodes[n].name] = [v |-> v, d |-> n]]

\* A slip: the array is never made.
NoNewCells(t) == heap

\* default_value: an array starts as a fresh array without cells.
NewCells(t) == IF IsArray(t) THEN Append(heap, <<>>) ELSE heap
Default(t)  == IF IsArray(t) THEN ArrV(Len(heap) + 1)
               ELSE CASE t.base = "Int"   -> IntV(0)
                      [] t.base = "Float" -> FloatV(0)
                      [] t.base = "Bool"  -> BoolV(FALSE)
                      [] t.base = "Str"   -> StrV(<<>>)
                      [] OTHER            -> VoidV

(***************************************************************************)
(* The operands an activation evaluates before it acts, in the order the   *)
(* code evaluates them.  Slot is the step of a compound assignment that    *)
(* checks the target and reads its current value, before the right-hand    *)
(* side is evaluated.                                                      *)
(***************************************************************************)
Slot == 0
\* A slip: the target is checked once the right-hand side has been evaluated.
ValueThenSlot(nd) == <<nd.kids[2], Slot>>
SlotThenValue(nd) == <<Slot, nd.kids[2]>>

TargetKind(nd) == Nodes[nd.kids[1]].k
TargetKids(nd) == Nodes[nd.kids[1]].kids

Operands(nd) ==
  CASE nd.k = "Assign" ->
         <<nd.kids[2]>> \o IF TargetKind(nd) = "Index" THEN TargetKids(nd) ELSE <<>>
    [] nd.k = "CompoundAssign" ->
         (IF TargetKind(nd) = "Index" THEN TargetKids(nd) ELSE <<>>) \o SlotThenValue(nd)
    [] nd.k = "IncDec" -> IF TargetKind(nd) = "Index" THEN TargetKids(nd) ELSE <<>>
    [] nd.k = "Call" /\ nd.name = "print" /\ nd.kids # <<>> -> <<nd.kids[1]>>
    [] OTHER -> nd.kids

IsLazy(nd) == nd.k = "Ternary" \/ (nd.k = "Binary" /\ nd.op \in Lazy)
Strict(nd) == nd.k \in ExprKind \cup {"Expr", "VarDecl", "Return"} /\ ~IsLazy(nd)
Ready(k)   == At(k) /\ Strict(Here) /\ Done = Len(Operands(Here))

(***************************************************************************)
(* Expressions (eval_expr and the eval_* functions).                       *)
(***************************************************************************)
EvalOperand ==
  /\ Running /\ Strict(Here)
  /\ LET ops == Operands(Here) IN Done < Len(ops) /\ ops[Done + 1] # Slot /\ Eval(ops[Done + 1])

EvalLiteral ==
  /\ \E k \in {"IntLiteral", "FloatLiteral", "BoolLiteral", "StringLiteral", "Null"} : At(k)
  /\ Yield(Here.lit)

EvalIdent ==
  /\ At("Ident")
  /\ IF Owner(Top.env, Here.name) = {} THEN Halt("panic")
     ELSE \E o \in Owner(Top.env, Here.name) : Yield(envs[o].vars[Here.name].v)

EvalBinary == Ready("Binary") /\ Finish(ApplyBinaryOp(heap, Here.op, Top.vs[1], Top.vs[2]))

\* as_bool of a condition, and what the code does with it.
Branch(v, yes, no) == IF v.k # "Bool" THEN Halt("panic") ELSE IF v.b THEN yes ELSE no

\* && and ||: the right operand is evaluated only when the left does not decide.
EvalShortCircuit ==
  /\ At("Binary") /\ Here.op \in Lazy
  /\ CASE Done = 0 -> Eval(Here.kids[1])
       [] Done = 1 -> IF Here.op = "And"
                      THEN Branch(Top.vs[1], Eval(Here.kids[2]), Yield(BoolV(FALSE)))
                      ELSE Branch(Top.vs[1], Yield(BoolV(TRUE)), Eval(Here.kids[2]))
       [] OTHER    -> Branch(Top.vs[2], Yield(BoolV(TRUE)), Yield(BoolV(FALSE)))

EvalTernary ==
  /\ At("Ternary")
  /\ CASE Done = 0 -> Eval(Here.kids[1])
       [] Done = 1 -> Branch(Top.vs[1], Eval(Here.kids[2]), Eval(Here.kids[3]))
       [] OTHER    -> Yield(Top.vs[2])

EvalUnary == Ready("Unary") /\ Finish(ApplyUnary(Here.op, Top.vs[1]))

\* env.set(x, v), then the assignment's own value is `result`.
SetVar(x, v, result) ==
  IF Owner(Top.env, x) = {} THEN Halt("panic")
  ELSE /\ \E o \in Owner(Top.env, x) : envs' = [envs EXCEPT ![o].vars[x].v = v]
       /\ stack' = Popped(result)
       /\ UNCHANGED <<prog, decl, heap, flow, out, status>>

InBounds(i, r) == i \in 0 .. Len(heap[r]) - 1
SetCell(r, i, v, result) ==
  /\ heap' = [heap EXCEPT ![r][i + 1] = v]
  /\ stack' = Popped(result)
  /\ UNCHANGED <<prog, decl, envs, flow, out, status>>

\* `a` and `i`, an array and an index, are what a target or an index expression
\* evaluated to: act on the cell unless it does not exist.
OnCell(a, i, act) ==
  IF a.k # "Array" \/ i.k # "Int" THEN Halt("panic")
  ELSE IF InBounds(i.i, a.r) THEN act ELSE Halt("IndexOutOfBounds")

EvalAssign ==
  /\ Ready("Assign")
  /\ LET v == Top.vs[1]
     IN  CASE TargetKind(Here) = "Ident" -> SetVar(Nodes[Here.kids[1]].name, v, v)
           [] TargetKind(Here) = "Index" ->
                OnCell(Top.vs[2], Top.vs[3], SetCell(Top.vs[2].r, Top.vs[3].i, v, v))
           [] OTHER -> Halt("panic")

\* The bounds check and the load of a compound assignment's target.
LoadSlot ==
  /\ At("CompoundAssign")
  /\ Done < Len(Operands(Here)) /\ Operands(Here)[Done + 1] = Slot
  /\ LET x == Nodes[Here.kids[1]].name
     IN  CASE TargetKind(Here) = "Ident" ->
                IF Owner(Top.env, x) = {} THEN Halt("panic")
                ELSE \E o \in Owner(Top.env, x) : Keep(envs[o].vars[x].v)
           [] TargetKind(Here) = "Index" ->
                OnCell(Top.vs[1], Top.vs[2], Keep(heap[Top.vs[1].r][Top.vs[2].i + 1]))
           [] OTHER -> Halt("panic")

\* The store of a compound assignment: to an array cell, without a second check.
EvalCompoundAssign ==
  /\ Ready("CompoundAssign")
  /\ LET new == ApplyBinaryOp(heap, Here.op, Top.vs[Done - 1], Top.vs[Done])
     IN  IF new.k = "Fail" THEN Halt(new.e)
         ELSE IF TargetKind(Here) = "Ident" THEN SetVar(Nodes[Here.kids[1]].name, new, new)
         ELSE SetCell(Top.vs[1].r, Top.vs[2].i, new, new)

\* A slip: prefix and postfix exchanged.
PostfixNew(old, new)   == IF Here.prefix THEN old ELSE new
IncDecResult(old, new) == IF Here.prefix THEN new ELSE old

EvalIncDec ==
  /\ Ready("IncDec")
  /\ LET x == Nodes[Here.kids[1]].name
     IN  CASE TargetKind(Here) = "Ident" ->
                IF Owner(Top.env, x) = {} THEN Halt("panic")
                ELSE \E o \in Owner(Top.env, x) :
                       LET old == envs[o].vars[x].v
                           new == ApplyIncDec(Here.op, old)
                       IN  IF new.k = "Fail" THEN Halt(new.e)
                           ELSE SetVar(x, new, IncDecResult(old, new))
           [] TargetKind(Here) = "Index" ->
                LET a == Top.vs[1]  i == Top.vs[2]
                    old == heap[a.r][i.i + 1]
                    new == ApplyIncDec(Here.op, old)
                IN  OnCell(a, i, IF new.k = "Fail" THEN Halt(new.e)
                                 ELSE SetCell(a.r, i.i, new, IncDecResult(old, new)))
           [] OTHER -> Halt("panic")

EvalIndex ==
  /\ Ready("Index")
  /\ OnCell(Top.vs[1], Top.vs[2], Yield(heap[Top.vs[1].r][Top.vs[2].i + 1]))

EvalFieldAccess ==
  /\ Ready("FieldAccess")
  /\ LET v == Top.vs[1]
     IN  Finish(IF Here.name # "length" THEN Panic
                ELSE IF v.k = "Array" THEN IntV(Wrap(Len(heap[v.r])))
                ELSE StringLength(<<v>>))

EvalArrayLiteral ==
  /\ Ready("ArrayLiteral")
  /\ heap' = Append(heap, Top.vs) /\ stack' = Popped(ArrV(Len(heap) + 1))
  /\ UNCHANGED <<prog, decl, envs, flow, out, status>>

\* vec![default; n]: the cells of an array of arrays all name the one default.
EvalArrayCreation ==
  /\ Ready("ArrayCreation")
  /\ LET n == Top.vs[1]  h == NewCells(Here.ty)
     IN  IF n.k # "Int" THEN Halt("panic")
         ELSE IF n.i < 0 THEN Halt("NegativeArraySize")
         ELSE /\ heap' = Append(h, [j \in 1 .. n.i |-> Default(Here.ty)])
              /\ stack' = Popped(ArrV(Len(h) + 1))
              /\ UNCHANGED <<prog, decl, envs, flow, out, status>>

(***************************************************************************)
(* Calls (eval_call, call_function).  The functions map is filled in       *)
(* source order, so the last declaration of a name is the one called; a    *)
(* parameter name given twice holds the later argument.  A call's          *)
(* environment is a child of globals, whatever the caller's is.            *)
(***************************************************************************)
Functions(f) == {prog[i] : i \in {j \in DOMAIN prog :
                    /\ Nodes[prog[j]].k = "Func" /\ Nodes[prog[j]].name = f
                    /\ \A j2 \in j + 1 .. Len(prog) :
                         ~(Nodes[prog[j2]].k = "Func" /\ Nodes[prog[j2]].name = f)}}

ArgOf(ps, args, x) == {i \in DOMAIN ps \cap DOMAIN args :
                         /\ Nodes[ps[i]].name = x
                         /\ \A j \in DOMAIN ps \cap DOMAIN args : Nodes[ps[j]].name = x => j <= i}

Bind(ps, args) == [x \in Name |->
  IF ArgOf(ps, args, x) = {} THEN Unbound
  ELSE LET i == CHOOSE i \in ArgOf(ps, args, x) : TRUE IN [v |-> args[i], d |-> ps[i]]]

\* What a call's environment is a child of.  A slip: the caller's environment.
CallersEnv   == IF stack = <<>> THEN Globals ELSE Top.env
CalleeParent == Globals

\* call_function: st is the stack below the callee's activation.
CallFunction(f, args, st) ==
  IF Functions(f) = {} THEN Halt("panic")
  ELSE \E d \in Functions(f) :
         /\ envs' = [Child(envs, CalleeParent) EXCEPT ![Len(envs) + 1].vars = Bind(Nodes[d].params, args)]
         /\ stack' = Append(st, Frame(d, Len(envs) + 1))
         /\ UNCHANGED <<prog, heap, flow, out, status>>

EvalPrint ==
  /\ Ready("Call") /\ Here.name = "print"
  /\ IF Done = 0 THEN Halt("panic")
     ELSE /\ out' = Append(out, Format(Top.vs[1])) /\ stack' = Popped(VoidV)
          /\ UNCHANGED <<prog, decl, envs, heap, flow, status>>

EvalBuiltin ==
  /\ Ready("Call") /\ Here.name \in Builtin
  /\ Finish(ApplyBuiltin(Here.name, Top.vs))

EvalCall ==
  /\ Ready("Call") /\ Here.name \notin Builtin \cup {"print"}
  /\ CallFunction(Here.name, Top.vs, stack) /\ UNCHANGED decl

\* call_function has returned to eval_call.
EndCall == At("Call") /\ Done > Len(Operands(Here)) /\ Yield(Top.vs[Done])

(***************************************************************************)
(* Statements (exec_stmt, exec_block, exec_scoped).                        *)
(***************************************************************************)
\* exec_stmt of child n in environment e: a block and a for loop make a child of e.
Exec(n, e) ==
  LET scopes == Nodes[n].k \in {"Block", "For"}
  IN  /\ envs'  = IF scopes THEN Child(envs, e) ELSE envs
      /\ stack' = Push(n, IF scopes THEN Len(envs) + 1 ELSE e)
      /\ UNCHANGED <<prog, decl, heap, flow, out, status>>

\* exec_scoped: a body that is not a block runs in a child of e all the same.
ExecScoped(n) ==
  IF Nodes[n].k = "Block" THEN Exec(n, Top.env)
  ELSE LET es == Child(envs, Top.env)
           loop == Nodes[n].k = "For"
       IN  /\ envs'  = IF loop THEN Child(es, Len(es)) ELSE es
           /\ stack' = Push(n, Len(envs'))
           /\ UNCHANGED <<prog, decl, heap, flow, out, status>>

ExecExpr == Ready("Expr") /\ Yield(VoidV)

ExecVarDecl ==
  /\ Ready("VarDecl")
  /\ envs' = Define(Top.env, Top.n, IF Done = 1 THEN Top.vs[1] ELSE Default(Here.ty))
  /\ heap' = IF Done = 1 THEN heap ELSE NewCells(Here.ty)
  /\ stack' = Popped(VoidV)
  /\ UNCHANGED <<prog, decl, flow, out, status>>

\* exec_block, of a block and of a function's body; falling off the end of a body
\* returns void.
ExecBlock ==
  /\ At("Block") \/ At("Func")
  /\ IF Done < Len(Here.kids) THEN Exec(Here.kids[Done + 1], Top.env) ELSE Yield(VoidV)

ExecIf ==
  /\ At("If")
  /\ CASE Done = 0 -> Eval(Here.kids[1])
       [] Done = 1 -> Branch(Top.vs[1], ExecScoped(Here.kids[2]),
                             IF Len(Here.kids) = 3 THEN ExecScoped(Here.kids[3]) ELSE Yield(VoidV))
       [] OTHER    -> Yield(VoidV)

\* A loop's next iteration starts with vs.  A slip: it keeps what it has.
AgainAsBefore(vs) == UNCHANGED vars
Again(vs) == stack' = SetTop(vs) /\ UNCHANGED <<prog, decl, envs, heap, flow, out, status>>

ExecWhile ==
  /\ At("While")
  /\ CASE Done = 0 -> Eval(Here.kids[1])
       [] Done = 1 -> Branch(Top.vs[1], ExecScoped(Here.kids[2]), Yield(VoidV))
       [] OTHER    -> Again(<<>>)

\* The initialiser, the condition and the update run in the loop's environment.
ExecFor ==
  /\ At("For")
  /\ CASE Done = 0 -> Exec(Here.kids[1], Top.env)
       [] Done = 1 -> Eval(Here.kids[2])
       [] Done = 2 -> Branch(Top.vs[2], ExecScoped(Here.kids[4]), Yield(VoidV))
       [] Done = 3 -> Eval(Here.kids[3])
       [] OTHER    -> Again(SubSeq(Top.vs, 1, 1))

ExecReturn ==
  /\ Ready("Return")
  /\ flow' = Return(IF Done = 1 THEN Top.vs[1] ELSE VoidV)
  /\ stack' = SubSeq(stack, 1, Len(stack) - 1)
  /\ UNCHANGED <<prog, decl, envs, heap, out, status>>

\* A slip: the call ends, and its Return goes on.
UnwindOn ==
  /\ status = "run" /\ flow # Normal /\ stack # <<>>
  /\ stack' = IF Here.k = "Func" THEN Popped(flow.v) ELSE SubSeq(stack, 1, Len(stack) - 1)
  /\ UNCHANGED <<prog, decl, envs, heap, flow, out, status>>

\* A Return leaves each enclosing statement, and ends at the function's activation.
Unwind ==
  /\ status = "run" /\ flow # Normal /\ stack # <<>>
  /\ IF Here.k = "Func" THEN stack' = Popped(flow.v) /\ flow' = Normal
     ELSE stack' = SubSeq(stack, 1, Len(stack) - 1) /\ UNCHANGED flow
  /\ UNCHANGED <<prog, decl, envs, heap, out, status>>

(***************************************************************************)
(* run: the globals in source order, then main.                            *)
(***************************************************************************)
AtRun == status = "run" /\ stack = <<>>

RunDecl ==
  /\ AtRun /\ decl <= Len(prog)
  /\ decl' = decl + 1
  /\ stack' = IF Nodes[prog[decl]].k = "VarDecl" THEN <<Frame(prog[decl], Globals)>> ELSE <<>>
  /\ UNCHANGED <<prog, envs, heap, flow, out, status>>

RunMain ==
  /\ AtRun /\ decl = Len(prog) + 1
  /\ IF Functions("main") = {} THEN Halt("panic")
     ELSE CallFunction("main", <<>>, <<>>) /\ decl' = decl + 1

RunEnd == AtRun /\ decl = Len(prog) + 2 /\ Halt("ok")

Init ==
  /\ prog \in Programs /\ decl = 1 /\ stack = <<>>
  /\ envs = <<[vars |-> Empty, chain |-> <<Globals>>]>>
  /\ heap = <<>> /\ flow = Normal /\ out = <<>> /\ status = "run"

EvalExpr == \/ EvalOperand \/ EvalLiteral \/ EvalIdent \/ EvalBinary \/ EvalShortCircuit
            \/ EvalTernary \/ EvalUnary \/ EvalAssign \/ LoadSlot \/ EvalCompoundAssign
            \/ EvalIncDec \/ EvalIndex \/ EvalFieldAccess \/ EvalArrayLiteral
            \/ EvalArrayCreation \/ EvalPrint \/ EvalBuiltin \/ EvalCall \/ EndCall
ExecStmt == \/ ExecExpr \/ ExecVarDecl \/ ExecBlock \/ ExecIf \/ ExecWhile \/ ExecFor
            \/ ExecReturn \/ Unwind
Run == RunDecl \/ RunMain \/ RunEnd

\* A halted interpreter has left the process.
Halted == status # "run" /\ UNCHANGED vars

Next == EvalExpr \/ ExecStmt \/ Run \/ Halted

\* One thread runs the program: it takes a step whenever it has one.
Spec == Init /\ [][Next]_vars /\ WF_vars(Next)

-----------------------------------------------------------------------------
(***************************************************************************)
(* Properties.                                                             *)
(***************************************************************************)
\* The frames and environments of a state with m arrays and e environments.
Frames(m, e)       == [n: NodeId, env: 1 .. e, vs: Seq(Value(m))]
Environments(m, e) == [vars: [Name -> [v: Value(m), d: {0} \cup NodeId]], chain: Seq(1 .. e)]

\* Every activation names a node and an environment that exist, and every value
\* anywhere in the interpreter is a scalar or an array that exists.
TypeOK ==
  /\ prog \in Programs /\ decl \in 1 .. Len(prog) + 2
  /\ stack \in Seq(Frames(Len(heap), Len(envs)))
  /\ envs \in Seq(Environments(Len(heap), Len(envs))) /\ envs # <<>>
  /\ heap \in Seq(Seq(Value(Len(heap))))
  /\ flow \in [k: {"Normal", "Return"}, v: Value(Len(heap))]
  /\ out \in Seq(Text)
  /\ status \in {"run", "ok", "panic", "overflow"} \cup RuntimeError

\* eval_compound_assign checks its index before it evaluates the right-hand side
\* and stores after it without looking again.  Whatever that side does - assign
\* the variable another array, call a function that does, store to the same array
\* - the cell to be stored to is still there.
PendingCell(f) == /\ Nodes[f.n].k = "CompoundAssign" /\ TargetKind(Nodes[f.n]) = "Index"
                  /\ Len(f.vs) > 2
SlotStaysInBounds ==
  \A j \in DOMAIN stack :
    LET f == stack[j]
    IN  PendingCell(f) => /\ f.vs[1].k = "Array" /\ f.vs[2].k = "Int"
                          /\ InBounds(f.vs[2].i, f.vs[1].r)

\* The function activation that the activation at depth j belongs to (0 for a
\* global's initialiser).
Activation(j) ==
  LET fs == {j2 \in 1 .. j : Nodes[stack[j2].n].k = "Func"}
  IN  IF fs = {} THEN 0 ELSE CHOOSE j2 \in fs : \A j3 \in fs : j3 <= j2
Reach(j) == LET c == envs[stack[j].env].chain IN {c[l] : l \in DOMAIN c}

\* Scoping is lexical: two activations on the stack, however deep the recursion,
\* see no environment in common but the globals, and both do see those.
ActivationsIsolated ==
  \A j1, j2 \in DOMAIN stack :
    Activation(j1) # Activation(j2) => Reach(j1) \cap Reach(j2) = {Globals}

\* A Return on its way up always has a call to end: it never leaves the program.
ReturnHasItsCall ==
  flow # Normal => \E j \in DOMAIN stack : Nodes[stack[j].n].k = "Func"

\* Every program of the instance ends: no activation waits for a value that no step
\* provides, and each loop makes the progress its update makes.
Terminates == <>(status # "run")
===============================================================================
