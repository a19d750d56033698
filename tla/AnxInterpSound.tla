---------------------------- MODULE AnxInterpSound ----------------------------
(***************************************************************************)
(* The interpreter of a well typed program (AnxTyping): what the scopes    *)
(* and the paths of its text say is what happens.  A name means, whatever  *)
(* has been called, repeated or left, the declaration that the scopes give *)
(* it; the end of a function that has to return is never reached; every    *)
(* value has the type that its expression, its variable or its array has;  *)
(* and there are two panics, which the types do not rule out.              *)
(***************************************************************************)
EXTENDS AnxInterpProofs

(***************************************************************************)
(* The invariant, in terms of the program p, the environments es and the   *)
(* stack st of a state.                                                    *)
(***************************************************************************)
\* The scopes of the text that an activation has come to.
ScopesAt(p, f) == After(ScopesOf(p)[f.n], Nodes[f.n], Len(f.vs))

\* Activation f waits for g: for an operand or a condition, a statement, or a function.
EvaluatesNow(f) ==
  LET k == Nodes[f.n].k
  IN  /\ k \notin {"Block", "Func"}
      /\ k \in {"If", "While"} => Len(f.vs) = 0
      /\ k = "For" => Len(f.vs) \in {1, 3}
ExecutesNow(f, i) ==
  LET nd == Nodes[f.n]  d == Len(f.vs)
  IN  /\ i \in 1 .. Len(nd.kids)
      /\ \/ nd.k \in {"Block", "Func"} /\ i = d + 1
         \/ nd.k = "If" /\ d = 1 /\ i \in {2, 3}
         \/ nd.k = "While" /\ d = 1 /\ i = 2
         \/ nd.k = "For" /\ d = 0 /\ i = 1
         \/ nd.k = "For" /\ d = 2 /\ i = 4
Awaits(f, g) ==
  \/ Nodes[g.n].k \in ExprKind /\ EvaluatesNow(f)
  \/ Nodes[g.n].k = "Func" /\ Nodes[f.n].k = "Call"
  \/ /\ Nodes[g.n].k \in StmtKind
     /\ \E i \in 1 .. Len(Nodes[f.n].kids) :
          /\ ExecutesNow(f, i) /\ g.n = Nodes[f.n].kids[i]
          /\ NewScopes(Nodes[f.n], i) = 0 => g.env = f.env

InProgram(p, st) == \A j \in 1 .. Len(st) : /\ st[j].n \in NodesOf(p)
                                            /\ Nodes[st[j].n].k \in ExprKind \cup StmtKind \cup {"Func"}
Waiting(st) == \A j \in 1 .. Len(st) - 1 : Awaits(st[j], st[j + 1])
Based(p, st) == st # <<>> => /\ \E i \in 1 .. Len(p) : st[1].n = p[i]
                             /\ Nodes[st[1].n].k # "Func" => st[1].env = Globals
StackOf(p, st) == InProgram(p, st) /\ Waiting(st) /\ Based(p, st)

\* A chain goes down from its environment to the globals.
ChainsOf(es) == \A e \in 1 .. Len(es) :
                  LET c == es[e].chain
                  IN  c # <<>> /\ c[1] = e /\ c[Len(c)] = Globals /\ \A l \in 2 .. Len(c) : c[l] < e

\* An activation that makes a scope is alone with it: those around it do not see it.
Branches(f) == Nodes[f.n].k \in {"If", "While"} \/ (Nodes[f.n].k = "For" /\ Len(f.vs) = 2)
Opens(st, j) == \/ Nodes[st[j].n].k \in {"Block", "For", "Func"}
                \/ j > 1 /\ Nodes[st[j].n].k = "VarDecl" /\ Branches(st[j - 1])
OwnOf(es, st) == \A j \in 1 .. Len(st) : Opens(st, j) =>
                   /\ st[j].env # Globals
                   /\ \A i \in 1 .. j - 1 : st[j].env \notin Sees(es, st[i].env)

\* The environments on a chain hold what the scopes ss declare; the globals may lack
\* what is not yet defined, and have what is declared below.
IsGlobal(p, d, x) == \E i \in 1 .. Len(p) : /\ d = p[i] /\ Nodes[d].k = "VarDecl"
                                            /\ Nodes[d].name = x
Holds(p, es, e, ss) ==
  LET c == es[e].chain
  IN  /\ Len(c) = Len(ss)
      /\ \A l \in 1 .. Len(ss) - 1 : \A x \in Name : es[c[l]].vars[x].d = ss[Len(ss) + 1 - l][x]
      /\ \A x \in Name : ss[1][x] # NoDecl => IsGlobal(p, ss[1][x], x)
NamesOf(p, es, st) ==
  /\ \A j \in 1 .. Len(st) : Holds(p, es, st[j].env, ScopesAt(p, st[j]))
  /\ \A x \in Name : es[Globals].vars[x].d # 0 => IsGlobal(p, es[Globals].vars[x].d, x)

\* No statement that was left at its end is one that must return.
Fell(f) ==
  LET nd == Nodes[f.n]
  IN  /\ nd.k \in {"Block", "Func"} => /\ Len(f.vs) <= Len(nd.kids)
                                       /\ \A i \in 1 .. Len(f.vs) : ~MustReturn(nd.kids[i])
      /\ nd.k = "If" /\ Len(f.vs) > 1 => ~MustReturn(f.n)
FallOf(st) == \A j \in 1 .. Len(st) : Fell(st[j])

SoundInv == /\ StackOf(prog, stack) /\ ChainsOf(envs) /\ OwnOf(envs, stack)
            /\ NamesOf(prog, envs, stack) /\ FallOf(stack)
(***************************************************************************)
(* The steps, by what they do to the activations and the scopes.           *)
(***************************************************************************)
SameNames == /\ Len(envs') = Len(envs)
             /\ \A e \in 1 .. Len(envs) :
                  /\ envs'[e].chain = envs[e].chain
                  /\ \A x \in Name : envs'[e].vars[x].d = envs[e].vars[x].d

\* Node m is a child of n, or an array or an index that n is to store to.
PartOf(n, m) == \/ \E i \in 1 .. Len(Nodes[n].kids) : m = Nodes[n].kids[i]
                \/ /\ Nodes[n].k \in {"Assign", "CompoundAssign", "IncDec"} /\ Nodes[Nodes[n].kids[1]].k = "Index"
                   /\ \E i \in 1 .. Len(Nodes[Nodes[n].kids[1]].kids) : m = Nodes[Nodes[n].kids[1]].kids[i]

\* es2 is es with w environments more, one inside the other and the first in e.
Grown(es, es2, e, w) ==
  \/ w = 0 /\ es2 = es
  \/ w = 1 /\ es2 = Child(es, e)
  \/ w = 2 /\ es2 = Child(Child(es, e), Len(es) + 1)

Stops == /\ stack' = <<>> /\ envs' = envs
Starts == /\ stack = <<>> /\ envs' = envs
          /\ \E i \in 1 .. Len(prog) : /\ Nodes[prog[i]].k = "VarDecl"
                                       /\ stack' = <<Frame(prog[i], Globals)>>
Asks == /\ stack # <<>> /\ envs' = envs /\ EvaluatesNow(Top)
        /\ \E n \in ExprNode : PartOf(Top.n, n) /\ stack' = Push(n, Top.env)
Runs == /\ stack # <<>>
        /\ \E i \in 1 .. Len(Here.kids) :
             LET w == NewScopes(Here, i)
             IN  /\ ExecutesNow(Top, i) /\ Nodes[Here.kids[i]].k \in StmtKind
                 /\ Grown(envs, envs', Top.env, w)
                 /\ stack' = Push(Here.kids[i], IF w = 0 THEN Top.env ELSE Len(envs) + w)
\* A call's environment: in the globals, with b in it.
Called(b) == [Child(envs, Globals) EXCEPT ![Len(envs) + 1].vars = b]
Invokes == \E i \in 1 .. Len(prog) :
             LET d == prog[i]  args == IF stack = <<>> THEN <<>> ELSE Top.vs
             IN  /\ IF stack = <<>> THEN Nodes[d].name = "main"
                    ELSE /\ Here.k = "Call" /\ Here.name \notin Builtin \cup {"print"}
                         /\ Nodes[d].name = Here.name /\ Len(args) = Len(Here.kids)
                 /\ Nodes[d].k = "Func"
                 /\ envs' = Called(Bind(Nodes[d].params, args)) /\ stack' = Push(d, Len(envs) + 1)
\* A statement is left at its end.
AtEnd == /\ Here.k \notin {"Return", "VarDecl"}
         /\ Here.k \in {"Block", "Func"} => Len(Here.kids) <= Done
         /\ Here.k = "If" => Done > 1 \/ Len(Here.kids) # 3
Yields == stack # <<>> /\ SameNames /\ AtEnd /\ \E v : stack' = Popped(v)
Binds == /\ stack # <<>> /\ Here.k = "VarDecl"
         /\ (\E v : envs' = Define(Top.env, Top.n, v)) /\ \E v : stack' = Popped(v)
Resets == /\ stack # <<>> /\ envs' = envs /\ Here.k \in {"CompoundAssign", "While", "For"}
          /\ \E vs : stack' = SetTop(vs) /\ (Here.k = "For" => Len(vs) = 1 /\ Done > 3)
Leaves == /\ stack # <<>> /\ envs' = envs /\ stack' = SubSeq(stack, 1, Len(stack) - 1)
Ends   == /\ stack # <<>> /\ envs' = envs /\ flow # Normal /\ Here.k = "Func"
          /\ \E v : stack' = Popped(v)
Moves  == \/ Stops \/ Starts \/ Asks \/ Runs \/ Invokes \/ Yields \/ Binds \/ Resets \/ Leaves \/ Ends
\* The nodes whose values an activation evaluates before it acts are parts of it.
LEMMA OperandParts ==
  ASSUME NEW n \in NodeId, Strict(Nodes[n]), NEW i \in 1 .. Len(Operands(Nodes[n])),
         NEW m, m = Operands(Nodes[n])[i], m # Slot
  PROVE  PartOf(n, m)
<1> DEFINE nd == Nodes[n]
<1>1. nd.k \in ExprKind \cup {"Expr", "VarDecl", "Return"} /\ nd.kids \in Seq(ExprNode)
  BY ExprKids DEF Strict
<1>2. CASE nd.k \in {"Assign", "CompoundAssign", "IncDec"}
  <2> DEFINE tk == TargetKids(nd)
             ks == IF TargetKind(nd) = "Index" THEN tk ELSE <<>>  b == nd.kids[2]
  <2>1. ks \in Seq(ExprNode) /\ \A j \in 1 .. Len(ks) : PartOf(n, ks[j])
    <3>1. CASE TargetKind(nd) = "Index"
      <4>1. ks \in Seq(ExprNode) /\ ks = tk
        BY <1>2, <3>1, TargetKidKinds
      <4> QED
        BY <1>2, <3>1, <4>1 DEF PartOf, TargetKind, TargetKids
    <3>2. CASE TargetKind(nd) # "Index"
      BY <3>2
    <3> QED
      BY <3>1, <3>2
  <2>2. nd.k # "IncDec" => PartOf(n, b)
    <3>1. nd.k # "IncDec" => 2 \in 1 .. Len(nd.kids)
      <4>1. nd.k \in {"Assign", "CompoundAssign"} => Len(nd.kids) = 2
        BY KidCounts
      <4> QED
        BY <1>2, <4>1
    <3> QED
      BY <3>1 DEF PartOf
  <2>3. /\ nd.k = "Assign" => Operands(nd) = <<b>> \o ks
        /\ nd.k = "CompoundAssign" => Operands(nd) = ks \o <<Slot, b>>
        /\ nd.k = "IncDec" => Operands(nd) = ks
    BY DEF Operands, SlotThenValue
  <2> HIDE DEF ks, b, tk
  <2>4. CASE nd.k = "Assign"
    <3>1. Operands(nd) = <<b>> \o ks
      BY <2>3, <2>4
    <3>2. m = b \/ \E j \in 1 .. Len(ks) : m = ks[j]
      <4>1. CASE i = 1
        BY <2>1, <3>1, <4>1
      <4>2. CASE i # 1
        <5>1. i - 1 \in 1 .. Len(ks) /\ (<<b>> \o ks)[i] = ks[i - 1]
          BY <2>1, <3>1, <4>2
        <5> QED
          BY <3>1, <5>1
      <4> QED
        BY <4>1, <4>2
    <3> QED
      BY <2>1, <2>2, <2>4, <3>2
  <2>5. CASE nd.k = "CompoundAssign"
    <3>1. Operands(nd) = ks \o <<Slot, b>>
      BY <2>3, <2>5
    <3>2. m = b \/ \E j \in 1 .. Len(ks) : m = ks[j]
      <4>1. CASE i \in 1 .. Len(ks)
        <5>1. (ks \o <<Slot, b>>)[i] = ks[i]
          BY <2>1, <4>1
        <5> QED
          BY <3>1, <4>1, <5>1
      <4>2. CASE i \notin 1 .. Len(ks)
        <5>1. i - Len(ks) \in 1 .. 2 /\ (ks \o <<Slot, b>>)[i] = <<Slot, b>>[i - Len(ks)]
          BY <2>1, <3>1, <4>2
        <5>2. <<Slot, b>>[i - Len(ks)] = b \/ <<Slot, b>>[i - Len(ks)] = Slot
          BY <5>1
        <5> QED
          BY <3>1, <5>1, <5>2
      <4> QED
        BY <4>1, <4>2
    <3> QED
      BY <2>1, <2>2, <2>5, <3>2
  <2>6. CASE nd.k = "IncDec"
    BY <2>1, <2>3, <2>6
  <2> QED
    BY <1>2, <2>4, <2>5, <2>6
<1>3. CASE nd.k = "Call" /\ nd.name = "print" /\ nd.kids # <<>>
  <2>1. Operands(nd) = <<nd.kids[1]>>
    BY <1>3 DEF Operands
  <2>2. i = 1 /\ 1 \in 1 .. Len(nd.kids)
    BY <1>1, <1>3, <2>1
  <2> QED
    BY <2>1, <2>2 DEF PartOf
<1>4. CASE /\ nd.k \notin {"Assign", "CompoundAssign", "IncDec"}
           /\ ~(nd.k = "Call" /\ nd.name = "print" /\ nd.kids # <<>>)
  <2>1. Operands(nd) = nd.kids
    BY <1>4 DEF Operands
  <2> QED
    BY <2>1 DEF PartOf
<1> QED
  BY <1>2, <1>3, <1>4

\* How a step ends.
LEMMA HaltMove == ASSUME NEW s, Halt(s) PROVE Stops
BY DEF Halt, Stops

LEMMA EvalMove ==
  ASSUME stack # <<>>, EvaluatesNow(Top), NEW n \in ExprNode, PartOf(Top.n, n), Eval(n) PROVE Asks
BY DEF Eval, Asks

LEMMA AnyNames == ASSUME envs' = envs PROVE SameNames
BY DEF SameNames

LEMMA YieldMove == ASSUME stack # <<>>, AtEnd, NEW v, Yield(v) PROVE Yields
BY AnyNames DEF Yield, Yields

LEMMA FinishMove == ASSUME stack # <<>>, AtEnd, NEW o, Finish(o) PROVE Stops \/ Yields
BY HaltMove, YieldMove DEF Finish

LEMMA SetCellMove ==
  ASSUME stack # <<>>, AtEnd, NEW r, NEW i, NEW v, NEW w, SetCell(r, i, v, w) PROVE Yields
BY AnyNames DEF SetCell, Yields

\* A store to a variable leaves it the variable of its declaration.
LEMMA SetVarMove ==
  ASSUME TypeOK, stack # <<>>, AtEnd, NEW x \in Name, NEW v, NEW w, SetVar(x, v, w) PROVE Stops \/ Yields
<1>1. CASE Owner(Top.env, x) = {}
  BY <1>1, HaltMove DEF SetVar
<1>2. CASE Owner(Top.env, x) # {}
  <2>1. PICK o \in Owner(Top.env, x) : envs' = [envs EXCEPT ![o].vars[x].v = v]
    BY <1>2 DEF SetVar
  <2>2. stack' = Popped(w)
    BY <1>2 DEF SetVar
  <2>3. o \in 1 .. Len(envs) /\ envs \in Seq(Environments(Len(heap), Len(envs))) /\ Len(envs) \in Nat
    BY TypeParts, TopType, OwnerType
  <2> DEFINE en == [envs[o] EXCEPT !.vars[x].v = v]
  <2>4. envs[o] \in Environments(Len(heap), Len(envs))
    BY <2>3
  <2>5. en.chain = envs[o].chain
    BY <2>4 DEF Environments
  <2>6. \A y \in Name : en.vars[y].d = envs[o].vars[y].d
    <3>1. SUFFICES ASSUME NEW y \in Name PROVE en.vars[y].d = envs[o].vars[y].d
      OBVIOUS
    <3>2. envs[o].vars \in [Name -> [v: Value(Len(heap)), d: {0} \cup NodeId]]
      BY <2>4 DEF Environments
    <3>3. en.vars = [envs[o].vars EXCEPT ![x].v = v]
      BY <2>4 DEF Environments
    <3>4. CASE y = x
      BY <3>2, <3>3, <3>4
    <3>5. CASE y # x
      BY <3>2, <3>3, <3>5
    <3> QED
      BY <3>4, <3>5
  <2>7. envs' = [envs EXCEPT ![o] = en]
    BY <2>1
  <2> HIDE DEF en
  <2>8. SameNames
    <3>1. Len(envs') = Len(envs) /\ envs'[o] = en /\ \A e \in 1 .. Len(envs) : e # o => envs'[e] = envs[e]
      BY <2>3, <2>7
    <3> QED
      BY <2>5, <2>6, <3>1 DEF SameNames
  <2> QED
    BY <2>2, <2>8 DEF Yields
<1> QED
  BY <1>1, <1>2
(***************************************************************************)
(* The expressions.                                                        *)
(***************************************************************************)
LEMMA Ready2 ==
  ASSUME NEW k, Ready(k), k \notin {"Return", "VarDecl", "Block", "Func", "If"}
  PROVE  stack # <<>> /\ Here.k = k /\ AtEnd
BY DEF Ready, At, Running, AtEnd

LEMMA At2 ==
  ASSUME NEW k, At(k), k \notin {"Return", "VarDecl", "Block", "Func", "If"}
  PROVE  stack # <<>> /\ Here.k = k /\ AtEnd
BY DEF At, Running, AtEnd

\* An activation that only evaluates is always free to.
LEMMA OnlyEvaluates ==
  ASSUME Here.k \notin {"Block", "Func", "If", "While", "For"} PROVE EvaluatesNow(Top)
BY DEF EvaluatesNow, Here

LEMMA KidMove ==
  ASSUME TypeOK, stack # <<>>, EvaluatesNow(Top), NEW i \in 1 .. Len(Here.kids),
         Nodes[Here.kids[i]].k \in ExprKind, Eval(Here.kids[i])
  PROVE  Asks
<1>1. Here.kids[i] \in ExprNode
  BY TopType, KidKinds DEF ExprNode, Here
<1>2. PartOf(Top.n, Here.kids[i])
  BY DEF PartOf, Here
<1> QED
  BY <1>1, <1>2, EvalMove

LEMMA EvalOperandMove == ASSUME TypeOK, EvalOperand PROVE Moves
<1> DEFINE ops == Operands(Here)  n == ops[Done + 1]
<1>1. /\ stack # <<>> /\ Strict(Here) /\ Done < Len(ops) /\ n # Slot /\ Eval(n)
  BY DEF EvalOperand, Running
<1>2. Done \in Nat /\ Here = Nodes[Top.n] /\ Top.n \in NodeId
  BY <1>1, TopType DEF Done, Here
<1>3. ops \in Seq(ExprNode \cup {Slot})
  BY <1>1, <1>2, OperandKinds
<1>4. Done + 1 \in 1 .. Len(ops)
  BY <1>1, <1>2, <1>3
<1>5. n \in ExprNode
  BY <1>1, <1>3, <1>4
<1>6. PartOf(Top.n, n)
  BY <1>1, <1>2, <1>4, OperandParts
<1>7. EvaluatesNow(Top)
  BY <1>1, OnlyEvaluates DEF Strict, ExprKind
<1> QED
  BY <1>1, <1>5, <1>6, <1>7, EvalMove DEF Moves

LEMMA EvalLiteralMove == ASSUME TypeOK, EvalLiteral PROVE Moves
<1>1. stack # <<>> /\ AtEnd
  BY At2 DEF EvalLiteral
<1> QED
  BY <1>1, YieldMove DEF EvalLiteral, Moves

LEMMA EvalIdentMove == ASSUME TypeOK, EvalIdent PROVE Moves
<1>1. stack # <<>> /\ AtEnd
  BY At2 DEF EvalIdent
<1>2. Halt("panic") \/ \E o \in Owner(Top.env, Here.name) : Yield(envs[o].vars[Here.name].v)
  BY DEF EvalIdent
<1> QED
  BY <1>1, <1>2, HaltMove, YieldMove DEF Moves

LEMMA EvalShortCircuitMove == ASSUME TypeOK, EvalShortCircuit PROVE Moves
<1>1. stack # <<>> /\ AtEnd /\ Here.k = "Binary"
  BY At2 DEF EvalShortCircuit
<1>2. \A i \in 1 .. 2 : i \in 1 .. Len(Here.kids) /\ Nodes[Here.kids[i]].k \in ExprKind
  <2>1. Here.kids \in Seq(ExprNode) /\ Len(Here.kids) = 2
    BY <1>1, TopType, ExprKids DEF Here, ExprKind, Shape
  <2> QED
    BY <2>1 DEF ExprNode
<1>3. \/ Eval(Here.kids[1]) \/ Eval(Here.kids[2]) \/ Halt("panic")
      \/ Yield(BoolV(TRUE)) \/ Yield(BoolV(FALSE))
  BY DEF EvalShortCircuit, Branch
<1>4. (\E i \in 1 .. 2 : Eval(Here.kids[i])) => Asks
  BY <1>1, <1>2, OnlyEvaluates, KidMove
<1>5. 1 \in 1 .. 2 /\ 2 \in 1 .. 2
  OBVIOUS
<1> QED
  BY <1>1, <1>3, <1>4, <1>5, HaltMove, YieldMove DEF Moves

LEMMA EvalTernaryMove == ASSUME TypeOK, EvalTernary PROVE Moves
<1>1. stack # <<>> /\ AtEnd /\ Here.k = "Ternary"
  BY At2 DEF EvalTernary
<1>2. \A i \in 1 .. 3 : i \in 1 .. Len(Here.kids) /\ Nodes[Here.kids[i]].k \in ExprKind
  <2>1. Here.kids \in Seq(ExprNode) /\ Len(Here.kids) = 3
    BY <1>1, TopType, ExprKids DEF Here, ExprKind, Shape
  <2> QED
    BY <2>1 DEF ExprNode
<1>3. Yield(Top.vs[2]) \/ Halt("panic") \/ \E i \in 1 .. 3 : Eval(Here.kids[i])
  BY DEF EvalTernary, Branch
<1>4. (\E i \in 1 .. 3 : Eval(Here.kids[i])) => Asks
  BY <1>1, <1>2, OnlyEvaluates, KidMove
<1> QED
  BY <1>1, <1>3, <1>4, HaltMove, YieldMove DEF Moves

LEMMA EvalAssignMove == ASSUME TypeOK, EvalAssign PROVE Moves
<1>1. stack # <<>> /\ AtEnd /\ Here.k = "Assign"
  BY Ready2 DEF EvalAssign
<1>2. Nodes[Here.kids[1]].name \in Name
  BY <1>1, TopType, TargetType, NodeType DEF Here
<1>3. \/ SetVar(Nodes[Here.kids[1]].name, Top.vs[1], Top.vs[1])
      \/ SetCell(Top.vs[2].r, Top.vs[3].i, Top.vs[1], Top.vs[1])
      \/ Halt("panic") \/ Halt("IndexOutOfBounds")
  BY DEF EvalAssign, OnCell
<1> QED
  BY <1>1, <1>2, <1>3, SetVarMove, SetCellMove, HaltMove DEF Moves

LEMMA LoadSlotMove == ASSUME TypeOK, LoadSlot PROVE Moves
<1>1. stack # <<>> /\ Here.k = "CompoundAssign"
  BY At2 DEF LoadSlot
<1>2. (\E s : Halt(s)) \/ (\E v : Keep(v))
  BY DEF LoadSlot, OnCell
<1>3. ASSUME NEW v, Keep(v) PROVE Resets
  BY <1>1, <1>3 DEF Keep, Resets
<1> QED
  BY <1>2, <1>3, HaltMove DEF Moves

LEMMA EvalCompoundAssignMove == ASSUME TypeOK, EvalCompoundAssign PROVE Moves
<1> DEFINE new == ApplyBinaryOp(heap, Here.op, Top.vs[Done - 1], Top.vs[Done])
<1>1. stack # <<>> /\ AtEnd /\ Here.k = "CompoundAssign"
  BY Ready2 DEF EvalCompoundAssign
<1>2. Nodes[Here.kids[1]].name \in Name
  BY <1>1, TopType, TargetType, NodeType DEF Here
<1>3. \/ Halt(new.e) \/ SetVar(Nodes[Here.kids[1]].name, new, new)
      \/ SetCell(Top.vs[1].r, Top.vs[2].i, new, new)
  BY DEF EvalCompoundAssign
<1> HIDE DEF new
<1> QED
  BY <1>1, <1>2, <1>3, SetVarMove, SetCellMove, HaltMove DEF Moves

LEMMA EvalIncDecMove == ASSUME TypeOK, EvalIncDec PROVE Moves
<1> DEFINE x == Nodes[Here.kids[1]].name
<1>1. stack # <<>> /\ AtEnd /\ Here.k = "IncDec"
  BY Ready2 DEF EvalIncDec
<1>2. x \in Name
  BY <1>1, TopType, TargetType, NodeType DEF Here
<1>3. CASE TargetKind(Here) = "Ident"
  <2>1. \/ \E s : Halt(s)
        \/ \E v, w : SetVar(x, v, w)
    BY <1>3 DEF EvalIncDec
  <2> QED
    BY <1>1, <1>2, <2>1, SetVarMove, HaltMove DEF Moves
<1>4. CASE TargetKind(Here) = "Index"
  <2>1. \/ \E s : Halt(s)
        \/ \E v, w : SetCell(Top.vs[1].r, Top.vs[2].i, v, w)
    BY <1>4 DEF EvalIncDec, OnCell
  <2> QED
    BY <1>1, <2>1, SetCellMove, HaltMove DEF Moves
<1>5. CASE TargetKind(Here) \notin {"Ident", "Index"}
  BY <1>1, <1>5, HaltMove DEF EvalIncDec, Moves
<1> QED
  BY <1>3, <1>4, <1>5

LEMMA EvalIndexMove == ASSUME TypeOK, EvalIndex PROVE Moves
<1>1. stack # <<>> /\ AtEnd
  BY Ready2 DEF EvalIndex
<1>2. \/ Halt("panic") \/ Halt("IndexOutOfBounds")
      \/ Yield(heap[Top.vs[1].r][Top.vs[2].i + 1])
  BY DEF EvalIndex, OnCell
<1> QED
  BY <1>1, <1>2, HaltMove, YieldMove DEF Moves

LEMMA NewArrayMove == ASSUME TypeOK, EvalArrayLiteral \/ EvalArrayCreation PROVE Moves
<1>1. stack # <<>> /\ AtEnd
  BY Ready2 DEF EvalArrayLiteral, EvalArrayCreation
<1>2. (\E s : Halt(s)) \/ (envs' = envs /\ \E v : stack' = Popped(v))
  BY DEF EvalArrayLiteral, EvalArrayCreation
<1> QED
  BY <1>1, <1>2, HaltMove, AnyNames DEF Yields, Moves

LEMMA EvalPrintMove == ASSUME TypeOK, EvalPrint PROVE Moves
<1>1. stack # <<>> /\ AtEnd
  BY Ready2 DEF EvalPrint
<1>2. Halt("panic") \/ (envs' = envs /\ stack' = Popped(VoidV))
  BY DEF EvalPrint
<1> QED
  BY <1>1, <1>2, HaltMove, AnyNames DEF Yields, Moves

LEMMA OperationMove ==
  ASSUME TypeOK, EvalBinary \/ EvalUnary \/ EvalFieldAccess \/ EvalBuiltin PROVE Moves
<1>1. stack # <<>> /\ AtEnd
  BY Ready2 DEF EvalBinary, EvalUnary, EvalFieldAccess, EvalBuiltin
<1>2. \E o : Finish(o)
  BY DEF EvalBinary, EvalUnary, EvalFieldAccess, EvalBuiltin
<1> QED
  BY <1>1, <1>2, FinishMove DEF Moves

\* A function that a name calls is one of the program's.
LEMMA CallMove ==
  ASSUME TypeOK, NEW f, NEW args, NEW d \in Functions(f)
  PROVE  \E i \in 1 .. Len(prog) : d = prog[i] /\ Nodes[d].k = "Func" /\ Nodes[d].name = f
BY ProgramNodes DEF Functions, TypeOK

LEMMA EvalCallMove == ASSUME TypeOK, EvalCall \/ EndCall PROVE Moves
<1>1. stack # <<>> /\ AtEnd /\ Here.k = "Call"
  BY Ready2, At2 DEF EvalCall, EndCall
<1>2. CASE EndCall
  BY <1>1, <1>2, YieldMove DEF EndCall, Moves
<1>3. CASE EvalCall
  <2> DEFINE f == Here.name  args == Top.vs
  <2>1. f \notin Builtin \cup {"print"} /\ Done = Len(Operands(Here)) /\ CallFunction(f, args, stack)
    BY <1>3 DEF EvalCall, Ready
  <2>2. Len(args) = Len(Here.kids)
    BY <1>1, <2>1 DEF Operands, Done
  <2>3. CASE Functions(f) = {}
    BY <2>1, <2>3, HaltMove DEF CallFunction, Moves
  <2>4. CASE Functions(f) # {}
    <3>1. PICK d \in Functions(f) :
            /\ envs' = [Child(envs, Globals) EXCEPT ![Len(envs) + 1].vars = Bind(Nodes[d].params, args)]
            /\ stack' = Push(d, Len(envs) + 1)
      BY <2>1, <2>4 DEF CallFunction, CalleeParent, Push
    <3>2. PICK i \in 1 .. Len(prog) : d = prog[i] /\ Nodes[d].k = "Func" /\ Nodes[d].name = f
      BY CallMove
    <3> QED
      BY <1>1, <2>1, <2>2, <3>1, <3>2 DEF Invokes, Called, Moves
  <2> QED
    BY <2>3, <2>4
<1> QED
  BY <1>2, <1>3
(***************************************************************************)
(* The statements, and the program.                                        *)
(***************************************************************************)
LEMMA ExecMove ==
  ASSUME stack # <<>>, NEW i \in 1 .. Len(Here.kids), ExecutesNow(Top, i), ~Scoped(Here, i),
         Nodes[Here.kids[i]].k \in StmtKind, Exec(Here.kids[i], Top.env)
  PROVE  Runs
<1> DEFINE n == Here.kids[i]  w == NewScopes(Here, i)
<1>1. CASE Nodes[n].k \in {"Block", "For"}
  <2>1. w = 1
    BY <1>1 DEF NewScopes
  <2>2. envs' = Child(envs, Top.env) /\ stack' = Push(n, Len(envs) + 1)
    BY <1>1 DEF Exec
  <2> QED
    BY <2>1, <2>2 DEF Runs, Grown
<1>2. CASE Nodes[n].k \notin {"Block", "For"}
  <2>1. w = 0
    BY <1>2 DEF NewScopes
  <2>2. envs' = envs /\ stack' = Push(n, Top.env)
    BY <1>2 DEF Exec
  <2> QED
    BY <2>1, <2>2 DEF Runs, Grown
<1> QED
  BY <1>1, <1>2

LEMMA ExecScopedMove ==
  ASSUME TypeOK, stack # <<>>, NEW i \in 1 .. Len(Here.kids), ExecutesNow(Top, i), Scoped(Here, i),
         Nodes[Here.kids[i]].k \in StmtKind, ExecScoped(Here.kids[i])
  PROVE  Runs
<1> DEFINE n == Here.kids[i]  w == NewScopes(Here, i)  es == Child(envs, Top.env)
<1>1. Len(envs) \in Nat /\ Top.env \in 1 .. Len(envs)
  BY TopType
<1>2. Len(es) = Len(envs) + 1
  BY <1>1, TypeParts, ChildType
<1>3. CASE Nodes[n].k = "Block"
  <2>1. w = 1
    BY <1>3 DEF NewScopes
  <2>2. envs' = Child(envs, Top.env) /\ stack' = Push(n, Len(envs) + 1)
    BY <1>3 DEF Exec, ExecScoped
  <2> QED
    BY <2>1, <2>2 DEF Runs, Grown
<1>4. CASE Nodes[n].k = "For"
  <2>1. w = 2
    BY <1>4 DEF NewScopes
  <2>2. envs' = Child(es, Len(es)) /\ stack' = Push(n, Len(envs'))
    BY <1>4 DEF ExecScoped
  <2>3. es \in Seq(Environments(Len(heap), Len(es))) /\ Len(es) \in 1 .. Len(es) /\ Len(heap) \in Nat
    BY <1>1, <1>2, TypeParts, ChildType
  <2>4. Len(envs') = Len(envs) + 2 /\ envs' = Child(es, Len(envs) + 1)
    <3>1. Len(Child(es, Len(es))) = Len(es) + 1
      <4> DEFINE L == Len(es)  m == Len(heap)
      <4>1. L \in Nat /\ es \in Seq(Environments(m, L)) /\ L \in 1 .. L /\ m \in Nat
        BY <2>3, <1>1, <1>2
      <4> HIDE DEF m
      <4>2. Len(Child(es, L)) = L + 1
        BY <4>1, ChildType
      <4> QED
        BY <4>2
    <3> QED
      BY <1>1, <1>2, <2>2, <3>1
  <2> QED
    BY <2>1, <2>2, <2>4 DEF Runs, Grown
<1>5. CASE Nodes[n].k \notin {"Block", "For"}
  <2>1. w = 1
    BY <1>5 DEF NewScopes
  <2>2. envs' = es /\ stack' = Push(n, Len(envs'))
    BY <1>5 DEF ExecScoped
  <2> QED
    BY <1>2, <2>1, <2>2 DEF Runs, Grown
<1> QED
  BY <1>3, <1>4, <1>5

LEMMA ExecVarDeclMove == ASSUME TypeOK, ExecVarDecl PROVE Moves
<1>1. stack # <<>> /\ Here.k = "VarDecl"
  BY ReadyShape DEF ExecVarDecl
<1> QED
  BY <1>1 DEF ExecVarDecl, Binds, Moves

LEMMA ExecExprMove == ASSUME TypeOK, ExecExpr PROVE Moves
<1>1. stack # <<>> /\ AtEnd
  BY Ready2 DEF ExecExpr
<1> QED
  BY <1>1, YieldMove DEF ExecExpr, Moves

LEMMA ExecBlockMove == ASSUME TypeOK, ExecBlock PROVE Moves
<1>1. stack # <<>> /\ Here.k \in {"Block", "Func"} /\ Done \in Nat /\ Here = Nodes[Top.n]
  BY TopType DEF ExecBlock, At, Running, Done, Here
<1>2. Here.kids \in Seq(NodeId) /\ Top.n \in NodeId
  BY <1>1, TopType
<1>3. CASE Done < Len(Here.kids)
  <2> DEFINE i == Done + 1
  <2>1. i \in 1 .. Len(Here.kids) /\ Exec(Here.kids[i], Top.env)
    BY <1>1, <1>2, <1>3 DEF ExecBlock
  <2>2. Nodes[Here.kids[i]].k \in StmtKind
    BY <1>1, <1>2, <2>1, StmtKids
  <2>3. ~Scoped(Here, i) /\ ExecutesNow(Top, i)
    BY <1>1, <2>1 DEF Scoped, ExecutesNow, Done
  <2> HIDE DEF i
  <2> QED
    BY <1>1, <2>1, <2>2, <2>3, ExecMove DEF Moves
<1>4. CASE ~(Done < Len(Here.kids))
  <2>1. AtEnd
    BY <1>1, <1>2, <1>4 DEF AtEnd
  <2> QED
    BY <1>1, <1>4, <2>1, YieldMove DEF ExecBlock, Moves
<1> QED
  BY <1>3, <1>4

LEMMA ExecIfMove == ASSUME TypeOK, ExecIf PROVE Moves
<1>1. stack # <<>> /\ Here.k = "If" /\ Here = Nodes[Top.n] /\ Done \in Nat /\ Top.n \in NodeId
  BY TopType DEF ExecIf, At, Running, Here, Done
<1>2. /\ Len(Here.kids) \in {2, 3} /\ Nodes[Here.kids[1]].k \in ExprKind
      /\ \A i \in 2 .. Len(Here.kids) : Nodes[Here.kids[i]].k \in StmtKind
  <2> DEFINE ks == Here.kids
  <2>1. /\ ks \in Seq(NodeId) /\ Len(ks) \in {2, 3} /\ Nodes[ks[1]].k \in ExprKind
        /\ AllIn(Tail(ks), StmtKind)
    BY <1>1, TopType DEF Shape
  <2> HIDE DEF ks
  <2>2. \A i \in 2 .. Len(ks) : Nodes[ks[i]].k \in StmtKind
    <3>1. SUFFICES ASSUME NEW i \in 2 .. Len(ks) PROVE Nodes[ks[i]].k \in StmtKind
      OBVIOUS
    <3>2. i - 1 \in DOMAIN Tail(ks) /\ Tail(ks)[i - 1] = ks[i]
      BY <2>1
    <3> QED
      BY <2>1, <3>2 DEF AllIn
  <2> QED
    BY <2>1, <2>2 DEF ks
<1>3. CASE Done = 0
  <2>1. Eval(Here.kids[1]) /\ EvaluatesNow(Top) /\ 1 \in 1 .. Len(Here.kids)
    BY <1>1, <1>2, <1>3 DEF ExecIf, EvaluatesNow, Done
  <2> QED
    BY <1>1, <1>2, <2>1, KidMove DEF Moves
<1>4. CASE Done = 1
  <2>1. ASSUME NEW i \in 2 .. Len(Here.kids), ExecScoped(Here.kids[i]) PROVE Runs
    <3>1. i \in 1 .. Len(Here.kids) /\ Scoped(Here, i) /\ ExecutesNow(Top, i)
      BY <1>1, <1>2, <1>4 DEF Scoped, ExecutesNow, Done
    <3> QED
      BY <1>1, <1>2, <2>1, <3>1, ExecScopedMove
  <2>2. \/ Halt("panic") \/ ExecScoped(Here.kids[2])
        \/ Len(Here.kids) = 3 /\ ExecScoped(Here.kids[3])
        \/ Len(Here.kids) # 3 /\ Yield(VoidV)
    BY <1>4 DEF ExecIf, Branch
  <2>3. Len(Here.kids) # 3 => AtEnd
    BY <1>1 DEF AtEnd
  <2>4. 2 \in 2 .. Len(Here.kids) /\ (Len(Here.kids) = 3 => 3 \in 2 .. Len(Here.kids))
    BY <1>2
  <2> QED
    BY <1>1, <2>1, <2>2, <2>3, <2>4, HaltMove, YieldMove DEF Moves
<1>5. CASE Done > 1
  <2>1. AtEnd /\ Yield(VoidV)
    BY <1>1, <1>5 DEF AtEnd, ExecIf
  <2> QED
    BY <1>1, <2>1, YieldMove DEF Moves
<1> QED
  BY <1>1, <1>3, <1>4, <1>5

LEMMA ExecWhileMove == ASSUME TypeOK, ExecWhile PROVE Moves
<1>1. stack # <<>> /\ Here.k = "While" /\ Here = Nodes[Top.n] /\ AtEnd
  BY TopType, At2 DEF ExecWhile, Here
<1>2. /\ 1 \in 1 .. Len(Here.kids) /\ 2 \in 1 .. Len(Here.kids)
      /\ Nodes[Here.kids[1]].k \in ExprKind /\ Nodes[Here.kids[2]].k \in StmtKind
  BY <1>1, TopType DEF Shape
<1>3. CASE Done = 0
  <2>1. Eval(Here.kids[1]) /\ EvaluatesNow(Top)
    BY <1>1, <1>3 DEF ExecWhile, EvaluatesNow, Done
  <2> QED
    BY <1>1, <1>2, <2>1, KidMove DEF Moves
<1>4. CASE Done = 1
  <2>1. Scoped(Here, 2) /\ ExecutesNow(Top, 2)
    BY <1>1, <1>2, <1>4 DEF Scoped, ExecutesNow, Done
  <2>2. Halt("panic") \/ ExecScoped(Here.kids[2]) \/ Yield(VoidV)
    BY <1>4 DEF ExecWhile, Branch
  <2> QED
    BY <1>1, <1>2, <2>1, <2>2, HaltMove, YieldMove, ExecScopedMove DEF Moves
<1>5. CASE Done \notin {0, 1}
  <2>1. Again(<<>>)
    BY <1>5 DEF ExecWhile
  <2> QED
    BY <1>1, <2>1 DEF Again, Resets, Moves
<1> QED
  BY <1>3, <1>4, <1>5

LEMMA ExecForMove == ASSUME TypeOK, ExecFor PROVE Moves
<1>1. /\ stack # <<>> /\ Here.k = "For" /\ Here = Nodes[Top.n] /\ AtEnd /\ Done \in Nat
      /\ Top.vs \in Seq(Value(Len(heap)))
  BY TopType, At2 DEF ExecFor, Here, Done
<1>2. /\ \A i \in 1 .. 4 : i \in 1 .. Len(Here.kids)
      /\ Nodes[Here.kids[1]].k \in StmtKind /\ Nodes[Here.kids[4]].k \in StmtKind
      /\ Nodes[Here.kids[2]].k \in ExprKind /\ Nodes[Here.kids[3]].k \in ExprKind
  BY <1>1, TopType DEF Shape, StmtKind
<1>3. CASE Done = 0
  <2>1. Exec(Here.kids[1], Top.env) /\ ~Scoped(Here, 1) /\ ExecutesNow(Top, 1)
    BY <1>1, <1>2, <1>3 DEF ExecFor, Scoped, ExecutesNow, Done
  <2> QED
    BY <1>1, <1>2, <2>1, ExecMove DEF Moves
<1>4. CASE Done = 1
  <2>1. Eval(Here.kids[2]) /\ EvaluatesNow(Top)
    BY <1>1, <1>4 DEF ExecFor, EvaluatesNow, Done
  <2> QED
    BY <1>1, <1>2, <2>1, KidMove DEF Moves
<1>5. CASE Done = 2
  <2>1. Scoped(Here, 4) /\ ExecutesNow(Top, 4)
    BY <1>1, <1>2, <1>5 DEF Scoped, ExecutesNow, Done
  <2>2. Halt("panic") \/ ExecScoped(Here.kids[4]) \/ Yield(VoidV)
    BY <1>5 DEF ExecFor, Branch
  <2> QED
    BY <1>1, <1>2, <2>1, <2>2, HaltMove, YieldMove, ExecScopedMove DEF Moves
<1>6. CASE Done = 3
  <2>1. Eval(Here.kids[3]) /\ EvaluatesNow(Top)
    BY <1>1, <1>6 DEF ExecFor, EvaluatesNow, Done
  <2> QED
    BY <1>1, <1>2, <2>1, KidMove DEF Moves
<1>7. CASE Done \notin 0 .. 3
  <2>1. Again(SubSeq(Top.vs, 1, 1)) /\ Done > 3
    BY <1>1, <1>7 DEF ExecFor
  <2>2. Len(SubSeq(Top.vs, 1, 1)) = 1
    BY <1>1
  <2> QED
    BY <1>1, <2>1, <2>2 DEF Again, Resets, Moves
<1> QED
  BY <1>1, <1>3, <1>4, <1>5, <1>6, <1>7

LEMMA ReturnMove == ASSUME TypeOK, ExecReturn \/ Unwind PROVE Moves
<1>1. CASE ExecReturn
  BY <1>1, ReadyShape DEF ExecReturn, Leaves, Moves
<1>2. CASE Unwind
  BY <1>2 DEF Unwind, Leaves, Ends, Moves
<1> QED
  BY <1>1, <1>2

LEMMA RunMove == ASSUME TypeOK, Run PROVE Moves
<1>1. CASE RunDecl
  <2>1. stack = <<>> /\ envs' = envs /\ decl <= Len(prog)
    BY <1>1 DEF RunDecl, AtRun
  <2>2. \/ stack' = <<>>
        \/ Nodes[prog[decl]].k = "VarDecl" /\ stack' = <<Frame(prog[decl], Globals)>>
    BY <1>1 DEF RunDecl
  <2>3. decl \in 1 .. Len(prog)
    BY <2>1, ProgramNodes DEF TypeOK
  <2> QED
    BY <2>1, <2>2, <2>3 DEF Stops, Starts, Moves
<1>2. CASE RunMain
  <2>1. stack = <<>> /\ (Halt("panic") \/ CallFunction("main", <<>>, <<>>))
    BY <1>2 DEF RunMain, AtRun
  <2>2. CASE Functions("main") = {}
    BY <2>1, <2>2, HaltMove DEF CallFunction, Moves
  <2>3. CASE Functions("main") # {}
    <3>1. (\E s : Halt(s)) \/ \E d \in Functions("main") :
            /\ envs' = [Child(envs, Globals) EXCEPT ![Len(envs) + 1].vars = Bind(Nodes[d].params, <<>>)]
            /\ stack' = Append(<<>>, Frame(d, Len(envs) + 1))
      BY <2>1, <2>3 DEF CallFunction, CalleeParent
    <3>2. CASE \E s : Halt(s)
      BY <3>2, HaltMove DEF Moves
    <3>3. CASE ~\E s : Halt(s)
      <4>1. PICK d \in Functions("main") :
              /\ envs' = [Child(envs, Globals) EXCEPT ![Len(envs) + 1].vars = Bind(Nodes[d].params, <<>>)]
              /\ stack' = Append(<<>>, Frame(d, Len(envs) + 1))
        BY <3>1, <3>3
      <4>2. PICK i \in 1 .. Len(prog) : d = prog[i] /\ Nodes[d].k = "Func" /\ Nodes[d].name = "main"
        BY CallMove
      <4> QED
        BY <2>1, <4>1, <4>2 DEF Push, Invokes, Called, Moves
    <3> QED
      BY <3>2, <3>3
  <2> QED
    BY <2>2, <2>3
<1>3. CASE RunEnd
  BY <1>3, HaltMove DEF RunEnd, Moves
<1> QED
  BY <1>1, <1>2, <1>3 DEF Run

\* Every step is one of the moves.
LEMMA StepMoves == ASSUME TypeOK, [Next]_vars PROVE Moves \/ UNCHANGED vars
<1>1. CASE EvalExpr
  BY <1>1, EvalOperandMove, EvalLiteralMove, EvalIdentMove, EvalShortCircuitMove,
     EvalTernaryMove, EvalAssignMove, LoadSlotMove, EvalCompoundAssignMove, EvalIncDecMove,
     EvalIndexMove, NewArrayMove, EvalPrintMove, OperationMove, EvalCallMove
  DEF EvalExpr
<1>2. CASE ExecStmt
  BY <1>2, ExecExprMove, ExecVarDeclMove, ExecBlockMove, ExecIfMove, ExecWhileMove,
     ExecForMove, ReturnMove
  DEF ExecStmt
<1> QED
  BY <1>1, <1>2, RunMove DEF Next, Halted
(***************************************************************************)
(* The activations wait for each other.                                    *)
(***************************************************************************)
LEMMA FrameParts == ASSUME NEW n, NEW e PROVE Frame(n, e).n = n /\ Frame(n, e).env = e /\ Frame(n, e).vs = <<>>
BY DEF Frame

LEMMA MoreStack ==
  ASSUME TypeOK, StackOf(prog, stack), NEW n \in NodesOf(prog),
         Nodes[n].k \in ExprKind \cup StmtKind \cup {"Func"}, NEW e, stack' = Push(n, e),
         stack # <<>> => \E g : g.n = n /\ g.env = e /\ Awaits(Top, g),
         stack = <<>> => (\E i \in 1 .. Len(prog) : n = prog[i]) /\ (Nodes[n].k # "Func" => e = Globals)
  PROVE  StackOf(prog, stack')
<1> DEFINE L == Len(stack)  f == Frame(n, e)
<1>1. /\ L \in Nat /\ Len(stack') = L + 1 /\ stack'[L + 1] = f
      /\ \A j \in 1 .. L : stack'[j] = stack[j]
  BY Pushed
<1>2. f.n = n /\ f.env = e
  BY FrameParts
<1>3. stack # <<>> <=> L > 0
  BY TypeParts
<1>4. Waiting(stack) /\ InProgram(prog, stack) /\ Based(prog, stack)
  BY DEF StackOf
<1> HIDE DEF f
<1>5. stack # <<>> => Awaits(Top, f)
  BY <1>2 DEF Awaits
<1>6. ASSUME NEW j \in 1 .. L + 1 PROVE j = L + 1 \/ j \in 1 .. L
  BY <1>1
<1>7. InProgram(prog, stack')
  BY <1>1, <1>2, <1>4, <1>6 DEF InProgram
<1>8. Waiting(stack')
  <2>1. SUFFICES ASSUME NEW j \in 1 .. L PROVE Awaits(stack'[j], stack'[j + 1])
    BY <1>1 DEF Waiting
  <2>2. CASE j = L
    BY <1>1, <1>3, <1>5, <2>2 DEF Top
  <2>3. CASE j # L
    <3>1. j \in 1 .. L - 1 /\ j + 1 \in 1 .. L
      BY <1>1, <2>3
    <3> QED
      BY <1>1, <1>4, <3>1 DEF Waiting
  <2> QED
    BY <2>2, <2>3
<1>9. Based(prog, stack')
  BY <1>1, <1>2, <1>3, <1>4 DEF Based
<1> QED
  BY <1>7, <1>8, <1>9 DEF StackOf

LEMMA LessStack ==
  ASSUME TypeOK, TypeOK', StackOf(prog, stack), Len(stack') <= Len(stack),
         \A j \in 1 .. Len(stack') : stack'[j].n = stack[j].n /\ stack'[j].env = stack[j].env,
         \A j \in 1 .. Len(stack') - 1 : stack'[j] = stack[j]
  PROVE  StackOf(prog, stack')
<1> DEFINE L == Len(stack)  M == Len(stack')
<1>1. L \in Nat /\ M \in Nat /\ (stack # <<>> <=> L > 0)
  BY TypeParts
<1>2. stack' # <<>> <=> M > 0
  <2>1. stack' \in Seq(Frames(Len(heap'), Len(envs')))
    BY DEF TypeOK
  <2> QED
    BY <2>1
<1>3. \A j \in 1 .. M : j \in 1 .. L
  BY <1>1
<1>4. Waiting(stack) /\ InProgram(prog, stack) /\ Based(prog, stack)
  BY DEF StackOf
<1>5. InProgram(prog, stack')
  BY <1>3, <1>4 DEF InProgram
<1>6. Waiting(stack')
  <2>1. SUFFICES ASSUME NEW j \in 1 .. M - 1 PROVE Awaits(stack'[j], stack'[j + 1])
    BY DEF Waiting
  <2>2. j \in 1 .. L - 1 /\ j + 1 \in 1 .. M
    BY <1>1
  <2>3. /\ stack'[j] = stack[j] /\ stack'[j + 1].n = stack[j + 1].n
        /\ stack'[j + 1].env = stack[j + 1].env
    BY <2>2
  <2>4. Awaits(stack[j], stack[j + 1])
    BY <1>4, <2>2 DEF Waiting
  <2> QED
    BY <2>3, <2>4 DEF Awaits
<1>7. Based(prog, stack')
  BY <1>1, <1>2, <1>4 DEF Based
<1> QED
  BY <1>5, <1>6, <1>7 DEF StackOf

\* What the top activation is in.
LEMMA TopIn ==
  ASSUME TypeOK, StackOf(prog, stack), stack # <<>>
  PROVE  /\ Top.n \in NodesOf(prog) /\ Top.n \in NodeId /\ prog \in Programs
         /\ Here.k \in ExprKind \cup StmtKind \cup {"Func"}
         /\ \A i \in 1 .. Len(Here.kids) : Here.kids[i] \in NodesOf(prog)
         /\ \A n : PartOf(Top.n, n) => n \in NodesOf(prog)
<1>1. prog \in Programs /\ Len(stack) \in 1 .. Len(stack)
  BY TypeParts DEF TypeOK
<1>2. Top.n \in NodesOf(prog) /\ Here.k \in ExprKind \cup StmtKind \cup {"Func"}
  BY <1>1 DEF StackOf, InProgram, Top, Here
<1>3. Top.n \in NodeId /\ \A n \in NodesOf(prog) : \A i \in 1 .. Len(Nodes[n].kids) : Nodes[n].kids[i] \in NodesOf(prog)
  BY <1>1, <1>2, ProgramNodes
<1>4. ASSUME NEW n, PartOf(Top.n, n) PROVE n \in NodesOf(prog)
  <2>1. CASE \E i \in 1 .. Len(Nodes[Top.n].kids) : n = Nodes[Top.n].kids[i]
    BY <1>2, <1>3, <2>1
  <2>2. CASE /\ Nodes[Top.n].k \in {"Assign", "CompoundAssign", "IncDec"}
             /\ \E i \in 1 .. Len(Nodes[Nodes[Top.n].kids[1]].kids) : n = Nodes[Nodes[Top.n].kids[1]].kids[i]
    <3>1. 1 \in 1 .. Len(Nodes[Top.n].kids)
      <4>1. Nodes[Top.n].k = "IncDec" => Len(Nodes[Top.n].kids) = 1
        BY <1>3, KidCounts
      <4>2. Nodes[Top.n].k \in {"Assign", "CompoundAssign"} => Len(Nodes[Top.n].kids) = 2
        BY <1>3, KidCounts
      <4> QED
        BY <2>2, <4>1, <4>2
    <3> QED
      BY <1>2, <1>3, <2>2, <3>1
  <2> QED
    BY <1>4, <2>1, <2>2 DEF PartOf
<1> QED
  BY <1>1, <1>2, <1>3, <1>4 DEF Here

LEMMA StackKept ==
  ASSUME TypeOK, TypeOK', StackOf(prog, stack), Moves PROVE StackOf(prog, stack')
<1>1. Len(stack) \in Nat /\ prog \in Programs /\ (stack # <<>> => Len(stack) > 0)
  BY TypeParts DEF TypeOK
<1>2. CASE Stops
  BY <1>2 DEF Stops, StackOf, InProgram, Waiting, Based
<1>3. CASE Starts
  <2>1. PICK i \in 1 .. Len(prog) : Nodes[prog[i]].k = "VarDecl" /\ stack' = <<Frame(prog[i], Globals)>>
    BY <1>3 DEF Starts
  <2>2. stack = <<>> /\ prog[i] \in NodesOf(prog) /\ Nodes[prog[i]].k \in StmtKind
    BY <1>1, <1>3, <2>1, ProgramNodes DEF Starts, StmtKind
  <2>3. stack' = Push(prog[i], Globals)
    BY <2>1, <2>2 DEF Push
  <2> DEFINE n == prog[i]
  <2>4. n \in NodesOf(prog) /\ Nodes[n].k \in StmtKind /\ stack' = Push(n, Globals) /\ n = prog[i]
    BY <2>2, <2>3
  <2> HIDE DEF n
  <2> QED
    BY <2>2, <2>4, MoreStack
<1>4. CASE Asks
  <2>1. PICK n \in ExprNode : PartOf(Top.n, n) /\ stack' = Push(n, Top.env)
    BY <1>4 DEF Asks
  <2>2. stack # <<>> /\ EvaluatesNow(Top) /\ Nodes[n].k \in ExprKind
    BY <1>4 DEF Asks, ExprNode
  <2>3. n \in NodesOf(prog)
    BY <2>1, <2>2, TopIn
  <2> DEFINE e == Top.env  g == Frame(n, e)
  <2>4. g.n = n /\ g.env = e
    BY FrameParts
  <2>5. Awaits(Top, g)
    BY <2>2, <2>4 DEF Awaits
  <2>6. stack' = Push(n, e)
    BY <2>1
  <2> HIDE DEF e, g
  <2> QED
    BY <2>2, <2>3, <2>4, <2>5, <2>6, MoreStack
<1>5. CASE Runs
  <2>1. PICK i \in 1 .. Len(Here.kids) :
          /\ ExecutesNow(Top, i) /\ Nodes[Here.kids[i]].k \in StmtKind
          /\ stack' = Push(Here.kids[i], IF NewScopes(Here, i) = 0 THEN Top.env
                                         ELSE Len(envs) + NewScopes(Here, i))
    BY <1>5 DEF Runs
  <2>2. stack # <<>>
    BY <1>5 DEF Runs
  <2> DEFINE n == Here.kids[i]  w == NewScopes(Here, i)
             e == IF w = 0 THEN Top.env ELSE Len(envs) + w  g == Frame(n, e)
  <2>3. n \in NodesOf(prog) /\ Nodes[n].k \in StmtKind
    BY <2>1, <2>2, TopIn
  <2>4. g.n = n /\ g.env = e
    BY FrameParts
  <2>5. Awaits(Top, g)
    BY <2>1, <2>3, <2>4 DEF Awaits, Here
  <2>6. stack' = Push(n, e)
    BY <2>1
  <2> HIDE DEF n, w, e, g
  <2> QED
    BY <2>2, <2>3, <2>4, <2>5, <2>6, MoreStack
<1>6. CASE Invokes
  <2>1. PICK i \in 1 .. Len(prog) :
          /\ stack # <<>> => Here.k = "Call"
          /\ Nodes[prog[i]].k = "Func" /\ stack' = Push(prog[i], Len(envs) + 1)
    BY <1>6 DEF Invokes
  <2> DEFINE n == prog[i]  e == Len(envs) + 1  g == Frame(n, e)
  <2>2. n \in NodesOf(prog) /\ Nodes[n].k = "Func" /\ n = prog[i] /\ stack' = Push(n, e)
    BY <1>1, <2>1, ProgramNodes
  <2>3. g.n = n /\ g.env = e
    BY FrameParts
  <2>4. stack # <<>> => Awaits(Top, g)
    BY <2>1, <2>2, <2>3 DEF Awaits, Here
  <2> HIDE DEF n, e, g
  <2> QED
    BY <2>2, <2>3, <2>4, MoreStack
<1>7. ASSUME stack # <<>>, NEW v, stack' = Popped(v) PROVE StackOf(prog, stack')
  <2>1. /\ Len(stack') = Len(stack) - 1
        /\ \A j \in 1 .. Len(stack) - 2 : stack'[j] = stack[j]
        /\ \A j \in 1 .. Len(stack) - 1 : stack'[j].n = stack[j].n /\ stack'[j].env = stack[j].env
    BY <1>7, Answered
  <2>2. Len(stack') - 1 = Len(stack) - 2 /\ Len(stack') <= Len(stack)
    BY <1>1, <2>1
  <2> QED
    BY <2>1, <2>2, LessStack
<1>8. CASE Yields \/ Binds \/ Ends
  BY <1>7, <1>8 DEF Yields, Binds, Ends
<1>9. CASE Resets
  <2>1. PICK vs : stack' = SetTop(vs)
    BY <1>9 DEF Resets
  <2>2. /\ Len(stack') = Len(stack) /\ \A j \in 1 .. Len(stack) - 1 : stack'[j] = stack[j]
        /\ \A j \in 1 .. Len(stack) : stack'[j].n = stack[j].n /\ stack'[j].env = stack[j].env
    BY <1>9, <2>1, Changed DEF Resets
  <2>3. Len(stack') <= Len(stack)
    BY <1>1, <2>2
  <2> QED
    BY <2>2, <2>3, LessStack
<1>10. CASE Leaves
  <2>1. /\ Len(stack') = Len(stack) - 1 /\ \A j \in 1 .. Len(stack) - 1 : stack'[j] = stack[j]
    BY <1>10, Cut DEF Leaves
  <2>2. Len(stack') <= Len(stack) /\ \A j \in 1 .. Len(stack') - 1 : j \in 1 .. Len(stack) - 1
    BY <1>1, <2>1
  <2> QED
    BY <2>1, <2>2, LessStack
<1> QED
  BY <1>2, <1>3, <1>4, <1>5, <1>6, <1>8, <1>9, <1>10 DEF Moves
(***************************************************************************)
(* The statements that must return do.                                     *)
(***************************************************************************)
\* What is left at its end need not have returned.
LEMMA LeftAtEnd ==
  ASSUME TypeOK, stack # <<>>, Fell(Top), AtEnd \/ Here.k = "VarDecl", Here.k \in StmtKind \cup {"Func"}
  PROVE  ~MustReturn(Top.n)
<1>1. Top.n \in NodeId /\ Here = Nodes[Top.n] /\ Done = Len(Top.vs) /\ Done \in Nat
  BY TopType DEF Here, Done
<1>2. Here.k # "Return"
  BY DEF AtEnd
<1>3. CASE Here.k \in {"Block", "Func"}
  <2>1. Len(Here.kids) = Done
    <3>1. Len(Here.kids) <= Done /\ Done <= Len(Here.kids) /\ Len(Here.kids) \in Nat
      BY <1>1, <1>3, TopType DEF AtEnd, Fell
    <3> QED
      BY <1>1, <3>1
  <2>2. \A i \in 1 .. Len(Here.kids) : ~MustReturn(Here.kids[i])
    BY <1>1, <1>3, <2>1 DEF Fell
  <2> QED
    BY <1>1, <1>3, <2>2, MustReturnStep
<1>4. CASE Here.k = "If"
  BY <1>1, <1>4, MustReturnStep DEF AtEnd, Fell
<1>5. CASE Here.k \notin {"Block", "Func", "If"}
  BY <1>1, <1>2, <1>5, MustReturnStep
<1> QED
  BY <1>3, <1>4, <1>5

\* The answer to an activation f that waited for t is one statement more, or none.
LEMMA AnsweredFell ==
  ASSUME NEW m, NEW e, NEW f \in Frames(m, e), NEW t, Awaits(f, t), Fell(f), NEW g, NEW v, g.n = f.n,
         g.vs = Append(f.vs, v), Nodes[t.n].k \in StmtKind => ~MustReturn(t.n)
  PROVE  Fell(g)
<1>1. /\ f.n \in NodeId /\ f.vs \in Seq(Value(m)) /\ Len(f.vs) \in Nat
      /\ Nodes[f.n].kids \in Seq(NodeId) /\ Len(Nodes[f.n].kids) \in Nat
  BY NodeType DEF Frames
<1>2. Len(g.vs) = Len(f.vs) + 1
  BY <1>1
<1>3. CASE Nodes[t.n].k \in ExprKind /\ EvaluatesNow(f)
  BY <1>1, <1>2, <1>3 DEF EvaluatesNow, Fell
<1>4. CASE Nodes[t.n].k = "Func" /\ Nodes[f.n].k = "Call"
  BY <1>4 DEF Fell
<1>5. CASE /\ Nodes[t.n].k \in StmtKind
           /\ \E i \in 1 .. Len(Nodes[f.n].kids) : ExecutesNow(f, i) /\ t.n = Nodes[f.n].kids[i]
  <2>1. PICK i \in 1 .. Len(Nodes[f.n].kids) : ExecutesNow(f, i) /\ t.n = Nodes[f.n].kids[i]
    BY <1>5
  <2>2. ~MustReturn(Nodes[f.n].kids[i])
    BY <1>5, <2>1
  <2>3. CASE Nodes[f.n].k \in {"Block", "Func"}
    <3>1. i = Len(f.vs) + 1
      BY <2>1, <2>3 DEF ExecutesNow
    <3>2. \A j \in 1 .. Len(g.vs) : j = i \/ j \in 1 .. Len(f.vs)
      BY <1>1, <1>2, <3>1
    <3>3. \A j \in 1 .. Len(f.vs) : ~MustReturn(Nodes[f.n].kids[j])
      BY <2>3 DEF Fell
    <3>4. \A j \in 1 .. Len(g.vs) : ~MustReturn(Nodes[f.n].kids[j])
      BY <2>2, <3>2, <3>3
    <3>5. Len(g.vs) <= Len(Nodes[f.n].kids)
      BY <1>1, <1>2, <3>1
    <3> QED
      BY <2>3, <3>4, <3>5 DEF Fell
  <2>4. CASE Nodes[f.n].k = "If"
    <3>1. i \in {2, 3}
      BY <2>1, <2>4 DEF ExecutesNow
    <3>2. ~MustReturn(f.n)
      BY <1>1, <2>2, <2>4, <3>1, MustReturnStep
    <3> QED
      BY <2>4, <3>2 DEF Fell
  <2>5. CASE Nodes[f.n].k \notin {"Block", "Func", "If"}
    BY <2>5 DEF Fell
  <2> QED
    BY <2>3, <2>4, <2>5
<1> QED
  BY <1>3, <1>4, <1>5 DEF Awaits

LEMMA MoreFell == ASSUME TypeOK, FallOf(stack), NEW n, NEW e, stack' = Push(n, e), n \in NodeId PROVE FallOf(stack')
<1> DEFINE f == Frame(n, e)
<1>1. /\ Len(stack) \in Nat /\ Len(stack') = Len(stack) + 1 /\ stack'[Len(stack) + 1] = f
      /\ \A j \in 1 .. Len(stack) : stack'[j] = stack[j]
  BY Pushed
<1>2. f.n = n /\ f.vs = <<>> /\ Len(Nodes[n].kids) \in Nat
  BY FrameParts, NodeType
<1> HIDE DEF f
<1>3. Fell(f)
  BY <1>2 DEF Fell
<1> QED
  BY <1>1, <1>3 DEF FallOf

LEMMA PoppedFell ==
  ASSUME TypeOK, StackOf(prog, stack), FallOf(stack), stack # <<>>, NEW v, stack' = Popped(v),
         Here.k \in StmtKind => ~MustReturn(Top.n)
  PROVE  FallOf(stack')
<1> DEFINE L == Len(stack)
<1>1. /\ L \in Nat \ {0} /\ Len(stack') = L - 1 /\ \A j \in 1 .. L - 2 : stack'[j] = stack[j]
      /\ \A j \in 1 .. L - 1 : stack'[j].n = stack[j].n
      /\ L > 1 => stack'[L - 1].vs = Append(stack[L - 1].vs, v)
  BY Answered
<1>2. CASE L = 1
  BY <1>1, <1>2 DEF FallOf
<1>3. CASE L # 1
  <2>1. PICK f : f = stack[L - 1]
    OBVIOUS
  <2>2. f \in Frames(Len(heap), Len(envs)) /\ Fell(f) /\ Awaits(f, Top)
    <3>1. L - 1 \in 1 .. L /\ L - 1 \in 1 .. L - 1 /\ (L - 1) + 1 = L
      BY <1>1, <1>3
    <3> QED
      BY <2>1, <3>1, TypeParts DEF FallOf, StackOf, Waiting, Top
  <2>3. stack'[L - 1].n = f.n /\ stack'[L - 1].vs = Append(f.vs, v)
    BY <1>1, <1>3, <2>1
  <2>4. Nodes[Top.n].k \in StmtKind => ~MustReturn(Top.n)
    BY DEF Here
  <2>5. Fell(stack'[L - 1])
    <3>1. PICK g : g = stack'[L - 1]
      OBVIOUS
    <3>2. PICK t : t = Top
      OBVIOUS
    <3>3. /\ g.n = f.n /\ g.vs = Append(f.vs, v) /\ Awaits(f, t)
          /\ Nodes[t.n].k \in StmtKind => ~MustReturn(t.n)
      BY <2>2, <2>3, <2>4, <3>1, <3>2
    <3>4. Fell(g)
      BY <2>2, <3>3, AnsweredFell
    <3> QED
      BY <3>1, <3>4
  <2>6. \A j \in 1 .. L - 1 : j = L - 1 \/ j \in 1 .. L - 2
    BY <1>1
  <2>7. \A j \in 1 .. L - 2 : Fell(stack[j])
    <3>1. \A j \in 1 .. L - 2 : j \in 1 .. L
      BY <1>1
    <3> QED
      BY <3>1 DEF FallOf
  <2> QED
    BY <1>1, <2>5, <2>6, <2>7 DEF FallOf
<1> QED
  BY <1>2, <1>3

LEMMA FallKept ==
  ASSUME TypeOK, StackOf(prog, stack), FallOf(stack), Moves PROVE FallOf(stack')
<1>1. Len(stack) \in Nat /\ prog \in Programs /\ (stack # <<>> => Len(stack) \in 1 .. Len(stack))
  BY TypeParts DEF TypeOK
<1>2. stack # <<>> => Fell(Top) /\ Top.n \in NodeId
  BY <1>1, TopType DEF FallOf, Top
<1>3. CASE Stops
  BY <1>3 DEF Stops, FallOf
<1>4. CASE Starts
  <2>1. PICK i \in 1 .. Len(prog) : stack' = <<Frame(prog[i], Globals)>>
    BY <1>4 DEF Starts
  <2>2. stack' = Push(prog[i], Globals) /\ prog[i] \in NodeId
    BY <1>1, <1>4, <2>1, ProgramNodes DEF Starts, Push
  <2> QED
    BY <2>2, MoreFell
<1>5. CASE Asks
  BY <1>5, MoreFell DEF Asks, ExprNode
<1>6. CASE Runs
  <2>1. PICK i \in 1 .. Len(Here.kids) :
           stack' = Push(Here.kids[i], IF NewScopes(Here, i) = 0 THEN Top.env
                                       ELSE Len(envs) + NewScopes(Here, i))
    BY <1>6 DEF Runs
  <2>2. Here.kids[i] \in NodeId
    BY <1>6, TopType DEF Runs
  <2> DEFINE n == Here.kids[i]
             e == IF NewScopes(Here, i) = 0 THEN Top.env ELSE Len(envs) + NewScopes(Here, i)
  <2>3. n \in NodeId /\ stack' = Push(n, e)
    BY <2>1, <2>2
  <2> HIDE DEF n, e
  <2> QED
    BY <2>3, MoreFell
<1>7. CASE Invokes
  <2>1. PICK i \in 1 .. Len(prog) : stack' = Push(prog[i], Len(envs) + 1)
    BY <1>7 DEF Invokes
  <2>2. prog[i] \in NodeId
    BY <1>1, ProgramNodes
  <2> QED
    BY <2>1, <2>2, MoreFell
<1>8. CASE Yields \/ Binds
  <2>1. stack # <<>> /\ (AtEnd \/ Here.k = "VarDecl") /\ \E v : stack' = Popped(v)
    BY <1>8 DEF Yields, Binds
  <2> QED
    BY <1>2, <2>1, LeftAtEnd, PoppedFell
<1>9. CASE Ends
  <2>1. Here.k \notin StmtKind
    BY <1>9, KindsApart DEF Ends
  <2> QED
    BY <1>9, <2>1, PoppedFell DEF Ends
<1>10. CASE Resets
  <2>1. PICK vs : stack' = SetTop(vs)
    BY <1>10 DEF Resets
  <2>2. /\ Len(stack') = Len(stack) /\ \A j \in 1 .. Len(stack) - 1 : stack'[j] = stack[j]
        /\ \A j \in 1 .. Len(stack) : stack'[j].n = stack[j].n
    BY <1>10, <2>1, Changed DEF Resets
  <2>3. Fell(stack'[Len(stack)])
    <3>1. stack'[Len(stack)].n = Top.n
      BY <1>1, <1>10, <2>2 DEF Resets, Top
    <3>2. Nodes[Top.n].k \in {"CompoundAssign", "While", "For"}
      BY <1>10 DEF Resets, Here
    <3> QED
      BY <3>1, <3>2 DEF Fell
  <2>4. \A j \in 1 .. Len(stack') : j = Len(stack) \/ j \in 1 .. Len(stack) - 1
    BY <1>1, <2>2
  <2> QED
    BY <1>1, <2>2, <2>3, <2>4 DEF FallOf
<1>11. CASE Leaves
  <2>1. /\ Len(stack') = Len(stack) - 1 /\ \A j \in 1 .. Len(stack) - 1 : stack'[j] = stack[j]
    BY <1>11, Cut DEF Leaves
  <2> QED
    BY <1>1, <2>1 DEF FallOf
<1> QED
  BY <1>3, <1>4, <1>5, <1>6, <1>7, <1>8, <1>9, <1>10, <1>11 DEF Moves
(***************************************************************************)
(* The chains of the environments.                                         *)
(***************************************************************************)
Made(m, es) == m \in Nat /\ Len(es) \in Nat /\ es \in Seq(Environments(m, Len(es)))

LEMMA ChainParts ==
  ASSUME NEW m, NEW es, Made(m, es), NEW e \in 1 .. Len(es), NEW c, c = es[e].chain
  PROVE  /\ c \in Seq(1 .. Len(es)) /\ c \in Seq(Nat) /\ Len(c) \in Nat /\ DOMAIN c = 1 .. Len(c)
         /\ \A l \in 1 .. Len(c) : c[l] \in 1 .. Len(es)
         /\ es[e].vars \in [Name -> [v: Value(m), d: {0} \cup NodeId]]
<1>1. es[e] \in Environments(m, Len(es))
  BY DEF Made
<1>2. c \in Seq(1 .. Len(es)) /\ es[e].vars \in [Name -> [v: Value(m), d: {0} \cup NodeId]]
  BY <1>1 DEF Environments
<1>3. 1 .. Len(es) \subseteq Nat
  BY DEF Made
<1>4. c \in Seq(Nat)
  BY <1>2, <1>3, SeqMono
<1> QED
  BY <1>2, <1>4

LEMMA Prefixed ==
  ASSUME NEW c \in Seq(Nat), NEW k \in Nat, NEW u, u = <<k>> \o c
  PROVE  u \in Seq(Nat) /\ Len(u) = Len(c) + 1 /\ u[1] = k /\ \A l \in 1 .. Len(c) : u[l + 1] = c[l]
<1> DEFINE own == <<k>>
<1>1. own \in Seq(Nat) /\ Len(own) = 1 /\ own[1] = k /\ u = own \o c /\ Len(c) \in Nat
  OBVIOUS
<1> HIDE DEF own
<1>2. own \o c \in Seq(Nat) /\ Len(own \o c) = 1 + Len(c)
  BY <1>1, ConcatProperties
<1>3. \A l \in 1 .. Len(own) + Len(c) : (own \o c)[l] = IF l <= Len(own) THEN own[l] ELSE c[l - Len(own)]
  BY <1>1, ConcatProperties
<1> QED
  BY <1>1, <1>2, <1>3

\* One environment more, inside another.
LEMMA OneChild ==
  ASSUME NEW m, NEW es, Made(m, es), ChainsOf(es), NEW e \in 1 .. Len(es), NEW es2, es2 = Child(es, e),
         NEW c, c = es[e].chain
  PROVE  /\ Made(m, es2) /\ Len(es2) = Len(es) + 1 /\ \A j \in 1 .. Len(es) : es2[j] = es[j]
         /\ ChainsOf(es2) /\ es2[Len(es2)].vars = Empty
         /\ LET c2 == es2[Len(es2)].chain
            IN  Len(c2) = Len(c) + 1 /\ c2[1] = Len(es2) /\ \A l \in 1 .. Len(c) : c2[l + 1] = c[l]
<1> DEFINE L == Len(es)  k == L + 1
<1>1. L \in Nat /\ m \in Nat /\ es \in Seq(Environments(m, L))
  BY DEF Made
<1>2. es2 \in Seq(Environments(m, k)) /\ Len(es2) = k /\ Made(m, es2)
  BY <1>1, ChildType DEF Made
<1>3. PICK u : u = <<k>> \o c
  OBVIOUS
<1>4. (\A j \in 1 .. L : es2[j] = es[j]) /\ es2[k].chain = u /\ es2[k].vars = Empty
  <2> DEFINE new == [vars |-> Empty, chain |-> u]
  <2>1. es2 = Append(es, new)
    BY <1>3 DEF Child
  <2>2. new.chain = u /\ new.vars = Empty
    OBVIOUS
  <2> HIDE DEF new
  <2>3. (\A j \in 1 .. L : es2[j] = es[j]) /\ es2[k] = new
    BY <1>1, <2>1, AppendProperties
  <2> QED
    BY <2>2, <2>3
<1>5. /\ c \in Seq(Nat) /\ Len(c) \in Nat /\ \A l \in 1 .. Len(c) : c[l] \in 1 .. L
  BY ChainParts
<1>6. Len(u) = Len(c) + 1 /\ u[1] = k /\ u \in Seq(Nat) /\ \A l \in 1 .. Len(c) : u[l + 1] = c[l]
  BY <1>1, <1>3, <1>5, Prefixed
<1>7. ChainsOf(es2)
  <2>1. c # <<>> /\ c[Len(c)] = Globals
    BY DEF ChainsOf
  <2>2. Len(c) \in 1 .. Len(c) /\ Len(c) + 1 = Len(u)
    BY <1>5, <1>6, <2>1
  <2>3. u # <<>> /\ u[Len(u)] = Globals
    BY <1>6, <2>1, <2>2
  <2>4. ASSUME NEW l \in 2 .. Len(u) PROVE u[l] < k
    <3>1. l - 1 \in 1 .. Len(c) /\ (l - 1) + 1 = l
      BY <1>5, <1>6
    <3>2. u[l] = c[l - 1] /\ c[l - 1] \in 1 .. L
      BY <1>5, <1>6, <3>1
    <3> QED
      BY <1>1, <3>2
  <2>5. \A j \in 1 .. k : j = k \/ j \in 1 .. L
    BY <1>1
  <2>6. ASSUME NEW j \in 1 .. k
        PROVE  LET d == es2[j].chain
               IN  d # <<>> /\ d[1] = j /\ d[Len(d)] = Globals /\ \A l \in 2 .. Len(d) : d[l] < j
    <3>1. CASE j = k
      BY <1>4, <1>6, <2>3, <2>4, <3>1
    <3>2. CASE j \in 1 .. L
      BY <1>4, <3>2 DEF ChainsOf
    <3> QED
      BY <2>5, <3>1, <3>2
  <2> QED
    BY <1>2, <2>6 DEF ChainsOf
<1> QED
  BY <1>2, <1>4, <1>6, <1>7

LEMMA SomeGrown ==
  ASSUME NEW m, NEW es, Made(m, es), ChainsOf(es), NEW e \in 1 .. Len(es), NEW w, NEW es2, Grown(es, es2, e, w)
  PROVE  /\ w \in 0 .. 2 /\ Made(m, es2) /\ ChainsOf(es2)
         /\ Len(es2) = Len(es) + w /\ \A j \in 1 .. Len(es) : es2[j] = es[j]
<1>1. CASE w = 0 /\ es2 = es
  BY <1>1 DEF Made
<1>2. CASE w = 1 /\ es2 = Child(es, e)
  <2>1. PICK c : c = es[e].chain
    OBVIOUS
  <2>2. /\ Made(m, es2) /\ ChainsOf(es2) /\ Len(es2) = Len(es) + 1
        /\ \A j \in 1 .. Len(es) : es2[j] = es[j]
    BY <1>2, <2>1, OneChild
  <2> QED
    BY <1>2, <2>2
<1>3. CASE w = 2 /\ es2 = Child(Child(es, e), Len(es) + 1)
  <2>1. PICK f : f = Child(es, e)
    OBVIOUS
  <2>2. Made(m, f) /\ ChainsOf(f) /\ Len(f) = Len(es) + 1 /\ \A j \in 1 .. Len(es) : f[j] = es[j]
    <3>1. PICK c : c = es[e].chain
      OBVIOUS
    <3> QED
      BY <2>1, <3>1, OneChild
  <2>3. PICK k : k = Len(es) + 1
    OBVIOUS
  <2>4. k \in 1 .. Len(f) /\ es2 = Child(f, k) /\ Len(es) \in Nat
    BY <1>3, <2>1, <2>2, <2>3 DEF Made
  <2>5. Made(m, es2) /\ ChainsOf(es2) /\ Len(es2) = Len(f) + 1 /\ \A j \in 1 .. Len(f) : es2[j] = f[j]
    <3>1. PICK c : c = f[k].chain
      OBVIOUS
    <3>2. Made(m, f) /\ ChainsOf(f) /\ k \in 1 .. Len(f) /\ es2 = Child(f, k)
      BY <2>2, <2>4
    <3> QED
      BY <3>1, <3>2, OneChild
  <2> QED
    BY <1>3, <2>2, <2>4, <2>5
<1> QED
  BY <1>1, <1>2, <1>3 DEF Grown

LEMMA SameChains ==
  ASSUME NEW es, ChainsOf(es), NEW es2, Len(es2) = Len(es), \A e \in 1 .. Len(es) : es2[e].chain = es[e].chain
  PROVE  ChainsOf(es2)
BY DEF ChainsOf

LEMMA EnvsMade == ASSUME TypeOK PROVE Made(Len(heap), envs)
BY TypeParts DEF Made

\* A call's environment: the globals, and its parameters.
LEMMA CallScope ==
  ASSUME TypeOK, ChainsOf(envs), NEW b, NEW es2, es2 = Called(b)
  PROVE  /\ ChainsOf(es2) /\ Len(es2) = Len(envs) + 1 /\ \A j \in 1 .. Len(envs) : es2[j] = envs[j]
         /\ es2[Len(envs) + 1].vars = b
         /\ LET c == envs[Globals].chain  c2 == es2[Len(envs) + 1].chain
            IN  Len(c2) = Len(c) + 1 /\ c2[1] = Len(envs) + 1 /\ \A l \in 1 .. Len(c) : c2[l + 1] = c[l]
<1>1. PICK es : es = Child(envs, Globals)
  OBVIOUS
<1>2. PICK g : g = Globals
  OBVIOUS
<1>3. PICK c : c = envs[g].chain
  OBVIOUS
<1>4. PICK m : m = Len(heap)
  OBVIOUS
<1>5. PICK k : k = Len(envs) + 1
  OBVIOUS
<1>6. Len(envs) \in Nat /\ Made(m, envs) /\ g \in 1 .. Len(envs) /\ es = Child(envs, g)
  BY <1>1, <1>2, <1>4, TypeParts, EnvsMade
<1>7. /\ Made(m, es) /\ Len(es) = k /\ \A j \in 1 .. Len(envs) : es[j] = envs[j]
      /\ ChainsOf(es) 
      /\ LET c2 == es[k].chain
         IN  Len(c2) = Len(c) + 1 /\ c2[1] = k /\ \A l \in 1 .. Len(c) : c2[l + 1] = c[l]
  BY <1>3, <1>5, <1>6, OneChild
<1>8. PICK en : en = [es[k] EXCEPT !.vars = b]
  OBVIOUS
<1>9. es[k] \in Environments(m, Len(es)) /\ es \in Seq(Environments(m, Len(es)))
  BY <1>5, <1>6, <1>7 DEF Made
<1>10. en.chain = es[k].chain /\ en.vars = b
  BY <1>8, <1>9 DEF Environments
<1>11. es2 = [es EXCEPT ![k] = en]
  BY <1>1, <1>5, <1>8 DEF Called
<1>12. Len(es2) = k /\ es2[k] = en /\ \A j \in 1 .. Len(envs) : es2[j] = envs[j]
  BY <1>5, <1>6, <1>7, <1>9, <1>11
<1>13. \A j \in 1 .. k : es2[j].chain = es[j].chain
  <2>1. \A j \in 1 .. k : j = k \/ j \in 1 .. Len(envs)
    BY <1>5, <1>6
  <2> QED
    BY <1>7, <1>10, <1>12, <2>1
<1>14. ChainsOf(es2)
  <2>1. Len(es2) = Len(es) /\ ChainsOf(es) /\ \A j \in 1 .. Len(es) : es2[j].chain = es[j].chain
    BY <1>7, <1>12, <1>13
  <2> QED
    BY <2>1, SameChains
<1>15. es2[k].vars = b /\ es2[k].chain = es[k].chain
  BY <1>10, <1>12
<1> QED
  BY <1>2, <1>3, <1>5, <1>7, <1>12, <1>14, <1>15

\* A declaration gives its name its declaration, in its own scope alone.
LEMMA DefineScope ==
  ASSUME TypeOK, stack # <<>>, NEW v, NEW es2, es2 = Define(Top.env, Top.n, v)
  PROVE  /\ Len(es2) = Len(envs) /\ \A e \in 1 .. Len(envs) : es2[e].chain = envs[e].chain
         /\ \A e \in 1 .. Len(envs) : e # Top.env => es2[e] = envs[e]
         /\ \A x \in Name : es2[Top.env].vars[x].d = IF x = Here.name THEN Top.n ELSE envs[Top.env].vars[x].d
<1>1. PICK e : e = Top.env
  OBVIOUS
<1>2. PICK x : x = Here.name
  OBVIOUS
<1>3. PICK m : m = Len(heap)
  OBVIOUS
<1>4. e \in 1 .. Len(envs) /\ x \in Name /\ Made(m, envs) /\ Nodes[Top.n].name = x
  BY <1>1, <1>2, <1>3, TopType, EnvsMade DEF Here
<1>5. PICK b : b = [v |-> v, d |-> Top.n]
  OBVIOUS
<1>6. PICK en : en = [envs[e] EXCEPT !.vars[x] = b]
  OBVIOUS
<1>7. es2 = [envs EXCEPT ![e] = en]
  BY <1>1, <1>4, <1>5, <1>6 DEF Define
<1>8. envs[e] \in Environments(m, Len(envs)) /\ envs \in Seq(Environments(m, Len(envs)))
  BY <1>4 DEF Made
<1>9. en.chain = envs[e].chain /\ en.vars = [envs[e].vars EXCEPT ![x] = b]
  BY <1>6, <1>8 DEF Environments
<1>10. envs[e].vars \in [Name -> [v: Value(m), d: {0} \cup NodeId]]
  BY <1>8 DEF Environments
<1>11. \A y \in Name : en.vars[y] = IF y = x THEN b ELSE envs[e].vars[y]
  BY <1>9, <1>10
<1>12. b.d = Top.n
  BY <1>5
<1>13. Len(es2) = Len(envs) /\ es2[e] = en /\ \A j \in 1 .. Len(envs) : j # e => es2[j] = envs[j]
  BY <1>4, <1>7, <1>8
<1> QED
  BY <1>1, <1>2, <1>9, <1>11, <1>12, <1>13

\* The environments there are keep their places.
LEMMA OldChains ==
  ASSUME TypeOK, ChainsOf(envs), Moves
  PROVE  ChainsOf(envs') /\ Len(envs) <= Len(envs') /\ \A e \in 1 .. Len(envs) : envs'[e].chain = envs[e].chain
<1>1. Len(envs) \in Nat
  BY TypeParts
<1>2. CASE Stops \/ Starts \/ Asks \/ Resets \/ Leaves \/ Ends
  BY <1>1, <1>2 DEF Stops, Starts, Asks, Resets, Leaves, Ends
<1>3. CASE Yields
  BY <1>1, <1>3, SameChains DEF Yields, SameNames
<1>4. CASE Binds
  <2>1. PICK es2 : es2 = envs'
    OBVIOUS
  <2>2. Len(es2) = Len(envs) /\ \A e \in 1 .. Len(envs) : es2[e].chain = envs[e].chain
    BY <1>4, <2>1, DefineScope DEF Binds
  <2>3. ChainsOf(es2)
    BY <2>2, SameChains
  <2> QED
    BY <1>1, <2>1, <2>2, <2>3
<1>5. CASE Runs
  <2>1. PICK w : Grown(envs, envs', Top.env, w)
    BY <1>5 DEF Runs
  <2>2. PICK e : e = Top.env
    OBVIOUS
  <2>3. PICK m : m = Len(heap)
    OBVIOUS
  <2>4. e \in 1 .. Len(envs) /\ Grown(envs, envs', e, w) /\ Made(m, envs)
    BY <1>5, <2>1, <2>2, <2>3, TopType, EnvsMade DEF Runs
  <2>5. /\ w \in 0 .. 2 /\ ChainsOf(envs') /\ Len(envs') = Len(envs) + w
        /\ \A j \in 1 .. Len(envs) : envs'[j] = envs[j]
    BY <2>4, SomeGrown
  <2> QED
    BY <1>1, <2>5
<1>6. CASE Invokes
  <2>1. PICK b : envs' = Called(b)
    BY <1>6 DEF Invokes
  <2>2. PICK es2 : es2 = envs'
    OBVIOUS
  <2>3. es2 = Called(b)
    BY <2>1, <2>2
  <2>4. ChainsOf(es2) /\ Len(es2) = Len(envs) + 1 /\ \A j \in 1 .. Len(envs) : es2[j] = envs[j]
    BY <2>3, CallScope
  <2> QED
    BY <1>1, <2>2, <2>4
<1> QED
  BY <1>2, <1>3, <1>4, <1>5, <1>6 DEF Moves
(***************************************************************************)
(* Who sees what a scope declares.                                         *)
(***************************************************************************)
OldKept == Len(envs) <= Len(envs') /\ \A e \in 1 .. Len(envs) : envs'[e].chain = envs[e].chain

LEMMA OwnLess ==
  ASSUME TypeOK, OldKept, OwnOf(envs, stack), Len(stack') \in Nat, Len(stack') <= Len(stack),
         \A j \in 1 .. Len(stack') : stack'[j].n = stack[j].n /\ stack'[j].env = stack[j].env,
         \A j \in 1 .. Len(stack') - 1 : stack'[j] = stack[j]
  PROVE  OwnOf(envs', stack')
<1> DEFINE M == Len(stack')
<1>1. M \in Nat /\ Len(stack) \in Nat /\ M <= Len(stack)
  BY SeesType
<1>2. ASSUME NEW j \in 1 .. M PROVE j \in 1 .. Len(stack) /\ stack[j].env \in 1 .. Len(envs)
  BY <1>1, SeesType
<1>3. ASSUME NEW j \in 1 .. M PROVE Sees(envs', stack'[j].env) = Sees(envs, stack[j].env)
  <2>1. stack'[j].env = stack[j].env /\ stack[j].env \in 1 .. Len(envs)
    BY <1>2
  <2>2. envs'[stack[j].env].chain = envs[stack[j].env].chain
    BY <2>1 DEF OldKept
  <2> QED
    BY <2>1, <2>2 DEF Sees
<1>4. SUFFICES ASSUME NEW j \in 1 .. M, Opens(stack', j)
               PROVE  /\ stack'[j].env # Globals
                      /\ \A i \in 1 .. j - 1 : stack'[j].env \notin Sees(envs', stack'[i].env)
  BY DEF OwnOf
<1>5. Opens(stack, j)
  <2>1. stack'[j].n = stack[j].n
    OBVIOUS
  <2>2. j > 1 => stack'[j - 1] = stack[j - 1]
    BY <1>1
  <2> QED
    BY <1>4, <2>1, <2>2 DEF Opens
<1>6. stack[j].env # Globals /\ \A i \in 1 .. j - 1 : stack[j].env \notin Sees(envs, stack[i].env)
  BY <1>2, <1>5 DEF OwnOf
<1>7. \A i \in 1 .. j - 1 : i \in 1 .. M
  BY <1>1
<1> QED
  BY <1>3, <1>6, <1>7

LEMMA OwnMore ==
  ASSUME TypeOK, OldKept, OwnOf(envs, stack), NEW n, NEW e, stack' = Push(n, e),
         Nodes[n].k \in {"Block", "For", "Func"} => e \notin 1 .. Len(envs),
         stack # <<>> /\ Nodes[n].k = "VarDecl" /\ Branches(Top) => e \notin 1 .. Len(envs)
  PROVE  OwnOf(envs', stack')
<1> DEFINE L == Len(stack)
<1>1. L \in Nat /\ Len(stack') = L + 1 /\ \A j \in 1 .. L : stack'[j] = stack[j]
  BY Pushed
<1>2. stack'[L + 1].n = n /\ stack'[L + 1].env = e
  BY Pushed, FrameParts
<1>3. \A j \in 1 .. L : stack[j].env \in 1 .. Len(envs)
  BY SeesType
<1>4. ASSUME NEW j \in 1 .. L PROVE Sees(envs', stack'[j].env) = Sees(envs, stack[j].env)
  <2>1. stack'[j].env = stack[j].env /\ stack[j].env \in 1 .. Len(envs)
    BY <1>1, <1>3
  <2>2. envs'[stack[j].env].chain = envs[stack[j].env].chain
    BY <2>1 DEF OldKept
  <2> QED
    BY <2>1, <2>2 DEF Sees
<1>5. SUFFICES ASSUME NEW j \in 1 .. L + 1, Opens(stack', j)
               PROVE  /\ stack'[j].env # Globals
                      /\ \A i \in 1 .. j - 1 : stack'[j].env \notin Sees(envs', stack'[i].env)
  BY <1>1 DEF OwnOf
<1>6. CASE j \in 1 .. L
  <2>1. Opens(stack, j)
    <3>1. stack'[j] = stack[j] /\ (j > 1 => stack'[j - 1] = stack[j - 1])
      BY <1>1, <1>6
    <3> QED
      BY <1>5, <3>1 DEF Opens
  <2>2. stack[j].env # Globals /\ \A i \in 1 .. j - 1 : stack[j].env \notin Sees(envs, stack[i].env)
    BY <1>6, <2>1 DEF OwnOf
  <2>3. \A i \in 1 .. j - 1 : i \in 1 .. L
    BY <1>1
  <2> QED
    BY <1>1, <1>4, <1>6, <2>2, <2>3
<1>7. CASE j = L + 1
  <2>1. e \notin 1 .. Len(envs)
    <3>1. j > 1 => L \in 1 .. L /\ stack'[j - 1] = Top /\ stack # <<>>
      BY <1>1, <1>7, TypeParts DEF Top
    <3>2. Nodes[n].k \in {"Block", "For", "Func"} \/ (j > 1 /\ Nodes[n].k = "VarDecl" /\ Branches(stack'[j - 1]))
      BY <1>2, <1>5, <1>7 DEF Opens
    <3> QED
      BY <3>1, <3>2
  <2>2. Globals \in 1 .. Len(envs)
    BY SeesType
  <2>3. \A i \in 1 .. L : Sees(envs, stack[i].env) \subseteq 1 .. Len(envs)
    BY <1>3, SeesType
  <2> QED
    BY <1>1, <1>2, <1>4, <1>7, <2>1, <2>2, <2>3
<1> QED
  BY <1>1, <1>6, <1>7

\* A statement that a branch or a loop chooses has a scope of its own.
LEMMA RunsInItsOwn ==
  ASSUME NEW f, NEW i, ExecutesNow(f, i),
         \/ Nodes[Nodes[f.n].kids[i]].k \in {"Block", "For"}
         \/ Branches(f) /\ Nodes[Nodes[f.n].kids[i]].k = "VarDecl"
  PROVE  NewScopes(Nodes[f.n], i) > 0
<1> DEFINE nd == Nodes[f.n]  k == Nodes[nd.kids[i]].k
<1>1. CASE k \in {"Block", "For"}
  <2>1. NewScopes(nd, i) = 1 \/ NewScopes(nd, i) = 2
    BY <1>1 DEF NewScopes
  <2> QED
    BY <2>1
<1>2. CASE Branches(f) /\ k = "VarDecl"
  <2>1. Scoped(nd, i)
    BY <1>2 DEF Branches, ExecutesNow, Scoped
  <2>2. NewScopes(nd, i) = 1
    BY <1>2, <2>1 DEF NewScopes
  <2> QED
    BY <2>2
<1> QED
  BY <1>1, <1>2

LEMMA OwnKept ==
  ASSUME TypeOK, TypeOK', StackOf(prog, stack), OldKept, OwnOf(envs, stack), Moves PROVE OwnOf(envs', stack')
<1>1. Len(stack) \in Nat /\ Len(stack') \in Nat /\ Len(envs) \in Nat /\ (stack # <<>> => Len(stack) > 0)
  BY TypeParts DEF TypeOK
<1>2. CASE Stops
  BY <1>2 DEF Stops, OwnOf
<1>3. CASE Starts
  <2>1. PICK i \in 1 .. Len(prog) : Nodes[prog[i]].k = "VarDecl" /\ stack' = <<Frame(prog[i], Globals)>>
    BY <1>3 DEF Starts
  <2>2. stack' = Push(prog[i], Globals) /\ stack = <<>>
    BY <1>3, <2>1 DEF Starts, Push
  <2> QED
    BY <2>1, <2>2, OwnMore
<1>4. CASE Asks
  <2>1. PICK n \in ExprNode : stack' = Push(n, Top.env)
    BY <1>4 DEF Asks
  <2>2. Nodes[n].k \notin {"Block", "For", "Func", "VarDecl"}
    BY DEF ExprNode, ExprKind
  <2> QED
    BY <2>1, <2>2, OwnMore
<1>5. CASE Runs
  <2>1. PICK i \in 1 .. Len(Here.kids) :
          /\ ExecutesNow(Top, i) /\ Nodes[Here.kids[i]].k \in StmtKind
          /\ Grown(envs, envs', Top.env, NewScopes(Here, i))
          /\ stack' = Push(Here.kids[i], IF NewScopes(Here, i) = 0 THEN Top.env
                                         ELSE Len(envs) + NewScopes(Here, i))
    BY <1>5 DEF Runs
  <2> DEFINE n == Here.kids[i]  w == NewScopes(Here, i)
             e == IF w = 0 THEN Top.env ELSE Len(envs) + w
  <2>2. w \in 0 .. 2
    BY <2>1 DEF Grown
  <2>3. Nodes[n].k \in {"Block", "For"} \/ (Branches(Top) /\ Nodes[n].k = "VarDecl") => w > 0
    <3>1. PICK f : f = Top
      OBVIOUS
    <3>2. ExecutesNow(f, i) /\ Here = Nodes[f.n]
      BY <2>1, <3>1 DEF Here
    <3> QED
      BY <3>1, <3>2, RunsInItsOwn
  <2>4. w > 0 => e \notin 1 .. Len(envs)
    BY <1>1, <2>2
  <2>5. Nodes[n].k # "Func"
    BY <2>1 DEF StmtKind
  <2>6. stack' = Push(n, e)
    BY <2>1
  <2> HIDE DEF n, w, e
  <2> QED
    BY <2>3, <2>4, <2>5, <2>6, OwnMore
<1>6. CASE Invokes
  <2>1. PICK i \in 1 .. Len(prog) : stack' = Push(prog[i], Len(envs) + 1)
    BY <1>6 DEF Invokes
  <2>2. Len(envs) + 1 \notin 1 .. Len(envs)
    BY <1>1
  <2> QED
    BY <2>1, <2>2, OwnMore
<1>7. ASSUME stack # <<>>, NEW v, stack' = Popped(v) PROVE OwnOf(envs', stack')
  <2>1. /\ Len(stack') = Len(stack) - 1
        /\ \A j \in 1 .. Len(stack) - 2 : stack'[j] = stack[j]
        /\ \A j \in 1 .. Len(stack) - 1 : stack'[j].n = stack[j].n /\ stack'[j].env = stack[j].env
    BY <1>7, Answered
  <2>2. Len(stack') - 1 = Len(stack) - 2 /\ Len(stack') <= Len(stack)
    BY <1>1, <2>1
  <2> QED
    BY <1>1, <2>1, <2>2, OwnLess
<1>8. CASE Yields \/ Binds \/ Ends
  BY <1>7, <1>8 DEF Yields, Binds, Ends
<1>9. CASE Resets
  <2>1. PICK vs : stack' = SetTop(vs)
    BY <1>9 DEF Resets
  <2>2. /\ Len(stack') = Len(stack) /\ \A j \in 1 .. Len(stack) - 1 : stack'[j] = stack[j]
        /\ \A j \in 1 .. Len(stack) : stack'[j].n = stack[j].n /\ stack'[j].env = stack[j].env
    BY <1>9, <2>1, Changed DEF Resets
  <2>3. Len(stack') <= Len(stack)
    BY <1>1, <2>2
  <2> QED
    BY <1>1, <2>2, <2>3, OwnLess
<1>10. CASE Leaves
  <2>1. /\ Len(stack') = Len(stack) - 1 /\ \A j \in 1 .. Len(stack) - 1 : stack'[j] = stack[j]
    BY <1>10, Cut DEF Leaves
  <2>2. Len(stack') <= Len(stack) /\ \A j \in 1 .. Len(stack') - 1 : j \in 1 .. Len(stack) - 1
    BY <1>1, <2>1
  <2> QED
    BY <1>1, <2>1, <2>2, OwnLess
<1> QED
  BY <1>2, <1>3, <1>4, <1>5, <1>6, <1>8, <1>9, <1>10 DEF Moves
(***************************************************************************)
(* The scopes of the text.                                                 *)
(***************************************************************************)
LEMMA InsideType ==
  ASSUME NEW nd \in Node, NEW i \in Nat \ {0}, NEW ss \in Seq(Decls), ss # <<>>, NEW a, a = Inside(ss, nd, i)
  PROVE  /\ a \in Seq(Decls) /\ a # <<>> /\ NewScopes(nd, i) \in 0 .. 2
         /\ a = After(ss, nd, i - 1) \o Fresh(NewScopes(nd, i))
<1> DEFINE w == NewScopes(nd, i)
<1>1. w \in 0 .. 2 /\ w \in Nat
  BY DEF NewScopes
<1>2. PICK b : b = After(ss, nd, i - 1)
  OBVIOUS
<1>3. b \in Seq(Decls) /\ b # <<>> /\ Len(b) \in Nat \ {0}
  BY <1>2, AfterType
<1>4. a = b \o Fresh(w)
  BY <1>2 DEF Inside, Fresh
<1> HIDE DEF w
<1>5. a \in Seq(Decls) /\ Len(a) = Len(b) + w
  BY <1>1, <1>3, <1>4, NoDeclsMore
<1>6. a # <<>>
  BY <1>1, <1>3, <1>5
<1> QED
  BY <1>1, <1>2, <1>4, <1>5, <1>6 DEF w

\* Every node of a program is in scopes.
LEMMA ScopesType ==
  ASSUME NEW p \in Programs, NEW n \in NodesOf(p)
  PROVE  ScopesOf(p)[n] \in Seq(Decls) /\ ScopesOf(p)[n] # <<>>
<1> DEFINE Good(m) == ScopesOf(p)[m] \in Seq(Decls) /\ ScopesOf(p)[m] # <<>>
<1>1. PICK r \in 1 .. Len(p) : n \in Below(p[r])
  BY ProgramNodes
<1>2. PICK t : t = p[r]
  OBVIOUS
<1>3. t \in NodeId /\ n \in Below(t) /\ Below(t) \subseteq NodesOf(p)
  BY <1>1, <1>2, ProgramNodes
<1> DEFINE bad == {m \in Below(t) : ~Good(m)}
<1>4. t \in Nat /\ Below(t) \subseteq 1 .. t
  <2>1. \A m \in Below(t) : m <= t /\ m \in NodeId
    BY <1>3, BelowClosed
  <2> QED
    BY <1>3, <2>1, TreeAssumption, AstAssumption
<1>5. SUFFICES ASSUME bad # {} PROVE FALSE
  BY <1>3
<1>6. PICK m \in bad : \A q \in bad : q <= m
  <2> HIDE DEF Good
  <2>1. bad \subseteq 1 .. t
    BY <1>4
  <2> HIDE DEF bad
  <2> QED
    BY <1>4, <1>5, <2>1, Greatest
<1>7. m \in Below(t) /\ ~Good(m)
  OBVIOUS
<1>8. CASE m = t
  <2>1. ScopesOf(p)[m] = DeclScopes(p, r)
    BY <1>2, <1>8, ScopesStep
  <2>2. DeclScopes(p, r) \in Seq(Decls) \ {<<>>}
    BY DeclScopesType
  <2> QED
    BY <1>7, <2>1, <2>2
<1>9. CASE m # t
  <2>1. PICK a \in Below(t) : \E i \in 1 .. Len(Nodes[a].kids) : Nodes[a].kids[i] = m
    BY <1>3, <1>7, <1>9, HasAbove
  <2>2. PICK i \in 1 .. Len(Nodes[a].kids) : Nodes[a].kids[i] = m
    BY <2>1
  <2>3. a \in NodeId /\ a \in NodesOf(p) /\ m < a /\ a \in Nat /\ m \in Nat
    BY <1>3, <2>1, <2>2, KidsFirst, BelowClosed
  <2>4. Good(a)
    <3> HIDE DEF Good
    <3>1. SUFFICES ASSUME ~Good(a) PROVE FALSE
      OBVIOUS
    <3>2. a <= m
      BY <1>6, <2>1, <3>1
    <3> QED
      BY <2>3, <3>2
  <2>5. PICK ss : ss = ScopesOf(p)[a]
    OBVIOUS
  <2>6. ScopesOf(p)[m] = Inside(ss, Nodes[a], i)
    BY <2>2, <2>3, <2>5, ScopesStep
  <2>7. PICK nd : nd = Nodes[a]
    OBVIOUS
  <2>8. nd \in Node /\ i \in Nat \ {0}
    BY <2>3, <2>7, IsNode, NodeType
  <2>9. PICK b : b = Inside(ss, nd, i)
    OBVIOUS
  <2>10. b \in Seq(Decls) /\ b # <<>>
    BY <2>4, <2>5, <2>8, <2>9, InsideType
  <2> QED
    BY <1>7, <2>6, <2>7, <2>9, <2>10
<1> QED
  BY <1>8, <1>9

\* A for loop declares its variable once its initialiser is done, and that alone.
LEMMA ForBinds ==
  ASSUME NEW n \in NodeId, Nodes[n].k = "For", NEW j \in Nat \ {0}, NEW k \in Nat \ {0}
  PROVE  Binders(Nodes[n], j) = Binders(Nodes[n], k)
<1> DEFINE nd == Nodes[n]
<1>1. /\ Len(nd.kids) = 4 /\ DOMAIN nd.kids = 1 .. 4
      /\ Nodes[nd.kids[2]].k \in ExprKind /\ Nodes[nd.kids[3]].k \in ExprKind
  BY NodeType DEF Shape
<1>2. "VarDecl" \notin ExprKind
  BY KindsApart
<1>3. Scoped(nd, 4)
  BY DEF Scoped
<1>4. ASSUME NEW l \in Nat \ {0}
      PROVE  Binders(nd, l) = {i \in {1} : Nodes[nd.kids[1]].k = "VarDecl" /\ ~Scoped(nd, 1)}
  <2> HIDE DEF nd
  <2>1. ASSUME NEW i \in Binders(nd, l) PROVE i = 1
    <3>1. i \in 1 .. 4 /\ Nodes[nd.kids[i]].k = "VarDecl" /\ ~Scoped(nd, i)
      BY <1>1 DEF Binders
    <3>2. i = 1 \/ i = 2 \/ i = 3 \/ i = 4
      BY <3>1
    <3> QED
      BY <1>1, <1>2, <1>3, <3>1, <3>2
  <2>2. 1 \in Binders(nd, l) <=> (Nodes[nd.kids[1]].k = "VarDecl" /\ ~Scoped(nd, 1))
    BY <1>1 DEF Binders
  <2> QED
    BY <2>1, <2>2
<1> QED
  BY <1>4

LEMMA SameAfter ==
  ASSUME NEW nd, NEW ss, NEW j, NEW k, Binders(nd, j) = Binders(nd, k) PROVE After(ss, nd, j) = After(ss, nd, k)
BY DEF After, With

\* An operand or a condition is in the scopes that its activation has come to.
LEMMA AskedScopes ==
  ASSUME NEW m, NEW ev, NEW f \in Frames(m, ev), NEW p \in Programs, f.n \in NodesOf(p), EvaluatesNow(f),
         NEW i \in 1 .. Len(Nodes[f.n].kids), Nodes[Nodes[f.n].kids[i]].k \in ExprKind
  PROVE  ScopesOf(p)[Nodes[f.n].kids[i]] = ScopesAt(p, f)
<1>1. PICK n : n = f.n
  OBVIOUS
<1>2. PICK d : d = Len(f.vs)
  OBVIOUS
<1>3. PICK nd : nd = Nodes[n]
  OBVIOUS
<1>4. PICK ss : ss = ScopesOf(p)[n]
  OBVIOUS
<1>5. n \in NodeId /\ n \in NodesOf(p) /\ d \in Nat /\ nd \in Node /\ i \in 1 .. Len(nd.kids) /\ Len(nd.kids) \in Nat
  <2>1. n \in NodeId /\ f.vs \in Seq(Value(m)) /\ n \in NodesOf(p) /\ nd \in Node /\ i \in 1 .. Len(nd.kids)
    BY <1>1, <1>3, ProgramNodes, NodeType DEF Frames
  <2> QED
    BY <1>2, <1>3, <2>1, KidCounts
<1>6. ss \in Seq(Decls) /\ ss # <<>>
  BY <1>4, <1>5, ScopesType
<1>7. ~Scoped(nd, i)
  <2>1. nd.k = "If" => i = 1
    <3>1. SUFFICES ASSUME nd.k = "If", i # 1 PROVE FALSE
      OBVIOUS
    <3>2. AllIn(Tail(nd.kids), StmtKind) /\ nd.kids \in Seq(NodeId)
      BY <1>3, <1>5, <3>1, NodeType DEF Shape
    <3>3. i - 1 \in DOMAIN Tail(nd.kids) /\ Tail(nd.kids)[i - 1] = nd.kids[i]
      BY <1>5, <3>1, <3>2
    <3>4. Nodes[nd.kids[i]].k \in StmtKind
      BY <3>2, <3>3 DEF AllIn
    <3> QED
      BY <1>1, <1>3, <3>4, KindsApart
  <2>2. nd.k = "While" => i # 2
    BY <1>1, <1>3, <1>5, NodeType, KindsApart DEF Shape
  <2>3. nd.k = "For" => i # 4
    BY <1>1, <1>3, <1>5, NodeType, KindsApart DEF Shape
  <2> QED
    BY <1>5, <2>1, <2>2, <2>3 DEF Scoped
<1>8. NewScopes(nd, i) = 0
  BY <1>1, <1>3, <1>7 DEF NewScopes, ExprKind
<1>9. Binders(nd, i - 1) = Binders(nd, d)
  <2>1. CASE nd.k = "For"
    <3>0. d \in {1, 3}
      BY <1>1, <1>2, <1>3, <2>1 DEF EvaluatesNow
    <3>1. d \in Nat \ {0}
      BY <3>0
    <3>2. i # 1
      BY <1>1, <1>3, <1>5, <2>1, NodeType, KindsApart DEF Shape
    <3>3. i - 1 \in Nat \ {0}
      BY <1>5, <3>2
    <3> QED
      BY <1>3, <1>5, <2>1, <3>1, <3>3, ForBinds
  <2>2. CASE nd.k # "For"
    <3>1. nd.k \notin {"Block", "For", "Func"}
      BY <1>1, <1>3, <2>2 DEF EvaluatesNow
    <3>2. i - 1 \in Nat
      BY <1>5
    <3> QED
      BY <1>3, <1>5, <3>1, <3>2, NoBinders
  <2> QED
    BY <2>1, <2>2
<1>10. PICK b : b = After(ss, nd, i - 1)
  OBVIOUS
<1>11. b \in Seq(Decls)
  BY <1>5, <1>6, <1>10, AfterType
<1>12. ScopesOf(p)[nd.kids[i]] = b \o Fresh(0)
  <2>1. ScopesOf(p)[nd.kids[i]] = Inside(ss, nd, i)
    BY <1>3, <1>4, <1>5, ScopesStep
  <2>2. Inside(ss, nd, i) = b \o Fresh(NewScopes(nd, i))
    BY <1>10 DEF Inside, Fresh
  <2> QED
    BY <1>8, <2>1, <2>2
<1>13. b \o Fresh(0) = b
  <2>1. Fresh(0) = <<>>
    <3>1. 1 .. 0 = {}
      OBVIOUS
    <3> QED
      BY <3>1 DEF Fresh
  <2> QED
    BY <1>11, <2>1
<1>14. ScopesAt(p, f) = After(ss, nd, d)
  BY <1>1, <1>2, <1>3, <1>4 DEF ScopesAt
<1> QED
  BY <1>1, <1>3, <1>9, <1>10, <1>12, <1>13, <1>14, SameAfter

\* A statement is in those scopes, and in its own.
LEMMA RunScopes ==
  ASSUME NEW m, NEW ev, NEW f \in Frames(m, ev), NEW p \in Programs, f.n \in NodesOf(p),
         NEW i \in 1 .. Len(Nodes[f.n].kids), ExecutesNow(f, i)
  PROVE  ScopesOf(p)[Nodes[f.n].kids[i]] = ScopesAt(p, f) \o Fresh(NewScopes(Nodes[f.n], i))
<1>1. PICK n : n = f.n
  OBVIOUS
<1>2. PICK d : d = Len(f.vs)
  OBVIOUS
<1>3. PICK nd : nd = Nodes[n]
  OBVIOUS
<1>4. PICK ss : ss = ScopesOf(p)[n]
  OBVIOUS
<1>5. n \in NodeId /\ n \in NodesOf(p) /\ d \in Nat /\ i \in 1 .. Len(nd.kids) /\ Len(nd.kids) \in Nat
  <2>1. n \in NodeId /\ f.vs \in Seq(Value(m)) /\ n \in NodesOf(p) /\ i \in 1 .. Len(nd.kids)
    BY <1>1, <1>3, ProgramNodes DEF Frames
  <2> QED
    BY <1>2, <1>3, <2>1, KidCounts
<1>6. Binders(nd, i - 1) = Binders(nd, d)
  <2>1. CASE nd.k \in {"Block", "Func"}
    <3>1. i = d + 1
      BY <1>1, <1>2, <1>3, <2>1 DEF ExecutesNow
    <3>2. i - 1 = d
      BY <1>5, <3>1
    <3> QED
      BY <3>2
  <2>2. CASE nd.k = "For"
    <3>1. (d = 0 /\ i = 1) \/ (d = 2 /\ i = 4)
      BY <1>1, <1>2, <1>3, <2>2 DEF ExecutesNow
    <3>2. CASE d = 0 /\ i = 1
      BY <3>2
    <3>3. CASE d = 2 /\ i = 4
      <4>1. i - 1 \in Nat \ {0} /\ d \in Nat \ {0}
        BY <3>3
      <4> QED
        BY <1>3, <1>5, <2>2, <4>1, ForBinds
    <3> QED
      BY <3>1, <3>2, <3>3
  <2>3. CASE nd.k \notin {"Block", "For", "Func"}
    <3>1. i - 1 \in Nat
      BY <1>5
    <3> QED
      BY <1>3, <1>5, <2>3, <3>1, NoBinders
  <2> QED
    BY <2>1, <2>2, <2>3
<1>7. ScopesOf(p)[nd.kids[i]] = Inside(ss, nd, i)
  BY <1>3, <1>4, <1>5, ScopesStep
<1>8. Inside(ss, nd, i) = After(ss, nd, i - 1) \o Fresh(NewScopes(nd, i))
  BY DEF Inside, Fresh
<1>9. ScopesAt(p, f) = After(ss, nd, d)
  BY <1>1, <1>2, <1>3, <1>4 DEF ScopesAt
<1>10. After(ss, nd, i - 1) = After(ss, nd, d)
  BY <1>6, SameAfter
<1> QED
  BY <1>1, <1>3, <1>7, <1>8, <1>9, <1>10

LEMMA ScopesAtType ==
  ASSUME NEW m, NEW ev, NEW f \in Frames(m, ev), NEW p \in Programs, f.n \in NodesOf(p), NEW s, s = ScopesAt(p, f)
  PROVE  s \in Seq(Decls) /\ s # <<>> /\ Len(s) \in Nat \ {0}
<1>1. PICK ss : ss = ScopesOf(p)[f.n]
  OBVIOUS
<1>2. PICK nd : nd = Nodes[f.n]
  OBVIOUS
<1>3. PICK d : d = Len(f.vs)
  OBVIOUS
<1>4. nd \in Node /\ d \in Nat
  <2>1. f.n \in NodeId /\ f.vs \in Seq(Value(m))
    BY ProgramNodes DEF Frames
  <2> QED
    BY <1>2, <1>3, <2>1, NodeType
<1>5. ss \in Seq(Decls) /\ ss # <<>>
  BY <1>1, ScopesType
<1>6. s = After(ss, nd, d)
  BY <1>1, <1>2, <1>3 DEF ScopesAt
<1> QED
  BY <1>4, <1>5, <1>6, AfterType
\* An answer changes no scope, unless it is a declaration's.
LEMMA AnsweredScopes ==
  ASSUME NEW m, NEW ev, NEW f \in Frames(m, ev), NEW p \in Programs, f.n \in NodesOf(p),
         NEW t, Awaits(f, t), Nodes[t.n].k # "VarDecl" \/ Branches(f),
         NEW g, g.n = f.n, Len(g.vs) = Len(f.vs) + 1
  PROVE  ScopesAt(p, g) = ScopesAt(p, f)
<1>1. PICK n : n = f.n
  OBVIOUS
<1>2. PICK d : d = Len(f.vs)
  OBVIOUS
<1>3. PICK nd : nd = Nodes[n]
  OBVIOUS
<1>4. PICK ss : ss = ScopesOf(p)[n]
  OBVIOUS
<1>5. n \in NodeId /\ d \in Nat /\ nd \in Node
  <2>1. n \in NodeId /\ f.vs \in Seq(Value(m)) /\ nd \in Node
    BY <1>1, <1>3, ProgramNodes, NodeType DEF Frames
  <2> QED
    BY <1>2, <2>1
<1>6. Binders(nd, d + 1) = Binders(nd, d)
  <2>1. CASE nd.k \notin {"Block", "For", "Func"}
    <3>1. d + 1 \in Nat
      BY <1>5
    <3> QED
      BY <1>3, <1>5, <2>1, <3>1, NoBinders
  <2>2. CASE nd.k \in {"Block", "Func"}
    <3>1. PICK i \in 1 .. Len(nd.kids) : ExecutesNow(f, i) /\ t.n = nd.kids[i]
      BY <1>1, <1>3, <2>2 DEF Awaits, EvaluatesNow
    <3>2. i = d + 1
      BY <1>1, <1>2, <1>3, <2>2, <3>1 DEF ExecutesNow
    <3>3. Nodes[nd.kids[d + 1]].k # "VarDecl"
      BY <1>1, <1>3, <2>2, <3>1, <3>2 DEF Branches
    <3>4. \A j \in Int : j <= d + 1 <=> j <= d \/ j = d + 1
      BY <1>5
    <3>5. DOMAIN nd.kids \subseteq Int
      BY <1>5, NodeParts
    <3> QED
      BY <3>3, <3>4, <3>5 DEF Binders
  <2>3. CASE nd.k = "For"
    <3>1. CASE d = 0
      <4>1. PICK i \in 1 .. Len(nd.kids) : ExecutesNow(f, i) /\ t.n = nd.kids[i]
        BY <1>1, <1>2, <1>3, <2>3, <3>1 DEF Awaits, EvaluatesNow
      <4>2. i = 1
        BY <1>1, <1>2, <1>3, <2>3, <3>1, <4>1 DEF ExecutesNow
      <4>3. Nodes[t.n].k = "VarDecl"
        BY <1>3, <1>5, <2>3, <4>1, <4>2, NodeType DEF Shape
      <4>4. ~Branches(f)
        BY <1>1, <1>2, <1>3, <2>3, <3>1 DEF Branches
      <4> QED
        BY <4>3, <4>4
    <3>2. CASE d # 0
      <4>1. d \in Nat \ {0} /\ d + 1 \in Nat \ {0}
        BY <1>5, <3>2
      <4> QED
        BY <1>3, <1>5, <2>3, <4>1, ForBinds
    <3> QED
      BY <3>1, <3>2
  <2> QED
    BY <2>1, <2>2, <2>3
<1>7. After(ss, nd, d + 1) = After(ss, nd, d)
  BY <1>6, SameAfter
<1>8. ScopesAt(p, f) = After(ss, nd, d) /\ ScopesAt(p, g) = After(ss, nd, d + 1)
  BY <1>1, <1>2, <1>3, <1>4 DEF ScopesAt
<1> QED
  BY <1>7, <1>8

\* A declaration's gives its name its declaration, in the innermost scope.
LEMMA DeclaredScopes ==
  ASSUME NEW m, NEW ev, NEW f \in Frames(m, ev), NEW p \in Programs, f.n \in NodesOf(p),
         NEW t, Awaits(f, t), Nodes[t.n].k = "VarDecl", ~Branches(f),
         NEW g, g.n = f.n, Len(g.vs) = Len(f.vs) + 1, NEW s, s = ScopesAt(p, f), NEW s2, s2 = ScopesAt(p, g)
  PROVE  /\ t.env = f.env /\ Nodes[f.n].k \in {"Block", "For", "Func"} /\ Len(s2) = Len(s)
         /\ \A l \in 1 .. Len(s) - 1 : s2[l] = s[l]
         /\ \A x \in Name : s2[Len(s)][x] = IF x = Nodes[t.n].name THEN t.n ELSE s[Len(s)][x]
<1>1. PICK n : n = f.n
  OBVIOUS
<1>2. PICK d : d = Len(f.vs)
  OBVIOUS
<1>3. PICK nd : nd = Nodes[n]
  OBVIOUS
<1>4. PICK ss : ss = ScopesOf(p)[n]
  OBVIOUS
<1>5. n \in NodeId /\ n \in NodesOf(p) /\ d \in Nat /\ nd \in Node /\ ss \in Seq(Decls) /\ ss # <<>>
  <2>1. n \in NodeId /\ f.vs \in Seq(Value(m)) /\ nd \in Node
    BY <1>1, <1>3, ProgramNodes, NodeType DEF Frames
  <2> QED
    BY <1>1, <1>2, <1>4, <2>1, ScopesType
<1>6. PICK i \in 1 .. Len(nd.kids) : /\ ExecutesNow(f, i) /\ t.n = nd.kids[i]
                                     /\ NewScopes(nd, i) = 0 => t.env = f.env
  BY <1>1, <1>3, KindsApart DEF Awaits
<1>7. i = d + 1 /\ nd.k \in {"Block", "For", "Func"} /\ ~Scoped(nd, i)
  <2>1. \/ nd.k \in {"Block", "Func"} /\ i = d + 1
        \/ nd.k = "For" /\ d = 0 /\ i = 1 /\ i = d + 1
    <3>1. nd.k # "If" /\ nd.k # "While" /\ ~(nd.k = "For" /\ d = 2)
      BY <1>1, <1>2, <1>3 DEF Branches
    <3>2. \/ nd.k \in {"Block", "Func"} /\ i = d + 1
          \/ nd.k = "If"
          \/ nd.k = "While"
          \/ nd.k = "For" /\ d = 0 /\ i = 1
          \/ nd.k = "For" /\ d = 2
      BY <1>1, <1>2, <1>3, <1>6 DEF ExecutesNow
    <3> QED
      BY <3>1, <3>2
  <2> QED
    BY <1>5, <2>1 DEF Scoped
<1>8. t.env = f.env
  BY <1>6, <1>7 DEF NewScopes
<1>9. /\ s = After(ss, nd, d) /\ s2 = After(ss, nd, d + 1)
  BY <1>1, <1>2, <1>3, <1>4 DEF ScopesAt
<1>10. PICK L : L = Len(ss)
  OBVIOUS
<1>11. /\ L \in Nat \ {0} /\ Len(s) = L /\ Len(s2) = L /\ d + 1 \in Nat
  BY <1>5, <1>9, <1>10, AfterType
<1>12. PICK b : b = ss[L]
  OBVIOUS
<1>13. b \in Decls
  BY <1>5, <1>10, <1>11, <1>12
<1>14. /\ s[L] = With(b, nd, d) /\ \A l \in 1 .. L : l # L => s[l] = ss[l]
  BY <1>5, <1>9, <1>10, <1>12, AfterAt
<1>15. /\ s2[L] = With(b, nd, d + 1) /\ \A l \in 1 .. L : l # L => s2[l] = ss[l]
  BY <1>5, <1>9, <1>10, <1>11, <1>12, AfterAt
<1>16. \A l \in 1 .. Len(s) - 1 : s2[l] = s[l]
  BY <1>11, <1>14, <1>15
<1>17. d + 1 <= Len(nd.kids)
  BY <1>5, <1>6, <1>7, NodeParts
<1>18. \A x \in Name : With(b, nd, d + 1)[x] = IF Nodes[t.n].name = x THEN t.n ELSE With(b, nd, d)[x]
  <2>1. Nodes[nd.kids[d + 1]].k = "VarDecl" /\ ~Scoped(nd, d + 1) /\ t.n = nd.kids[d + 1]
    BY <1>6, <1>7
  <2>2. \A x \in Name : With(b, nd, d + 1)[x] =
          IF Nodes[nd.kids[d + 1]].name = x THEN nd.kids[d + 1] ELSE With(b, nd, d)[x]
    BY <1>5, <1>13, <1>17, <2>1, WithNext
  <2> QED
    BY <2>1, <2>2
<1> QED
  BY <1>1, <1>3, <1>7, <1>8, <1>11, <1>14, <1>15, <1>16, <1>18

\* A repetition is in the scopes of the loop.
LEMMA ResetScopes ==
  ASSUME NEW m, NEW ev, NEW f \in Frames(m, ev), NEW p \in Programs, f.n \in NodesOf(p),
         NEW g, Len(g.vs) \in Nat, g.n = f.n, Nodes[f.n].k \in {"CompoundAssign", "While", "For"},
         Nodes[f.n].k = "For" => Len(g.vs) = 1 /\ Len(f.vs) > 3
  PROVE  ScopesAt(p, g) = ScopesAt(p, f)
<1>1. PICK n : n = f.n
  OBVIOUS
<1>2. PICK d : d = Len(f.vs)
  OBVIOUS
<1>3. PICK e : e = Len(g.vs)
  OBVIOUS
<1>4. n \in NodeId /\ d \in Nat /\ e \in Nat
  <2>1. n \in NodeId /\ f.vs \in Seq(Value(m))
    BY <1>1, ProgramNodes DEF Frames
  <2> QED
    BY <1>2, <1>3, <2>1
<1>5. Binders(Nodes[n], e) = Binders(Nodes[n], d)
  <2>1. CASE Nodes[n].k # "For"
    BY <1>1, <1>4, <2>1, NoBinders
  <2>2. CASE Nodes[n].k = "For"
    <3>1. e = 1 /\ d > 3
      BY <1>1, <1>2, <1>3, <2>2
    <3>2. d \in Nat \ {0} /\ e \in Nat \ {0}
      BY <1>4, <3>1
    <3> QED
      BY <1>4, <2>2, <3>2, ForBinds
  <2> QED
    BY <2>1, <2>2
<1> QED
  BY <1>1, <1>2, <1>3, <1>5, SameAfter DEF ScopesAt

\* An activation that begins is in the scopes of its node.
LEMMA FirstScopes ==
  ASSUME NEW p \in Programs, NEW n \in NodesOf(p), NEW f, f.n = n, Len(f.vs) = 0
  PROVE  ScopesAt(p, f) = ScopesOf(p)[n]
<1>1. n \in NodeId /\ Nodes[n] \in Node /\ 0 \in Nat
  BY ProgramNodes, NodeType
<1>2. PICK ss : ss = ScopesOf(p)[n]
  OBVIOUS
<1>3. PICK nd : nd = Nodes[n]
  OBVIOUS
<1>4. ss \in Seq(Decls) /\ ss # <<>> /\ nd \in Node /\ Binders(nd, 0) = {}
  BY <1>1, <1>2, <1>3, ScopesType, NoBinders
<1>5. After(ss, nd, 0) = ss
  BY <1>1, <1>4, AfterNothing
<1> QED
  BY <1>2, <1>3, <1>5 DEF ScopesAt
(***************************************************************************)
(* What the environments hold.                                             *)
(***************************************************************************)
\* What a scope chain holds depends on its own environments only, the globals aside.
LEMMA HoldsSame ==
  ASSUME NEW p, NEW es, NEW e, NEW ss, Holds(p, es, e, ss), NEW es2, es2[e].chain = es[e].chain,
         \A l \in 1 .. Len(ss) - 1 : \A x \in Name :
           es2[es[e].chain[l]].vars[x].d = es[es[e].chain[l]].vars[x].d
  PROVE  Holds(p, es2, e, ss)
<1>1. PICK c : c = es[e].chain
  OBVIOUS
<1>2. /\ Len(c) = Len(ss)
      /\ \A l \in 1 .. Len(ss) - 1 : \A x \in Name : es[c[l]].vars[x].d = ss[Len(ss) + 1 - l][x]
      /\ \A x \in Name : ss[1][x] # NoDecl => IsGlobal(p, ss[1][x], x)
  BY <1>1 DEF Holds
<1>3. es2[e].chain = c /\ \A l \in 1 .. Len(ss) - 1 : \A x \in Name : es2[c[l]].vars[x].d = es[c[l]].vars[x].d
  BY <1>1
<1> QED
  BY <1>2, <1>3 DEF Holds

LEMMA FreshAt ==
  ASSUME NEW w \in Nat, NEW b \in Seq(Decls), NEW a, a = b \o Fresh(w),
         NEW s \in Nat, s > Len(b), s <= Len(b) + w
  PROVE  a[s] = NoDecls
<1>1. PICK L : L = Len(b)
  OBVIOUS
<1>2. L \in Nat
  BY <1>1
<1>3. s \in 1 .. L + w
  BY <1>1, <1>2
<1>4. \A j \in 1 .. Len(b) + w : j > Len(b) => a[j] = NoDecls
  BY NoDeclsAt
<1> QED
  BY <1>1, <1>3, <1>4

\* A new scope holds nothing yet.
LEMMA HoldsChild ==
  ASSUME NEW p, NEW m, NEW es, Made(m, es), ChainsOf(es), NEW e \in 1 .. Len(es), NEW ss \in Seq(Decls), ss # <<>>,
         Holds(p, es, e, ss), NEW es2, es2 = Child(es, e)
  PROVE  Holds(p, es2, Len(es) + 1, ss \o Fresh(1))
<1>1. PICK c : c = es[e].chain
  OBVIOUS
<1>2. PICK a : a = ss \o Fresh(1)
  OBVIOUS
<1>3. PICK k : k = Len(es) + 1
  OBVIOUS
<1>4. PICK L : L = Len(ss)
  OBVIOUS
<1>5. PICK c2 : c2 = es2[k].chain
  OBVIOUS
<1>6. /\ Len(es2) = k /\ es2[k].vars = Empty /\ \A j \in 1 .. Len(es) : es2[j] = es[j]
      /\ Len(c2) = Len(c) + 1 /\ c2[1] = k /\ \A l \in 1 .. Len(c) : c2[l + 1] = c[l]
  BY <1>1, <1>3, <1>5, OneChild
<1>7. /\ Len(c) = L
      /\ \A l \in 1 .. L - 1 : \A x \in Name : es[c[l]].vars[x].d = ss[L + 1 - l][x]
      /\ \A x \in Name : ss[1][x] # NoDecl => IsGlobal(p, ss[1][x], x)
  BY <1>1, <1>4 DEF Holds
<1>8. L \in Nat \ {0} /\ Len(a) = L + 1 /\ (\A l \in 1 .. L : a[l] = ss[l]) /\ a[L + 1] = NoDecls
  <2>1. L \in Nat \ {0}
    BY <1>4
  <2>2. L + 1 \in Nat /\ L + 1 > L /\ L + 1 <= L + 1
    BY <2>1
  <2>3. a[L + 1] = NoDecls
    BY <1>2, <1>4, <2>2, FreshAt
  <2>4. Len(a) = L + 1
    BY <1>2, <1>4, NoDeclsMore
  <2>5. \A l \in 1 .. L : a[l] = ss[l]
    BY <1>2, <1>4, NoDeclsAt
  <2> QED
    BY <2>1, <2>3, <2>4, <2>5
<1>9. \A l \in 1 .. L : c[l] \in 1 .. Len(es)
  BY <1>1, <1>7, ChainParts
<1>10. ASSUME NEW l \in 1 .. Len(a) - 1, NEW x \in Name PROVE es2[c2[l]].vars[x].d = a[Len(a) + 1 - l][x]
  <2>1. CASE l = 1
    <3>1. es2[c2[l]].vars[x].d = 0
      BY <1>6, <2>1 DEF Empty, Unbound
    <3>2. Len(a) + 1 - l = L + 1
      BY <1>8, <2>1
    <3> QED
      BY <1>8, <3>1, <3>2 DEF NoDecls, NoDecl
  <2>2. CASE l # 1
    <3>1. PICK j : j = l - 1
      OBVIOUS
    <3>2. j \in 1 .. L - 1 /\ j \in 1 .. L /\ l = j + 1 /\ Len(a) + 1 - l = L + 1 - j /\ L + 1 - j \in 1 .. L
      BY <1>8, <2>2, <3>1
    <3>3. c2[l] = c[j] /\ es2[c[j]] = es[c[j]]
      BY <1>6, <1>7, <1>9, <3>2
    <3>4. a[Len(a) + 1 - l] = ss[L + 1 - j]
      BY <1>8, <3>2
    <3> QED
      BY <1>7, <3>2, <3>3, <3>4
  <2> QED
    BY <2>1, <2>2
<1>11. a[1] = ss[1]
  BY <1>8
<1>12. Len(c2) = Len(a)
  BY <1>6, <1>7, <1>8
<1>13. Holds(p, es2, k, a)
  BY <1>5, <1>7, <1>10, <1>11, <1>12 DEF Holds
<1> QED
  BY <1>2, <1>3, <1>13

LEMMA FreshTwice ==
  ASSUME NEW b \in Seq(Decls) PROVE (b \o Fresh(1)) \o Fresh(1) = b \o Fresh(2) /\ b \o Fresh(0) = b
<1>1. PICK a : a = b \o Fresh(1)
  OBVIOUS
<1>2. PICK a2 : a2 = a \o Fresh(1)
  OBVIOUS
<1>3. PICK d : d = b \o Fresh(2)
  OBVIOUS
<1>4. PICK L : L = Len(b)
  OBVIOUS
<1>5. L \in Nat
  BY <1>4
<1>6. a \in Seq(Decls) /\ Len(a) = L + 1
  BY <1>1, <1>4, NoDeclsMore
<1>7. a2 \in Seq(Decls) /\ Len(a2) = L + 2
  <2>1. a2 \in Seq(Decls) /\ Len(a2) = Len(a) + 1
    BY <1>2, <1>6, NoDeclsMore
  <2> QED
    BY <1>5, <1>6, <2>1
<1>8. d \in Seq(Decls) /\ Len(d) = L + 2
  BY <1>3, <1>4, NoDeclsMore
<1>9. ASSUME NEW j \in 1 .. L + 2 PROVE a2[j] = d[j]
  <2>1. CASE j \in 1 .. L
    <3>1. j \in 1 .. Len(a)
      BY <1>5, <1>6, <2>1
    <3>2. a2[j] = a[j]
      BY <1>2, <1>6, <3>1, NoDeclsAt
    <3>3. a[j] = b[j] /\ d[j] = b[j]
      BY <1>1, <1>3, <1>4, <2>1, NoDeclsAt
    <3> QED
      BY <3>2, <3>3
  <2>2. CASE j = L + 1
    <3>1. j \in 1 .. Len(a) /\ j \in Nat /\ j <= Len(b) + 1 /\ j > Len(b) /\ j <= Len(b) + 2
      BY <1>4, <1>5, <1>6, <2>2
    <3>2. a2[j] = a[j]
      BY <1>2, <1>6, <3>1, NoDeclsAt
    <3>3. a[j] = NoDecls
      BY <1>1, <3>1, FreshAt
    <3>4. d[j] = NoDecls
      BY <1>3, <3>1, FreshAt
    <3> QED
      BY <3>2, <3>3, <3>4
  <2>3. CASE j = L + 2
    <3>1. j \in Nat /\ j <= Len(a) + 1 /\ j > Len(a) /\ j > Len(b) /\ j <= Len(b) + 2
      BY <1>4, <1>5, <1>6, <2>3
    <3>2. a2[j] = NoDecls
      BY <1>2, <1>6, <3>1, FreshAt
    <3>3. d[j] = NoDecls
      BY <1>3, <3>1, FreshAt
    <3> QED
      BY <3>2, <3>3
  <2> QED
    BY <1>5, <2>1, <2>2, <2>3
<1>10. a2 = d
  BY <1>5, <1>7, <1>8, <1>9
<1>11. b \o Fresh(0) = b
  <2>1. Fresh(0) = <<>>
    <3>1. 1 .. 0 = {}
      OBVIOUS
    <3> QED
      BY <3>1 DEF Fresh
  <2> QED
    BY <2>1
<1> QED
  BY <1>1, <1>2, <1>3, <1>10, <1>11

\* However many scopes are new.
LEMMA HoldsGrown ==
  ASSUME NEW p, NEW m, NEW es, Made(m, es), ChainsOf(es), NEW e \in 1 .. Len(es), NEW ss \in Seq(Decls), ss # <<>>,
         Holds(p, es, e, ss), NEW w, NEW es2, Grown(es, es2, e, w)
  PROVE  Holds(p, es2, IF w = 0 THEN e ELSE Len(es) + w, ss \o Fresh(w))
<1>1. CASE w = 0 /\ es2 = es
  <2>1. ss \o Fresh(w) = ss
    BY <1>1, FreshTwice
  <2> QED
    BY <1>1, <2>1
<1>2. CASE w = 1 /\ es2 = Child(es, e)
  <2>1. Holds(p, es2, Len(es) + 1, ss \o Fresh(1))
    BY <1>2, HoldsChild
  <2> QED
    BY <1>2, <2>1
<1>3. CASE w = 2 /\ es2 = Child(Child(es, e), Len(es) + 1)
  <2>1. PICK es1 : es1 = Child(es, e)
    OBVIOUS
  <2>2. PICK k : k = Len(es) + 1
    OBVIOUS
  <2>3. PICK a : a = ss \o Fresh(1)
    OBVIOUS
  <2>4. Holds(p, es1, k, a)
    BY <2>1, <2>2, <2>3, HoldsChild
  <2>5. Made(m, es1) /\ ChainsOf(es1) /\ Len(es1) = k
    BY <2>1, <2>2, OneChild
  <2>6. k \in 1 .. Len(es1) /\ k + 1 = Len(es) + 2
    BY <2>2, <2>5 DEF Made
  <2>7. a \in Seq(Decls) /\ a # <<>>
    <3>1. a \in Seq(Decls) /\ Len(a) = Len(ss) + 1
      BY <2>3, NoDeclsMore
    <3> QED
      BY <3>1
  <2>8. Holds(p, es2, Len(es1) + 1, a \o Fresh(1))
    BY <1>3, <2>1, <2>2, <2>4, <2>5, <2>6, <2>7, HoldsChild
  <2>9. a \o Fresh(1) = ss \o Fresh(2)
    BY <2>3, FreshTwice
  <2>10. Holds(p, es2, Len(es) + 2, ss \o Fresh(2))
    BY <2>5, <2>6, <2>8, <2>9
  <2>11. (IF w = 0 THEN e ELSE Len(es) + w) = Len(es) + 2
    BY <1>3
  <2> QED
    BY <1>3, <2>10, <2>11
<1> QED
  BY <1>1, <1>2, <1>3 DEF Grown
\* The last declaration of a name is the last that there is of it.
LEMMA LastOfIs ==
  ASSUME NEW m \in Nat, NEW I, I \subseteq 1 .. m, NEW ds, NEW x
  PROVE  /\ \A i \in I : /\ Nodes[ds[i]].name = x
                         /\ \A j \in I : Nodes[ds[j]].name = x => j <= i
                         => LastOf(ds, I, x) = ds[i]
         /\ \/ LastOf(ds, I, x) = NoDecl /\ \A i \in I : Nodes[ds[i]].name # x
            \/ \E i \in I : /\ Nodes[ds[i]].name = x /\ LastOf(ds, I, x) = ds[i]
                            /\ \A j \in I : Nodes[ds[j]].name = x => j <= i
<1> DEFINE named == {i \in I : Nodes[ds[i]].name = x}
<1>1. ASSUME named # {} PROVE \E i \in named : \A j \in named : j <= i
  <2>1. named \subseteq 1 .. m
    OBVIOUS
  <2> HIDE DEF named
  <2> QED
    BY <1>1, <2>1, Greatest
<1>2. LastOf(ds, I, x) = IF named = {} THEN NoDecl ELSE ds[CHOOSE i \in named : \A j \in named : j <= i]
  BY DEF LastOf
<1>3. ASSUME NEW i \in named, \A j \in named : j <= i PROVE LastOf(ds, I, x) = ds[i]
  <2>1. PICK k : k = CHOOSE q \in named : \A j \in named : j <= q
    OBVIOUS
  <2>2. k \in named /\ \A j \in named : j <= k
    BY <1>3, <2>1
  <2>3. k = i
    <3>1. k \in Nat /\ i \in Nat /\ k <= i /\ i <= k
      BY <1>3, <2>2
    <3> QED
      BY <3>1
  <2> QED
    BY <1>2, <1>3, <2>1, <2>3
<1>4. CASE named = {}
  BY <1>2, <1>3, <1>4
<1>5. CASE named # {}
  BY <1>1, <1>3, <1>5
<1> QED
  BY <1>4, <1>5

LEMMA GlobalsAreGlobal ==
  ASSUME NEW p \in Programs, NEW i \in 1 .. Len(p), NEW x \in Name, GlobalsAt(p, i)[x] # NoDecl
  PROVE  IsGlobal(p, GlobalsAt(p, i)[x], x)
<1>1. DOMAIN p = 1 .. Len(p) /\ Len(p) \in Nat
  BY ProgramNodes
<1>2. Vars(p, i) \subseteq 1 .. Len(p) /\ \A j \in Vars(p, i) : Nodes[p[j]].k = "VarDecl"
  BY <1>1 DEF Vars
<1>3. GlobalsAt(p, i)[x] = LastOf(p, Vars(p, i), x)
  BY DEF GlobalsAt
<1>4. PICK j \in Vars(p, i) : Nodes[p[j]].name = x /\ LastOf(p, Vars(p, i), x) = p[j]
  BY <1>1, <1>2, <1>3, LastOfIs
<1> QED
  BY <1>2, <1>3, <1>4 DEF IsGlobal

\* The globals' environment is the whole of its chain.
LEMMA GlobalChain ==
  ASSUME NEW m, NEW es, Made(m, es), es # <<>>, ChainsOf(es), NEW c, c = es[Globals].chain
  PROVE  Len(c) = 1
<1>1. Globals \in 1 .. Len(es)
  BY DEF Made, Globals
<1>2. c # <<>> /\ \A l \in 2 .. Len(c) : c[l] < Globals
  BY <1>1 DEF ChainsOf
<1>3. Len(c) \in Nat /\ \A l \in 1 .. Len(c) : c[l] \in 1 .. Len(es)
  BY <1>1, ChainParts
<1>4. Len(c) # 0
  BY <1>1, <1>2, ChainParts
<1>5. ASSUME Len(c) >= 2 PROVE FALSE
  <2>1. 2 \in 2 .. Len(c) /\ 2 \in 1 .. Len(c)
    BY <1>3, <1>5
  <2>2. c[2] < 1 /\ c[2] \in 1 .. Len(es)
    BY <1>2, <1>3, <2>1 DEF Globals
  <2> QED
    BY <2>2
<1>6. PICK L : L = Len(c)
  OBVIOUS
<1>7. L \in Nat /\ L # 0 /\ ~(L >= 2)
  BY <1>3, <1>4, <1>5, <1>6
<1>8. L = 1
  BY <1>7
<1> QED
  BY <1>6, <1>8

\* Of the globals no more is said than that they are declared.
LEMMA StartHolds ==
  ASSUME NEW p \in Programs, NEW i \in 1 .. Len(p), Nodes[p[i]].k = "VarDecl",
         NEW m, NEW es, Made(m, es), es # <<>>, ChainsOf(es)
  PROVE  Holds(p, es, Globals, ScopesOf(p)[p[i]])
<1>1. PICK c : c = es[Globals].chain
  OBVIOUS
<1>2. PICK g : g = GlobalsAt(p, i)
  OBVIOUS
<1>3. ScopesOf(p)[p[i]] = <<g>>
  BY <1>2, ScopesStep DEF DeclScopes
<1>4. Len(c) = 1
  BY <1>1, GlobalChain
<1>5. \A x \in Name : g[x] # NoDecl => IsGlobal(p, g[x], x)
  BY <1>2, GlobalsAreGlobal
<1>6. Len(<<g>>) = 1 /\ <<g>>[1] = g /\ 1 .. 1 - 1 = {}
  OBVIOUS
<1> QED
  BY <1>1, <1>3, <1>4, <1>5, <1>6 DEF Holds

\* A call binds each parameter, and nothing else, to its declaration.
LEMMA BindHolds ==
  ASSUME NEW ps \in Seq(NodeId), NEW S, NEW args \in Seq(S), Len(args) = Len(ps), NEW nd, nd.params = ps, NEW x \in Name
  PROVE  Bind(ps, args)[x].d = ParamScope(nd)[x]
<1>1. DOMAIN ps \cap DOMAIN args = 1 .. Len(ps) /\ DOMAIN ps = 1 .. Len(ps) /\ Len(ps) \in Nat
  OBVIOUS
<1>2. ParamScope(nd)[x] = LastOf(ps, 1 .. Len(ps), x)
  BY <1>1 DEF ParamScope
<1>3. ArgOf(ps, args, x) = {i \in 1 .. Len(ps) : /\ Nodes[ps[i]].name = x
                                                 /\ \A j \in 1 .. Len(ps) : Nodes[ps[j]].name = x => j <= i}
  BY <1>1 DEF ArgOf
<1>4. Bind(ps, args)[x] = IF ArgOf(ps, args, x) = {} THEN Unbound
                          ELSE [v |-> args[CHOOSE i \in ArgOf(ps, args, x) : TRUE],
                                d |-> ps[CHOOSE i \in ArgOf(ps, args, x) : TRUE]]
  BY DEF Bind
<1>5. CASE ArgOf(ps, args, x) = {}
  <2>1. LastOf(ps, 1 .. Len(ps), x) = NoDecl
    BY <1>1, <1>3, <1>5, LastOfIs
  <2> QED
    BY <1>2, <1>4, <1>5, <2>1 DEF Unbound, NoDecl
<1>6. CASE ArgOf(ps, args, x) # {}
  <2>1. PICK i : i = CHOOSE q \in ArgOf(ps, args, x) : TRUE
    OBVIOUS
  <2>2. i \in ArgOf(ps, args, x)
    BY <1>6, <2>1
  <2>3. LastOf(ps, 1 .. Len(ps), x) = ps[i]
    BY <1>1, <1>3, <2>2, LastOfIs
  <2>4. Bind(ps, args)[x].d = ps[i]
    BY <1>4, <1>6, <2>1
  <2> QED
    BY <1>2, <2>3, <2>4
<1> QED
  BY <1>5, <1>6

\* A call's scopes are its parameters', in the globals.
LEMMA CallHolds ==
  ASSUME TypeOK, ChainsOf(envs), NEW i \in 1 .. Len(prog), Nodes[prog[i]].k = "Func",
         NEW S, NEW args \in Seq(S), Len(args) = Len(Nodes[prog[i]].params),
         NEW es2, es2 = Called(Bind(Nodes[prog[i]].params, args))
  PROVE  Holds(prog, es2, Len(envs) + 1, ScopesOf(prog)[prog[i]])
<1>1. PICK p : p = prog
  OBVIOUS
<1>2. PICK k : k = Len(envs) + 1
  OBVIOUS
<1>3. PICK c2 : c2 = es2[k].chain
  OBVIOUS
<1>4. PICK nd : nd = Nodes[p[i]]
  OBVIOUS
<1>5. p \in Programs /\ i \in 1 .. Len(p)
  BY <1>1 DEF TypeOK
<1>6. nd.params \in Seq(NodeId)
  BY <1>4, <1>5, ProgramNodes, NodeType
<1>7. PICK b : b = Bind(nd.params, args)
  OBVIOUS
<1>8. \A x \in Name : b[x].d = ParamScope(nd)[x]
  BY <1>1, <1>4, <1>6, <1>7, BindHolds
<1>9. es2 = Called(b)
  BY <1>1, <1>4, <1>7
<1>10. envs # <<>> /\ Made(Len(heap), envs)
  BY EnvsMade DEF TypeOK
<1>11. Len(envs[Globals].chain) = 1
  BY <1>10, GlobalChain
<1>12. es2[k].vars = b /\ Len(c2) = 2 /\ c2[1] = k
  BY <1>2, <1>3, <1>9, <1>11, CallScope
<1>13. PICK g : g = GlobalsAt(p, i)
  OBVIOUS
<1>14. PICK q : q = ParamScope(nd)
  OBVIOUS
<1>15. ScopesOf(p)[p[i]] = <<g, q>>
  BY <1>1, <1>4, <1>5, <1>13, <1>14, ScopesStep DEF DeclScopes
<1>16. \A x \in Name : g[x] # NoDecl => IsGlobal(p, g[x], x)
  BY <1>5, <1>13, GlobalsAreGlobal
<1>17. Len(<<g, q>>) = 2 /\ <<g, q>>[1] = g /\ <<g, q>>[2] = q
  OBVIOUS
<1>18. \A l \in 1 .. 2 - 1 : l = 1 /\ 2 + 1 - l = 2
  OBVIOUS
<1>19. \A l \in 1 .. Len(<<g, q>>) - 1 : \A x \in Name :
         es2[c2[l]].vars[x].d = <<g, q>>[Len(<<g, q>>) + 1 - l][x]
  BY <1>8, <1>12, <1>14, <1>17, <1>18
<1>20. Holds(p, es2, k, <<g, q>>)
  BY <1>3, <1>12, <1>16, <1>17, <1>19 DEF Holds
<1> QED
  BY <1>1, <1>2, <1>15, <1>20

\* Whatever is asked for is in the scopes of who asks.
LEMMA PartScopes ==
  ASSUME TypeOK, StackOf(prog, stack), stack # <<>>, EvaluatesNow(Top), NEW n \in ExprNode, PartOf(Top.n, n)
  PROVE  n \in NodesOf(prog) /\ ScopesOf(prog)[n] = ScopesAt(prog, Top)
<1>1. PICK p : p = prog
  OBVIOUS
<1>2. PICK f : f = Top
  OBVIOUS
<1>3. PICK m : m = Len(heap)
  OBVIOUS
<1>4. PICK ev : ev = Len(envs)
  OBVIOUS
<1>5. /\ p \in Programs /\ f \in Frames(m, ev) /\ f.n \in NodesOf(p) /\ f.n \in NodeId /\ n \in NodesOf(p)
      /\ EvaluatesNow(f) /\ PartOf(f.n, n) /\ Nodes[n].k \in ExprKind
  BY <1>1, <1>2, <1>3, <1>4, TopIn, TopType DEF ExprNode
<1>6. CASE \E i \in 1 .. Len(Nodes[f.n].kids) : n = Nodes[f.n].kids[i]
  BY <1>1, <1>2, <1>5, <1>6, AskedScopes
<1>7. CASE /\ Nodes[f.n].k \in {"Assign", "CompoundAssign", "IncDec"} /\ Nodes[Nodes[f.n].kids[1]].k = "Index"
           /\ \E i \in 1 .. Len(Nodes[Nodes[f.n].kids[1]].kids) : n = Nodes[Nodes[f.n].kids[1]].kids[i]
  <2>1. PICK t : t = Nodes[f.n].kids[1]
    OBVIOUS
  <2>2. PICK i \in 1 .. Len(Nodes[t].kids) : n = Nodes[t].kids[i]
    BY <1>7, <2>1
  <2>3. 1 \in 1 .. Len(Nodes[f.n].kids)
    <3>1. PICK k : k = Len(Nodes[f.n].kids)
      OBVIOUS
    <3>2. k \in {1, 2}
      BY <1>5, <1>7, <3>1, KidCounts
    <3>3. 1 \in 1 .. k
      BY <3>2
    <3> QED
      BY <3>1, <3>3
  <2>4. "Index" \in ExprKind /\ Nodes[t].k = "Index"
    BY <1>7, <2>1 DEF ExprKind
  <2>5. ScopesOf(p)[t] = ScopesAt(p, f)
    BY <1>5, <2>1, <2>3, <2>4, AskedScopes
  <2>6. t \in NodesOf(p) /\ t \in NodeId
    BY <1>5, <2>1, <2>3, ProgramNodes
  <2>7. PICK f2 : f2 = [n |-> t, env |-> f.env, vs |-> <<>>]
    OBVIOUS
  <2>8. f2.n = t /\ Len(f2.vs) = 0 /\ f2 \in Frames(m, ev)
    BY <1>5, <2>6, <2>7 DEF Frames
  <2>9. EvaluatesNow(f2)
    BY <2>4, <2>8 DEF EvaluatesNow
  <2>10. ScopesAt(p, f2) = ScopesOf(p)[t]
    BY <1>5, <2>6, <2>8, FirstScopes
  <2>11. ScopesOf(p)[n] = ScopesAt(p, f2)
    BY <1>5, <2>2, <2>6, <2>8, <2>9, AskedScopes
  <2> QED
    BY <1>1, <1>2, <1>5, <2>5, <2>10, <2>11
<1> QED
  BY <1>5, <1>6, <1>7 DEF PartOf
(***************************************************************************)
(* The steps keep what the environments hold.                              *)
(***************************************************************************)
LEMMA OldHolds ==
  ASSUME NEW p, NEW m, NEW es, Made(m, es), NEW e \in 1 .. Len(es), NEW ss, Holds(p, es, e, ss), NEW es2,
         es2[e].chain = es[e].chain,
         \A i \in Sees(es, e) : \A x \in Name : es2[i].vars[x].d = es[i].vars[x].d
  PROVE  Holds(p, es2, e, ss)
<1>1. PICK c : c = es[e].chain
  OBVIOUS
<1>2. Len(c) = Len(ss) /\ Len(c) \in Nat /\ DOMAIN c = 1 .. Len(c)
  BY <1>1, ChainParts DEF Holds
<1>3. PICK L : L = Len(c)
  OBVIOUS
<1>4. \A l \in 1 .. L - 1 : l \in 1 .. L
  BY <1>2, <1>3
<1>5. \A l \in 1 .. Len(ss) - 1 : c[l] \in Sees(es, e)
  BY <1>1, <1>2, <1>3, <1>4 DEF Sees
<1> QED
  BY <1>1, <1>5, HoldsSame

LEMMA StackAt ==
  ASSUME TypeOK, NEW j \in 1 .. Len(stack)
  PROVE  stack[j] \in Frames(Len(heap), Len(envs)) /\ stack[j].env \in 1 .. Len(envs)
<1>1. stack[j] \in Frames(Len(heap), Len(envs))
  BY TypeParts
<1> QED
  BY <1>1 DEF Frames

LEMMA NamesLess ==
  ASSUME TypeOK, NamesOf(prog, envs, stack), SameNames, Len(stack') \in Nat, Len(stack') <= Len(stack),
         \A j \in 1 .. Len(stack') : /\ stack'[j].env = stack[j].env
                                     /\ ScopesAt(prog, stack'[j]) = ScopesAt(prog, stack[j])
  PROVE  NamesOf(prog, envs', stack')
<1>1. PICK es : es = envs'
  OBVIOUS
<1>2. /\ Made(Len(heap), envs) /\ Globals \in 1 .. Len(envs)
      /\ \A i \in 1 .. Len(envs) : /\ es[i].chain = envs[i].chain
                                   /\ \A x \in Name : es[i].vars[x].d = envs[i].vars[x].d
  BY <1>1, EnvsMade, TypeParts DEF SameNames
<1>3. \A e \in 1 .. Len(envs) : \A i \in Sees(envs, e) : i \in 1 .. Len(envs)
  BY <1>2, ChainParts DEF Sees
<1>4. ASSUME NEW j \in 1 .. Len(stack') PROVE Holds(prog, es, stack'[j].env, ScopesAt(prog, stack'[j]))
  <2>1. j \in 1 .. Len(stack)
    <3>1. Len(stack) \in Nat
      BY TypeParts
    <3> QED
      BY <3>1
  <2>2. PICK e : e = stack[j].env
    OBVIOUS
  <2>3. PICK ss : ss = ScopesAt(prog, stack[j])
    OBVIOUS
  <2>4. Holds(prog, envs, e, ss) /\ stack'[j].env = e /\ ScopesAt(prog, stack'[j]) = ss
    BY <2>1, <2>2, <2>3 DEF NamesOf
  <2>5. e \in 1 .. Len(envs)
    BY <2>1, <2>2, StackAt
  <2>6. Holds(prog, es, e, ss)
    BY <1>2, <1>3, <2>4, <2>5, OldHolds
  <2> QED
    BY <2>4, <2>6
<1>5. \A x \in Name : es[Globals].vars[x].d # 0 => IsGlobal(prog, es[Globals].vars[x].d, x)
  BY <1>2 DEF NamesOf
<1> QED
  BY <1>1, <1>4, <1>5 DEF NamesOf

LEMMA NamesMore ==
  ASSUME TypeOK, NamesOf(prog, envs, stack), \A j \in 1 .. Len(envs) : envs'[j] = envs[j],
         NEW n \in NodesOf(prog), NEW e, stack' = Push(n, e), Holds(prog, envs', e, ScopesOf(prog)[n])
  PROVE  NamesOf(prog, envs', stack')
<1>1. PICK es : es = envs'
  OBVIOUS
<1>2. PICK L : L = Len(stack)
  OBVIOUS
<1>3. /\ Made(Len(heap), envs) /\ Globals \in 1 .. Len(envs) /\ L \in Nat /\ prog \in Programs
      /\ \A i \in 1 .. Len(envs) : es[i] = envs[i]
  BY <1>1, <1>2, EnvsMade, TypeParts DEF TypeOK
<1>4. \A i \in 1 .. Len(envs) : \A k \in Sees(envs, i) : k \in 1 .. Len(envs)
  BY <1>3, ChainParts DEF Sees
<1>5. Len(stack') = L + 1 /\ stack'[L + 1] = Frame(n, e) /\ \A j \in 1 .. L : stack'[j] = stack[j]
  BY <1>2, Pushed
<1>6. ASSUME NEW j \in 1 .. Len(stack') PROVE Holds(prog, es, stack'[j].env, ScopesAt(prog, stack'[j]))
  <2>1. CASE j \in 1 .. L
    <3>1. PICK e2 : e2 = stack[j].env
      OBVIOUS
    <3>2. PICK ss : ss = ScopesAt(prog, stack[j])
      OBVIOUS
    <3>3. Holds(prog, envs, e2, ss) /\ stack'[j].env = e2 /\ ScopesAt(prog, stack'[j]) = ss
      BY <1>2, <1>5, <2>1, <3>1, <3>2 DEF NamesOf
    <3>4. e2 \in 1 .. Len(envs)
      BY <1>2, <2>1, <3>1, StackAt
    <3>5. Holds(prog, es, e2, ss)
      BY <1>3, <1>4, <3>3, <3>4, OldHolds
    <3> QED
      BY <3>3, <3>5
  <2>2. CASE j = L + 1
    <3>1. PICK f : f = Frame(n, e)
      OBVIOUS
    <3>2. f.n = n /\ f.env = e /\ Len(f.vs) = 0
      BY <3>1, FrameParts
    <3>3. ScopesAt(prog, f) = ScopesOf(prog)[n]
      BY <1>3, <3>2, FirstScopes
    <3>4. stack'[j] = f
      BY <1>5, <2>2, <3>1
    <3>5. PICK g : g = stack'[j]
      OBVIOUS
    <3>6. Holds(prog, es, g.env, ScopesAt(prog, g))
      BY <1>1, <3>2, <3>3, <3>4, <3>5
    <3> QED
      BY <3>5, <3>6
  <2> QED
    BY <1>3, <1>5, <2>1, <2>2
<1>7. \A x \in Name : es[Globals].vars[x].d # 0 => IsGlobal(prog, es[Globals].vars[x].d, x)
  BY <1>3 DEF NamesOf
<1> QED
  BY <1>1, <1>6, <1>7 DEF NamesOf

\* Who waited for the top activation goes on in the scopes it was in, unless that was a
\* declaration.
LEMMA NamesAnswered ==
  ASSUME TypeOK, StackOf(prog, stack), NamesOf(prog, envs, stack), SameNames, stack # <<>>, NEW v, stack' = Popped(v),
         Here.k # "VarDecl"
  PROVE  NamesOf(prog, envs', stack')
<1>1. PICK p : p = prog
  OBVIOUS
<1>2. PICK L : L = Len(stack)
  OBVIOUS
<1>3. PICK m : m = Len(heap)
  OBVIOUS
<1>4. PICK ev : ev = Len(envs)
  OBVIOUS
<1>5. PICK F : F = Frames(m, ev)
  OBVIOUS
<1>6. /\ L \in Nat \ {0} /\ Len(stack') = L - 1 /\ \A j \in 1 .. L - 2 : stack'[j] = stack[j]
      /\ \A j \in 1 .. L - 1 : stack'[j].n = stack[j].n /\ stack'[j].env = stack[j].env
      /\ L > 1 => stack'[L - 1].vs = Append(stack[L - 1].vs, v)
  BY <1>2, Answered
<1>7. stack \in Seq(F) /\ p \in Programs /\ \A j \in 1 .. L : stack[j] \in F /\ stack[j].n \in NodesOf(p)
  BY <1>1, <1>2, <1>3, <1>4, <1>5, TypeParts DEF TypeOK, StackOf, InProgram
<1>8. ASSUME L > 1 PROVE ScopesAt(prog, stack'[L - 1]) = ScopesAt(prog, stack[L - 1])
  <2>1. PICK f : f = stack[L - 1]
    OBVIOUS
  <2>2. PICK t : t = Top
    OBVIOUS
  <2>3. PICK g : g = stack'[L - 1]
    OBVIOUS
  <2>4. L - 1 \in 1 .. L - 1 /\ L - 1 \in 1 .. L /\ (L - 1) + 1 = L
    BY <1>6, <1>8
  <2>5. f \in Frames(m, ev) /\ f.n \in NodesOf(p) /\ g.n = f.n
    BY <1>5, <1>6, <1>7, <2>1, <2>3, <2>4
  <2>6. Awaits(f, t)
    BY <1>2, <2>1, <2>2, <2>4 DEF StackOf, Waiting, Top
  <2>7. Len(g.vs) = Len(f.vs) + 1
    <3>1. f.vs \in Seq(Value(m))
      BY <2>5 DEF Frames
    <3>2. g.vs = Append(f.vs, v)
      BY <1>6, <1>8, <2>1, <2>3
    <3> QED
      BY <3>1, <3>2
  <2>8. Nodes[t.n].k # "VarDecl"
    BY <2>2 DEF Here
  <2>9. ScopesAt(p, g) = ScopesAt(p, f)
    BY <1>7, <2>5, <2>6, <2>7, <2>8, AnsweredScopes
  <2> QED
    BY <1>1, <2>1, <2>3, <2>9
<1>9. Len(stack') \in Nat /\ Len(stack') <= Len(stack)
  BY <1>2, <1>6
<1>10. ASSUME NEW j \in 1 .. Len(stack')
       PROVE  stack'[j].env = stack[j].env /\ ScopesAt(prog, stack'[j]) = ScopesAt(prog, stack[j])
  <2>1. j \in 1 .. L - 1
    BY <1>6
  <2>2. CASE j = L - 1
    BY <1>6, <1>8, <2>1, <2>2
  <2>3. CASE j # L - 1
    <3>1. j \in 1 .. L - 2
      BY <1>6, <2>1, <2>3
    <3> QED
      BY <1>6, <2>1, <3>1
  <2> QED
    BY <2>2, <2>3
<1> QED
  BY <1>9, <1>10, NamesLess
\* Declaration d of name y is made in environment e, and in the scopes s.
MadeIn(es, es2, e, y, d) ==
  /\ es2[e].chain = es[e].chain /\ \A i \in 1 .. Len(es) : i # e => es2[i] = es[i]
  /\ \A x \in Name : es2[e].vars[x].d = IF x = y THEN d ELSE es[e].vars[x].d
ReadIn(s, s2, y, d) ==
  /\ Len(s2) = Len(s) /\ \A l \in 1 .. Len(s) - 1 : s2[l] = s[l]
  /\ \A x \in Name : s2[Len(s)][x] = IF x = y THEN d ELSE s[Len(s)][x]

\* A declaration is held where it was made.
LEMMA HoldsDeclared ==
  ASSUME NEW p, NEW m, NEW es, Made(m, es), ChainsOf(es), NEW e \in 1 .. Len(es), e # Globals,
         NEW s \in Seq(Decls), s # <<>>, Holds(p, es, e, s), NEW es2, NEW s2, NEW y, NEW d,
         MadeIn(es, es2, e, y, d), ReadIn(s, s2, y, d)
  PROVE  Holds(p, es2, e, s2)
<1> USE DEF MadeIn, ReadIn
<1>1. PICK c : c = es[e].chain
  OBVIOUS
<1>2. PICK L : L = Len(s)
  OBVIOUS
<1>3. /\ Len(c) = L /\ \A l \in 1 .. L - 1 : \A x \in Name : es[c[l]].vars[x].d = s[L + 1 - l][x]
      /\ \A x \in Name : s[1][x] # NoDecl => IsGlobal(p, s[1][x], x)
  BY <1>1, <1>2 DEF Holds
<1>4. L \in Nat \ {0}
  BY <1>2
<1>5. c[1] = e /\ c[L] = Globals /\ \A l \in 2 .. L : c[l] < e
  BY <1>1, <1>3 DEF ChainsOf
<1>6. L # 1
  BY <1>5
<1>7. \A l \in 1 .. L : c[l] \in 1 .. Len(es)
  BY <1>1, <1>3, ChainParts
<1>8. 1 \in 1 .. L - 1 /\ L - 1 \in Nat
  BY <1>4, <1>6
<1>9. s2[1] = s[1] /\ Len(s2) = L
  BY <1>2, <1>8
<1>10. ASSUME NEW l \in 1 .. L - 1, NEW x \in Name PROVE es2[c[l]].vars[x].d = s2[L + 1 - l][x]
  <2>1. CASE l = 1
    <3>1. L + 1 - l = L
      BY <1>4, <2>1
    <3>2. es[e].vars[x].d = s[L][x]
      BY <1>3, <1>5, <2>1, <3>1
    <3>3. s2[L][x] = IF x = y THEN d ELSE s[L][x]
      BY <1>2
    <3> QED
      BY <1>5, <2>1, <3>1, <3>2, <3>3
  <2>2. CASE l # 1
    <3>1. l \in 2 .. L /\ l \in 1 .. L /\ L + 1 - l \in 1 .. L - 1
      BY <1>4, <2>2
    <3>2. c[l] \in 1 .. Len(es) /\ c[l] < e /\ e \in Nat
      BY <1>5, <1>7, <3>1
    <3>3. c[l] # e
      BY <3>2
    <3>4. es2[c[l]] = es[c[l]]
      BY <3>2, <3>3
    <3>5. s2[L + 1 - l] = s[L + 1 - l]
      BY <1>2, <3>1
    <3> QED
      BY <1>3, <3>4, <3>5
  <2> QED
    BY <2>1, <2>2
<1> QED
  BY <1>1, <1>3, <1>9, <1>10 DEF Holds

\* A declaration adds to its own scope, which nobody else below sees.
LEMMA NamesBound ==
  ASSUME TypeOK, StackOf(prog, stack), ChainsOf(envs), OwnOf(envs, stack), NamesOf(prog, envs, stack),
         stack # <<>>, Here.k = "VarDecl", NEW v, envs' = Define(Top.env, Top.n, v), NEW w, stack' = Popped(w)
  PROVE  NamesOf(prog, envs', stack')
<1>1. PICK p : p = prog
  OBVIOUS
<1>2. PICK L : L = Len(stack)
  OBVIOUS
<1>3. PICK m : m = Len(heap)
  OBVIOUS
<1>4. PICK ev : ev = Len(envs)
  OBVIOUS
<1>5. PICK t : t = Top
  OBVIOUS
<1>6. PICK es : es = envs'
  OBVIOUS
<1>7. PICK st : st = stack'
  OBVIOUS
<1>8. PICK e : e = t.env
  OBVIOUS
<1>9. /\ L \in Nat \ {0} /\ Len(st) = L - 1 /\ \A j \in 1 .. L - 2 : st[j] = stack[j]
      /\ \A j \in 1 .. L - 1 : st[j].n = stack[j].n /\ st[j].env = stack[j].env
      /\ L > 1 => st[L - 1].vs = Append(stack[L - 1].vs, w)
  BY <1>2, <1>7, Answered
<1>10. p \in Programs /\ \A j \in 1 .. L : stack[j].n \in NodesOf(p)
  BY <1>1, <1>2 DEF TypeOK, StackOf, InProgram
<1>11. /\ e \in 1 .. Len(envs) /\ Made(m, envs) /\ Globals \in 1 .. Len(envs)
       /\ t = stack[L] /\ Nodes[t.n].k = "VarDecl" /\ Nodes[t.n].name = Here.name
  BY <1>2, <1>3, <1>5, <1>8, TopType, EnvsMade, TypeParts DEF Top, Here
<1>12. /\ \A i \in 1 .. Len(envs) : es[i].chain = envs[i].chain
       /\ \A i \in 1 .. Len(envs) : i # e => es[i] = envs[i]
       /\ \A x \in Name : es[e].vars[x].d = IF x = Nodes[t.n].name THEN t.n ELSE envs[e].vars[x].d
  BY <1>5, <1>6, <1>8, <1>11, DefineScope
<1>13. \A i \in 1 .. Len(envs) : \A k \in Sees(envs, i) : k \in 1 .. Len(envs)
  BY <1>11, ChainParts DEF Sees
<1>14. ASSUME NEW j \in 1 .. L - 1, e \notin Sees(envs, stack[j].env), ScopesAt(p, st[j]) = ScopesAt(p, stack[j])
       PROVE  Holds(p, es, st[j].env, ScopesAt(p, st[j]))
  <2>1. PICK e2 : e2 = stack[j].env
    OBVIOUS
  <2>2. PICK ss : ss = ScopesAt(p, stack[j])
    OBVIOUS
  <2>3. j \in 1 .. Len(stack)
    BY <1>2, <1>9
  <2>4. Holds(p, envs, e2, ss) /\ e2 \in 1 .. Len(envs)
    BY <1>1, <2>1, <2>2, <2>3, StackAt DEF NamesOf
  <2>5. \A i \in Sees(envs, e2) : es[i] = envs[i]
    BY <1>12, <1>13, <1>14, <2>1, <2>4
  <2>6. Holds(p, es, e2, ss)
    BY <1>11, <1>12, <2>4, <2>5, OldHolds
  <2> QED
    BY <1>9, <1>14, <2>1, <2>2, <2>6
<1>15. ASSUME e # Globals PROVE \A x \in Name : es[Globals].vars[x].d # 0 => IsGlobal(p, es[Globals].vars[x].d, x)
  BY <1>1, <1>11, <1>12, <1>15 DEF NamesOf
<1>16. CASE L = 1
  <2>1. PICK i \in 1 .. Len(p) : stack[1].n = p[i]
    BY <1>1 DEF StackOf, Based
  <2>2. e = Globals
    BY <1>8, <1>11, <1>16 DEF StackOf, Based
  <2>3. \A x \in Name : es[Globals].vars[x].d # 0 => IsGlobal(p, es[Globals].vars[x].d, x)
    <3>1. SUFFICES ASSUME NEW x \in Name, es[Globals].vars[x].d # 0 PROVE IsGlobal(p, es[Globals].vars[x].d, x)
      OBVIOUS
    <3>2. CASE x = Nodes[t.n].name
      <4>1. es[Globals].vars[x].d = t.n /\ t.n = p[i]
        BY <1>11, <1>12, <1>16, <2>1, <2>2, <3>2
      <4> QED
        BY <1>11, <3>2, <4>1 DEF IsGlobal
    <3>3. CASE x # Nodes[t.n].name
      <4>1. es[Globals].vars[x].d = envs[Globals].vars[x].d
        BY <1>12, <2>2, <3>3
      <4> QED
        BY <1>1, <3>1, <4>1 DEF NamesOf
    <3> QED
      BY <3>2, <3>3
  <2>4. 1 .. Len(st) = {}
    BY <1>9, <1>16
  <2> QED
    BY <1>1, <1>6, <1>7, <2>3, <2>4 DEF NamesOf
<1>17. CASE L # 1
  <2>1. L > 1 /\ L - 1 \in 1 .. L /\ L - 1 \in 1 .. L - 1 /\ (L - 1) + 1 = L /\ L \in 1 .. L
    BY <1>9, <1>17
  <2>2. PICK f : f = stack[L - 1]
    OBVIOUS
  <2>3. PICK g : g = st[L - 1]
    OBVIOUS
  <2>4. f \in Frames(m, ev) /\ f.env \in 1 .. Len(envs)
    BY <1>2, <1>3, <1>4, <2>1, <2>2, StackAt
  <2>5. f.n \in NodesOf(p) /\ g.n = f.n /\ g.env = f.env
    BY <1>9, <1>10, <2>1, <2>2, <2>3
  <2>6. Awaits(f, t)
    BY <1>2, <1>11, <2>1, <2>2 DEF StackOf, Waiting
  <2>7. Len(g.vs) = Len(f.vs) + 1
    <3>1. f.vs \in Seq(Value(m))
      BY <2>4 DEF Frames
    <3>2. g.vs = Append(f.vs, w)
      BY <1>9, <2>1, <2>2, <2>3
    <3> QED
      BY <3>1, <3>2
  <2>8. CASE Branches(f)
    <3>1. Opens(stack, L)
      BY <1>11, <2>1, <2>2, <2>8 DEF Opens
    <3>2. e # Globals /\ \A j \in 1 .. L - 1 : e \notin Sees(envs, stack[j].env)
      BY <1>2, <1>8, <1>11, <2>1, <3>1 DEF OwnOf
    <3>3. ScopesAt(p, g) = ScopesAt(p, f)
      BY <1>10, <2>4, <2>5, <2>6, <2>7, <2>8, AnsweredScopes
    <3>4. \A j \in 1 .. L - 1 : ScopesAt(p, st[j]) = ScopesAt(p, stack[j])
      <4>1. SUFFICES ASSUME NEW j \in 1 .. L - 1 PROVE ScopesAt(p, st[j]) = ScopesAt(p, stack[j])
        OBVIOUS
      <4>2. CASE j = L - 1
        BY <2>2, <2>3, <3>3, <4>2
      <4>3. CASE j # L - 1
        <5>1. j \in 1 .. L - 2
          BY <1>9, <4>3
        <5> QED
          BY <1>9, <5>1
      <4> QED
        BY <4>2, <4>3
    <3>5. \A j \in 1 .. Len(st) : Holds(p, es, st[j].env, ScopesAt(p, st[j]))
      BY <1>9, <1>14, <3>2, <3>4
    <3> QED
      BY <1>1, <1>6, <1>7, <1>15, <3>2, <3>5 DEF NamesOf
  <2>9. CASE ~Branches(f)
    <3>1. PICK s : s = ScopesAt(p, f)
      OBVIOUS
    <3>2. PICK s2 : s2 = ScopesAt(p, g)
      OBVIOUS
    <3>3. /\ t.env = f.env /\ Nodes[f.n].k \in {"Block", "For", "Func"} /\ Len(s2) = Len(s)
          /\ \A l \in 1 .. Len(s) - 1 : s2[l] = s[l]
          /\ \A x \in Name : s2[Len(s)][x] = IF x = Nodes[t.n].name THEN t.n ELSE s[Len(s)][x]
      BY <1>10, <1>11, <2>4, <2>5, <2>6, <2>7, <2>9, <3>1, <3>2, DeclaredScopes
    <3>4. s \in Seq(Decls) /\ s # <<>>
      BY <1>10, <2>4, <2>5, <3>1, ScopesAtType
    <3>5. Opens(stack, L - 1)
      BY <2>2, <3>3 DEF Opens
    <3>6. e # Globals /\ \A j \in 1 .. (L - 1) - 1 : e \notin Sees(envs, stack[j].env)
      BY <1>2, <1>8, <2>1, <2>2, <3>3, <3>5 DEF OwnOf
    <3>7. Holds(p, envs, e, s)
      BY <1>1, <1>2, <1>8, <2>1, <2>2, <3>1, <3>3 DEF NamesOf
    <3>8. Holds(p, es, e, s2)
      <4>1. PICK y : y = Nodes[t.n].name
        OBVIOUS
      <4>2. PICK d : d = t.n
        OBVIOUS
      <4>3. MadeIn(envs, es, e, y, d)
        BY <1>11, <1>12, <4>1, <4>2 DEF MadeIn
      <4>4. ReadIn(s, s2, y, d)
        BY <3>3, <4>1, <4>2 DEF ReadIn
      <4>6. Made(m, envs) /\ ChainsOf(envs) /\ e \in 1 .. Len(envs) /\ e # Globals
        BY <1>11, <3>6
      <4> QED
        BY <3>4, <3>7, <4>3, <4>4, <4>6, HoldsDeclared
    <3>9. ASSUME NEW j \in 1 .. Len(st) PROVE Holds(p, es, st[j].env, ScopesAt(p, st[j]))
      <4>1. CASE j = L - 1
        BY <1>8, <2>3, <2>5, <3>2, <3>3, <3>8, <4>1
      <4>2. CASE j # L - 1
        <5>1. j \in 1 .. L - 2 /\ j \in 1 .. L - 1 /\ j \in 1 .. (L - 1) - 1
          BY <1>9, <4>2
        <5>2. e \notin Sees(envs, stack[j].env) /\ st[j] = stack[j]
          BY <1>9, <3>6, <5>1
        <5> QED
          BY <1>14, <5>1, <5>2
      <4> QED
        BY <4>1, <4>2
    <3> QED
      BY <1>1, <1>6, <1>7, <1>15, <3>6, <3>9 DEF NamesOf
  <2> QED
    BY <2>8, <2>9
<1> QED
  BY <1>16, <1>17
\* In a well typed program a call has an argument for each parameter.
LEMMA CallFits ==
  ASSUME TypeOK, StackOf(prog, stack), NEW ty, WellTyped(ty, prog), NEW i \in 1 .. Len(prog), Nodes[prog[i]].k = "Func",
         IF stack = <<>> THEN Nodes[prog[i]].name = "main"
         ELSE Here.k = "Call" /\ Here.name \notin Builtin \cup {"print"} /\ Nodes[prog[i]].name = Here.name
  PROVE  Len(Nodes[prog[i]].params) = IF stack = <<>> THEN 0 ELSE Len(Here.kids)
<1>1. prog \in Programs /\ DOMAIN prog = 1 .. Len(prog)
  BY ProgramNodes DEF TypeOK
<1>2. \A j \in 1 .. Len(prog) : Nodes[prog[j]].k = "Func" /\ Nodes[prog[j]].name = Nodes[prog[i]].name => j = i
  BY <1>1 DEF WellTyped, OneEach
<1>3. CASE stack = <<>>
  <2>1. PICK j \in 1 .. Len(prog) : Nodes[prog[j]].k = "Func" /\ Nodes[prog[j]].name = "main" /\ Nodes[prog[j]].params = <<>>
    BY <1>1 DEF WellTyped, HasMain
  <2> QED
    BY <1>2, <1>3, <2>1
<1>4. CASE stack # <<>>
  <2>1. Top.n \in NodesOf(prog)
    BY <1>4, TopIn
  <2>2. Here = Nodes[Top.n] /\ "Call" \in ExprKind
    BY DEF Here, ExprKind
  <2>3. CallRule(ty, prog, Here, ty[Top.n])
    BY <1>4, <2>1, <2>2 DEF WellTyped, Judged, ExprRule
  <2>4. DOMAIN BuiltinParams = Builtin
    BY DEF BuiltinParams, Builtin
  <2>5. PICK j \in 1 .. Len(prog) : /\ Nodes[prog[j]].k = "Func" /\ Nodes[prog[j]].name = Here.name
                                    /\ Takes(ty, Here, ParamTypes(prog[j]))
    BY <1>1, <1>4, <2>3, <2>4 DEF CallRule
  <2>6. j = i
    BY <1>2, <1>4, <2>5
  <2>7. Len(Here.kids) = Len(ParamTypes(prog[i]))
    BY <2>5, <2>6 DEF Takes
  <2>8. Nodes[prog[i]].params \in Seq(NodeId)
    BY <1>1, ProgramNodes, NodeType
  <2>9. Len(ParamTypes(prog[i])) = Len(Nodes[prog[i]].params)
    BY <2>8 DEF ParamTypes
  <2> QED
    BY <1>4, <2>7, <2>9
<1> QED
  BY <1>3, <1>4

LEMMA TopHolds ==
  ASSUME TypeOK, NamesOf(prog, envs, stack), stack # <<>> PROVE Holds(prog, envs, Top.env, ScopesAt(prog, Top))
<1>1. Len(stack) \in 1 .. Len(stack)
  <2>1. Len(stack) \in Nat \ {0}
    BY TypeParts
  <2> QED
    BY <2>1
<1> QED
  BY <1>1 DEF NamesOf, Top

LEMMA NamesKept ==
  ASSUME TypeOK, TypeOK', StackOf(prog, stack), ChainsOf(envs), OwnOf(envs, stack), NamesOf(prog, envs, stack), Moves,
         NEW ty, WellTyped(ty, prog)
  PROVE  NamesOf(prog, envs', stack')
<1>1. /\ prog \in Programs /\ Len(stack) \in Nat /\ Made(Len(heap), envs) /\ envs # <<>>
      /\ Globals \in 1 .. Len(envs)
  BY TypeParts, EnvsMade DEF TypeOK
<1>2. CASE Stops
  <2>1. Len(stack') = 0 /\ SameNames /\ 1 .. 0 = {}
    BY <1>2, AnyNames DEF Stops
  <2> QED
    BY <1>1, <2>1, NamesLess
<1>3. CASE Starts
  <2>1. PICK i \in 1 .. Len(prog) : Nodes[prog[i]].k = "VarDecl" /\ stack' = <<Frame(prog[i], Globals)>>
    BY <1>3 DEF Starts
  <2>2. stack' = Push(prog[i], Globals) /\ envs' = envs
    BY <1>3, <2>1 DEF Starts, Push
  <2>3. Holds(prog, envs, Globals, ScopesOf(prog)[prog[i]])
    BY <1>1, <2>1, StartHolds
  <2>4. prog[i] \in NodesOf(prog)
    BY <1>1, ProgramNodes
  <2> QED
    BY <2>2, <2>3, <2>4, NamesMore
<1>4. CASE Asks
  <2>1. PICK n \in ExprNode : PartOf(Top.n, n) /\ stack' = Push(n, Top.env)
    BY <1>4 DEF Asks
  <2>2. stack # <<>> /\ EvaluatesNow(Top) /\ envs' = envs
    BY <1>4 DEF Asks
  <2>3. n \in NodesOf(prog) /\ ScopesOf(prog)[n] = ScopesAt(prog, Top)
    BY <2>1, <2>2, PartScopes
  <2>4. Holds(prog, envs, Top.env, ScopesOf(prog)[n])
    BY <2>2, <2>3, TopHolds
  <2> QED
    BY <2>1, <2>2, <2>3, <2>4, NamesMore
<1>5. CASE Runs
  <2>1. PICK i \in 1 .. Len(Here.kids) :
          /\ ExecutesNow(Top, i) /\ Grown(envs, envs', Top.env, NewScopes(Here, i))
          /\ stack' = Push(Here.kids[i], IF NewScopes(Here, i) = 0 THEN Top.env ELSE Len(envs) + NewScopes(Here, i))
    BY <1>5 DEF Runs
  <2>2. stack # <<>>
    BY <1>5 DEF Runs
  <2>3. PICK n : n = Here.kids[i]
    OBVIOUS
  <2>4. PICK w : w = NewScopes(Here, i)
    OBVIOUS
  <2>5. PICK ss : ss = ScopesAt(prog, Top)
    OBVIOUS
  <2>6. PICK es : es = envs'
    OBVIOUS
  <2>7. PICK e : e = IF w = 0 THEN Top.env ELSE Len(envs) + w
    OBVIOUS
  <2>8. /\ Top \in Frames(Len(heap), Len(envs)) /\ Top.env \in 1 .. Len(envs) /\ Top.n \in NodesOf(prog)
        /\ n \in NodesOf(prog) /\ Here = Nodes[Top.n]
    BY <2>2, <2>3, TopType, TopIn DEF Here
  <2>9. ss \in Seq(Decls) /\ ss # <<>>
    BY <1>1, <2>5, <2>8, ScopesAtType
  <2>10. Holds(prog, envs, Top.env, ss)
    BY <2>2, <2>5, TopHolds
  <2>11. Grown(envs, es, Top.env, w)
    BY <2>1, <2>4, <2>6
  <2>12. Holds(prog, es, e, ss \o Fresh(w))
    BY <1>1, <2>7, <2>8, <2>9, <2>10, <2>11, HoldsGrown
  <2>13. ScopesOf(prog)[n] = ss \o Fresh(w)
    BY <1>1, <2>1, <2>3, <2>4, <2>5, <2>8, RunScopes
  <2>14. \A j \in 1 .. Len(envs) : es[j] = envs[j]
    BY <1>1, <2>8, <2>11, SomeGrown
  <2>15. stack' = Push(n, e)
    BY <2>1, <2>3, <2>4, <2>7
  <2> QED
    BY <2>6, <2>8, <2>12, <2>13, <2>14, <2>15, NamesMore
<1>6. CASE Invokes
  <2>1. PICK args : args = IF stack = <<>> THEN <<>> ELSE Top.vs
    OBVIOUS
  <2>2. PICK i \in 1 .. Len(prog) :
          /\ IF stack = <<>> THEN Nodes[prog[i]].name = "main"
             ELSE /\ Here.k = "Call" /\ Here.name \notin Builtin \cup {"print"}
                  /\ Nodes[prog[i]].name = Here.name /\ Len(args) = Len(Here.kids)
          /\ Nodes[prog[i]].k = "Func"
          /\ envs' = Called(Bind(Nodes[prog[i]].params, args)) /\ stack' = Push(prog[i], Len(envs) + 1)
    BY <1>6, <2>1 DEF Invokes
  <2>3. args \in Seq(Value(Len(heap)))
    BY <2>1, TopType
  <2>4. Len(args) = Len(Nodes[prog[i]].params)
    <3>1. Len(Nodes[prog[i]].params) = IF stack = <<>> THEN 0 ELSE Len(Here.kids)
      BY <2>2, CallFits
    <3>2. Len(args) = IF stack = <<>> THEN 0 ELSE Len(Here.kids)
      BY <2>1, <2>2
    <3> QED
      BY <3>1, <3>2
  <2>5. PICK es : es = envs'
    OBVIOUS
  <2>6. Holds(prog, es, Len(envs) + 1, ScopesOf(prog)[prog[i]])
    BY <2>2, <2>3, <2>4, <2>5, CallHolds
  <2>7. \A j \in 1 .. Len(envs) : es[j] = envs[j]
    <3>1. PICK b : b = Bind(Nodes[prog[i]].params, args)
      OBVIOUS
    <3>2. es = Called(b)
      BY <2>2, <2>5, <3>1
    <3> QED
      BY <3>2, CallScope
  <2>8. prog[i] \in NodesOf(prog)
    BY <1>1, ProgramNodes
  <2> QED
    BY <2>2, <2>5, <2>6, <2>7, <2>8, NamesMore
<1>7. CASE Yields
  <2>1. /\ stack # <<>> /\ SameNames /\ Here.k # "VarDecl" /\ \E v : stack' = Popped(v)
    BY <1>7 DEF Yields, AtEnd
  <2> QED
    BY <2>1, NamesAnswered
<1>8. CASE Ends
  <2>1. /\ stack # <<>> /\ SameNames /\ Here.k # "VarDecl" /\ \E v : stack' = Popped(v)
    BY <1>8, AnyNames DEF Ends
  <2> QED
    BY <2>1, NamesAnswered
<1>9. CASE Binds
  BY <1>9, NamesBound DEF Binds
<1>10. CASE Resets
  <2>1. PICK vs : stack' = SetTop(vs) /\ (Here.k = "For" => Len(vs) = 1 /\ Done > 3)
    BY <1>10 DEF Resets
  <2>2. stack # <<>> /\ SameNames /\ Here.k \in {"CompoundAssign", "While", "For"}
    BY <1>10, AnyNames DEF Resets
  <2>3. PICK L : L = Len(stack)
    OBVIOUS
  <2>4. PICK g : g = stack'[L]
    OBVIOUS
  <2>5. /\ L \in Nat \ {0} /\ Len(stack') = L /\ (\A j \in 1 .. L - 1 : stack'[j] = stack[j])
        /\ g = [Top EXCEPT !.vs = vs] /\ \A j \in 1 .. L : stack'[j].n = stack[j].n /\ stack'[j].env = stack[j].env
    BY <2>1, <2>2, <2>3, <2>4, Changed
  <2>6. Top \in Frames(Len(heap), Len(envs)) /\ Top.n \in NodesOf(prog) /\ Here = Nodes[Top.n] /\ Top = stack[L]
    BY <2>2, <2>3, TopType, TopIn DEF Here, Top
  <2>7. g.n = Top.n /\ g.vs = vs
    BY <2>5, <2>6 DEF Frames
  <2>8. Len(g.vs) \in Nat
    <3>1. stack' \in Seq(Frames(Len(heap'), Len(envs')))
      BY DEF TypeOK
    <3>2. PICK F : F = Frames(Len(heap'), Len(envs'))
      OBVIOUS
    <3>3. PICK st : st = stack'
      OBVIOUS
    <3>4. st \in Seq(F) /\ Len(st) = L /\ L \in 1 .. L /\ g = st[L]
      <4>1. st \in Seq(F)
        BY <3>1, <3>2, <3>3
      <4>2. Len(st) = L /\ g = st[L]
        BY <2>4, <2>5, <3>3
      <4>3. L \in 1 .. L
        BY <2>5
      <4> QED
        BY <4>1, <4>2, <4>3
    <3>5. g \in F
      BY <3>4
    <3> QED
      BY <3>2, <3>5 DEF Frames
  <2>9. ScopesAt(prog, g) = ScopesAt(prog, Top)
    <3>1. Nodes[Top.n].k = "For" => Len(g.vs) = 1 /\ Len(Top.vs) > 3
      BY <2>1, <2>6, <2>7 DEF Done
    <3> QED
      BY <1>1, <2>2, <2>6, <2>7, <2>8, <3>1, ResetScopes
  <2>10. ASSUME NEW j \in 1 .. Len(stack')
         PROVE  stack'[j].env = stack[j].env /\ ScopesAt(prog, stack'[j]) = ScopesAt(prog, stack[j])
    <3>1. CASE j = L
      BY <2>4, <2>5, <2>6, <2>9, <3>1
    <3>2. CASE j # L
      <4>1. j \in 1 .. L - 1
        BY <2>5, <3>2
      <4> QED
        BY <2>5, <4>1
    <3> QED
      BY <3>1, <3>2
  <2>11. Len(stack') \in Nat /\ Len(stack') <= Len(stack)
    BY <2>3, <2>5
  <2> QED
    BY <2>2, <2>10, <2>11, NamesLess
<1>11. CASE Leaves
  <2>1. /\ SameNames /\ Len(stack) \in Nat \ {0} /\ Len(stack') = Len(stack) - 1
        /\ \A j \in 1 .. Len(stack) - 1 : stack'[j] = stack[j]
    BY <1>11, AnyNames, Cut DEF Leaves
  <2>2. Len(stack') \in Nat /\ Len(stack') <= Len(stack)
    BY <2>1
  <2>3. \A j \in 1 .. Len(stack') : stack'[j].env = stack[j].env /\ ScopesAt(prog, stack'[j]) = ScopesAt(prog, stack[j])
    BY <2>1
  <2> QED
    BY <2>1, <2>2, <2>3, NamesLess
<1> QED
  BY <1>2, <1>3, <1>4, <1>5, <1>6, <1>7, <1>8, <1>9, <1>10, <1>11 DEF Moves
(***************************************************************************)
(* The invariant.                                                          *)
(***************************************************************************)
\* The program stays as it is.
LEMMA SameProgram == ASSUME [Next]_vars PROVE prog' = prog
<1>1. \A s : Halt(s) => prog' = prog
  BY DEF Halt
<1>2. \A n : Eval(n) => prog' = prog
  BY DEF Eval
<1>3. \A v : Keep(v) \/ Yield(v) => prog' = prog
  BY DEF Keep, Yield
<1>4. \A o : Finish(o) => prog' = prog
  BY <1>1, <1>3 DEF Finish
<1>5. \A x, v, r : SetVar(x, v, r) => prog' = prog
  BY <1>1 DEF SetVar
<1>6. \A r, i, v, s : SetCell(r, i, v, s) => prog' = prog
  BY DEF SetCell
<1>7. \A f, as, st : CallFunction(f, as, st) => prog' = prog
  BY <1>1 DEF CallFunction
<1>8. \A n, e : Exec(n, e) => prog' = prog
  BY DEF Exec
<1>9. \A n : ExecScoped(n) => prog' = prog
  BY <1>8 DEF ExecScoped
<1>10. CASE EvalExpr
  <2> USE <1>1, <1>2, <1>3 DEF Branch, OnCell
  <2>1. EvalOperand \/ EvalLiteral \/ EvalIdent \/ EvalBinary => prog' = prog
    BY <1>4 DEF EvalOperand, EvalLiteral, EvalIdent, EvalBinary
  <2>2. EvalShortCircuit \/ EvalTernary \/ EvalUnary => prog' = prog
    BY <1>4 DEF EvalShortCircuit, EvalTernary, EvalUnary
  <2>3. EvalAssign \/ LoadSlot \/ EvalCompoundAssign => prog' = prog
    BY <1>5, <1>6 DEF EvalAssign, LoadSlot, EvalCompoundAssign
  <2>4. EvalIncDec => prog' = prog
    BY <1>5, <1>6 DEF EvalIncDec
  <2>5. EvalIndex \/ EvalFieldAccess => prog' = prog
    BY <1>4 DEF EvalIndex, EvalFieldAccess
  <2>6. EvalArrayLiteral \/ EvalArrayCreation => prog' = prog
    BY DEF EvalArrayLiteral, EvalArrayCreation
  <2>7. EvalPrint \/ EvalBuiltin \/ EvalCall \/ EndCall => prog' = prog
    BY <1>4, <1>7 DEF EvalPrint, EvalBuiltin, EvalCall, EndCall
  <2> QED BY <1>10, <2>1, <2>2, <2>3, <2>4, <2>5, <2>6, <2>7 DEF EvalExpr
<1>11. CASE ExecStmt
  <2> USE <1>1, <1>2, <1>3 DEF Branch, Again
  <2>1. ExecExpr \/ ExecVarDecl \/ ExecReturn \/ Unwind => prog' = prog
    BY DEF ExecExpr, ExecVarDecl, ExecReturn, Unwind
  <2>2. ExecBlock \/ ExecIf \/ ExecWhile \/ ExecFor => prog' = prog
    BY <1>8, <1>9 DEF ExecBlock, ExecIf, ExecWhile, ExecFor
  <2> QED BY <1>11, <2>1, <2>2 DEF ExecStmt
<1>12. CASE Run
  BY <1>1, <1>7, <1>12 DEF Run, RunDecl, RunMain, RunEnd
<1>13. CASE Halted
  BY <1>13 DEF Halted, vars
<1> QED BY <1>10, <1>11, <1>12, <1>13 DEF Next, vars

LEMMA SoundInit == ASSUME Init PROVE SoundInv
<1> DEFINE en == [vars |-> Empty, chain |-> <<Globals>>]
<1>1. envs = <<en>> /\ en.chain = <<1>> /\ en.vars = Empty /\ stack = <<>> /\ 1 .. Len(stack) = {}
  BY DEF Init, Globals
<1> HIDE DEF en
<1>2. envs[1] = en /\ Len(envs) = 1 /\ \A e \in 1 .. Len(envs) : e = 1
  BY <1>1
<1>3. StackOf(prog, stack) /\ OwnOf(envs, stack) /\ FallOf(stack)
  <2>1. 1 .. Len(stack) - 1 = {}
    BY <1>1
  <2> QED
    BY <1>1, <2>1 DEF StackOf, InProgram, Waiting, Based, OwnOf, FallOf
<1>4. ChainsOf(envs)
  <2>1. Len(en.chain) = 1 /\ en.chain # <<>> /\ en.chain[1] = 1 /\ 2 .. 1 = {}
    BY <1>1
  <2> QED
    BY <1>2, <2>1 DEF ChainsOf, Globals
<1>5. NamesOf(prog, envs, stack)
  <2>1. \A x \in Name : envs[Globals].vars[x].d = 0
    BY <1>1, <1>2 DEF Empty, Unbound, Globals
  <2> QED
    BY <1>1, <2>1 DEF NamesOf
<1> QED
  BY <1>3, <1>4, <1>5 DEF SoundInv

LEMMA SoundStep ==
  ASSUME TypeOK, SoundInv, NEW ty, WellTyped(ty, prog), [Next]_vars
  PROVE  TypeOK' /\ SoundInv' /\ prog' = prog
<1>1. TypeOK' /\ prog' = prog
  BY NextType, SameProgram
<1>2. CASE Moves
  <2>1. StackOf(prog, stack')
    BY <1>1, <1>2, StackKept DEF SoundInv
  <2>2. ChainsOf(envs') /\ OldKept
    BY <1>2, OldChains DEF SoundInv, OldKept
  <2>3. OwnOf(envs', stack')
    BY <1>1, <1>2, <2>2, OwnKept DEF SoundInv
  <2>4. NamesOf(prog, envs', stack')
    BY <1>1, <1>2, NamesKept DEF SoundInv
  <2>5. FallOf(stack')
    BY <1>2, FallKept DEF SoundInv
  <2>6. PICK st : st = stack'
    OBVIOUS
  <2>7. PICK es : es = envs'
    OBVIOUS
  <2>8. StackOf(prog', st) /\ ChainsOf(es) /\ OwnOf(es, st) /\ NamesOf(prog', es, st) /\ FallOf(st)
    BY <1>1, <2>1, <2>2, <2>3, <2>4, <2>5, <2>6, <2>7
  <2> QED
    BY <1>1, <2>6, <2>7, <2>8 DEF SoundInv
<1>3. CASE UNCHANGED vars
  BY <1>1, <1>3 DEF vars, SoundInv
<1> QED
  BY <1>1, <1>2, <1>3, StepMoves

\* Nothing changes when nothing happens, whatever the program.
LEMMA SoundStutter == ASSUME TypeOK, SoundInv, UNCHANGED vars PROVE TypeOK' /\ SoundInv'
<1>1. TypeOK'
  BY NextType
<1>2. SoundInv'
  BY DEF vars, SoundInv
<1> QED
  BY <1>1, <1>2

(***************************************************************************)
(* What it means for the program.                                          *)
(***************************************************************************)
\* Only a declaration is a function.
LEMMA FuncsAreDeclared ==
  ASSUME NEW p \in Programs, NEW n \in NodesOf(p), Nodes[n].k = "Func" PROVE \E i \in 1 .. Len(p) : n = p[i]
<1>1. PICK i \in 1 .. Len(p) : n \in Below(p[i])
  BY ProgramNodes
<1>2. SUFFICES ASSUME n # p[i] PROVE FALSE
  OBVIOUS
<1>3. p[i] \in NodeId
  BY ProgramNodes
<1>4. PICK a \in Below(p[i]) : \E j \in 1 .. Len(Nodes[a].kids) : Nodes[a].kids[j] = n
  BY <1>1, <1>2, <1>3, HasAbove
<1>5. a \in NodeId
  BY <1>3, <1>4, BelowClosed
<1> QED
  BY <1>4, <1>5, KidKinds, KindsApart

\* A function whose end is reached does not have to return.
FallsOffVoid == At("Func") /\ Done = Len(Here.kids) => Here.ty = TVoid

LEMMA SoundFalls == ASSUME TypeOK, SoundInv, NEW ty, WellTyped(ty, prog) PROVE FallsOffVoid
<1>1. SUFFICES ASSUME At("Func"), Done = Len(Here.kids) PROVE Here.ty = TVoid
  BY DEF FallsOffVoid
<1>2. stack # <<>> /\ Here.k = "Func" /\ Here = Nodes[Top.n] /\ Done = Len(Top.vs)
  BY <1>1 DEF At, Running, Here, Done
<1>3. Top.n \in NodesOf(prog) /\ Top.n \in NodeId /\ prog \in Programs
  BY <1>2, TopIn DEF SoundInv
<1>4. Fell(Top)
  <2>1. Len(stack) \in 1 .. Len(stack)
    <3>1. Len(stack) \in Nat \ {0}
      BY <1>2, TypeParts
    <3> QED
      BY <3>1
  <2> QED
    BY <2>1 DEF SoundInv, FallOf, Top
<1>5. ~MustReturn(Top.n)
  BY <1>1, <1>2, <1>3, <1>4, MustReturnStep DEF Fell
<1>6. PICK i \in 1 .. Len(prog) : Top.n = prog[i]
  BY <1>2, <1>3, FuncsAreDeclared
<1>7. DOMAIN prog = 1 .. Len(prog)
  BY <1>3, ProgramNodes
<1> QED
  BY <1>2, <1>5, <1>6, <1>7 DEF WellTyped, Returning

\* The identifiers that an activation reads or writes itself.
Uses(f) == LET nd == Nodes[f.n]
           IN  CASE nd.k = "Ident" -> {f.n}
                 [] nd.k \in {"Assign", "CompoundAssign", "IncDec"} -> {nd.kids[1]} \cap {n \in NodeId : Nodes[n].k = "Ident"}
                 [] OTHER -> {}

\* A name's variable is that of the declaration that the text means by it.
NamesMeanDeclarations ==
  Running => \A n \in Uses(Top) : \A o \in Owner(Top.env, Nodes[n].name) :
               envs[o].vars[Nodes[n].name].d = Means(ScopesOf(prog)[n], Nodes[n].name)

LEMMA MeansIs ==
  ASSUME NEW ss \in Seq(Decls), NEW x, NEW s \in 1 .. Len(ss), ss[s][x] # NoDecl,
         \A s2 \in 1 .. Len(ss) : s2 > s => ss[s2][x] = NoDecl
  PROVE  Means(ss, x) = ss[s][x]
<1> DEFINE found == {s2 \in DOMAIN ss : ss[s2][x] # NoDecl}
<1>1. DOMAIN ss = 1 .. Len(ss) /\ Len(ss) \in Nat
  OBVIOUS
<1>2. s \in found /\ \A s2 \in found : s2 <= s
  BY <1>1
<1>3. PICK t : t = CHOOSE q \in found : \A s2 \in found : s2 <= q
  OBVIOUS
<1>4. t \in found /\ \A s2 \in found : s2 <= t
  BY <1>2, <1>3
<1>5. t = s
  <2>1. t \in Nat /\ s \in Nat /\ t <= s /\ s <= t
    BY <1>1, <1>2, <1>4
  <2> QED
    BY <2>1
<1>6. Means(ss, x) = IF found = {} THEN NoDecl ELSE ss[CHOOSE t2 \in found : \A s2 \in found : s2 <= t2][x]
  BY DEF Means
<1> QED
  BY <1>2, <1>3, <1>5, <1>6

\* A name that means a declaration has one in some innermost scope.
LEMMA MeansWhere ==
  ASSUME NEW ss \in Seq(Decls), NEW x, Means(ss, x) # NoDecl
  PROVE  \E s \in 1 .. Len(ss) : /\ ss[s][x] # NoDecl /\ Means(ss, x) = ss[s][x]
                                 /\ \A s2 \in 1 .. Len(ss) : s2 > s => ss[s2][x] = NoDecl
<1> DEFINE found == {s2 \in DOMAIN ss : ss[s2][x] # NoDecl}
<1>1. DOMAIN ss = 1 .. Len(ss) /\ Len(ss) \in Nat
  OBVIOUS
<1>2. found # {} /\ found \subseteq 1 .. Len(ss)
  BY <1>1 DEF Means
<1>3. PICK s \in found : \A s2 \in found : s2 <= s
  <2> HIDE DEF found
  <2> QED
    BY <1>1, <1>2, Greatest
<1>4. s \in 1 .. Len(ss) /\ ss[s][x] # NoDecl
  BY <1>1
<1>5. ASSUME NEW s2 \in 1 .. Len(ss), s2 > s PROVE ss[s2][x] = NoDecl
  <2>1. SUFFICES ASSUME ss[s2][x] # NoDecl PROVE FALSE
    OBVIOUS
  <2>2. s2 \in found
    BY <1>1, <2>1
  <2>3. s2 <= s /\ s2 \in Nat /\ s \in Nat
    BY <1>1, <1>3, <1>4, <2>2
  <2> QED
    BY <1>5, <2>3
<1>6. Means(ss, x) = ss[s][x]
  BY <1>4, <1>5, MeansIs
<1> QED
  BY <1>4, <1>5, <1>6
LEMMA UsesScopes ==
  ASSUME TypeOK, StackOf(prog, stack), stack # <<>>, NEW n \in Uses(Top)
  PROVE  /\ n \in NodesOf(prog) /\ Nodes[n].k = "Ident" /\ n \in NodeId /\ Nodes[n].name \in Name
         /\ ScopesOf(prog)[n] = ScopesAt(prog, Top)
<1>1. PICK p : p = prog
  OBVIOUS
<1>2. PICK f : f = Top
  OBVIOUS
<1>3. PICK m : m = Len(heap)
  OBVIOUS
<1>4. PICK ev : ev = Len(envs)
  OBVIOUS
<1>5. p \in Programs /\ f \in Frames(m, ev) /\ f.n \in NodesOf(p) /\ f.n \in NodeId /\ n \in Uses(f)
  BY <1>1, <1>2, <1>3, <1>4, TopIn, TopType
<1>6. "Ident" \in ExprKind
  BY DEF ExprKind
<1>7. CASE Nodes[f.n].k = "Ident"
  <2>1. n = f.n
    BY <1>5, <1>7 DEF Uses
  <2>2. f.vs \in Seq(Value(m)) /\ Len(f.vs) \in Nat /\ Nodes[n].name \in Name
    BY <1>5, <2>1, NodeType DEF Frames
  <2>3. Binders(Nodes[n], Len(f.vs)) = {} /\ Binders(Nodes[n], 0) = {}
    BY <1>5, <1>7, <2>1, <2>2, NoBinders
  <2>4. PICK ss : ss = ScopesOf(p)[n]
    OBVIOUS
  <2>5. ss \in Seq(Decls) /\ ss # <<>> /\ Nodes[n] \in Node
    BY <1>5, <2>1, <2>4, ScopesType, NodeType
  <2>6. After(ss, Nodes[n], Len(f.vs)) = ss
    BY <2>2, <2>3, <2>5, AfterNothing
  <2> QED
    BY <1>1, <1>2, <1>5, <1>7, <2>1, <2>2, <2>4, <2>6 DEF ScopesAt
<1>8. CASE Nodes[f.n].k \in {"Assign", "CompoundAssign", "IncDec"}
  <2>1. n = Nodes[f.n].kids[1] /\ Nodes[n].k = "Ident" /\ n \in NodeId
    BY <1>5, <1>8 DEF Uses
  <2>2. 1 \in 1 .. Len(Nodes[f.n].kids)
    <3>1. PICK k : k = Len(Nodes[f.n].kids)
      OBVIOUS
    <3>2. k \in {1, 2}
      BY <1>5, <1>8, <3>1, KidCounts
    <3>3. 1 \in 1 .. k
      BY <3>2
    <3> QED
      BY <3>1, <3>3
  <2>3. EvaluatesNow(f)
    BY <1>8 DEF EvaluatesNow
  <2>4. ScopesOf(p)[n] = ScopesAt(p, f)
    BY <1>5, <1>6, <2>1, <2>2, <2>3, AskedScopes
  <2>5. n \in NodesOf(p) /\ Nodes[n].name \in Name
    BY <1>5, <2>1, <2>2, ProgramNodes, NodeType
  <2> QED
    BY <1>1, <1>2, <2>1, <2>4, <2>5
<1>9. Nodes[f.n].k = "Ident" \/ Nodes[f.n].k \in {"Assign", "CompoundAssign", "IncDec"}
  BY <1>5 DEF Uses
<1> QED
  BY <1>7, <1>8, <1>9

\* The walk up the chain c finds name x in its j-th environment.
FoundAt(es, c, j, x) == /\ j \in 1 .. Len(c) /\ es[c[j]].vars[x].d # 0
                        /\ \A i \in 1 .. j - 1 : es[c[i]].vars[x].d = 0
\* The environments es hold the scopes ss from e on, and x means something there.
Meant(p, m, es, e, ss, x) ==
  /\ p \in Programs /\ OneEach(p, "VarDecl") /\ Made(m, es) /\ ChainsOf(es) /\ e \in 1 .. Len(es)
  /\ ss \in Seq(Decls) /\ Holds(p, es, e, ss) /\ x \in Name /\ Means(ss, x) # NoDecl
  /\ es[Globals].vars[x].d # 0 => IsGlobal(p, es[Globals].vars[x].d, x)

\* What a chain finds for a name is what the scopes say it means.
LEMMA FoundIsMeant ==
  ASSUME NEW p, NEW m, NEW es, NEW e, NEW ss, NEW x, Meant(p, m, es, e, ss, x),
         NEW c, c = es[e].chain, NEW j, FoundAt(es, c, j, x)
  PROVE  es[c[j]].vars[x].d = Means(ss, x)
<1> USE DEF FoundAt, Meant
<1>1. PICK L : L = Len(c)
  OBVIOUS
<1>2. /\ Len(ss) = L /\ \A l \in 1 .. L - 1 : es[c[l]].vars[x].d = ss[L + 1 - l][x]
      /\ ss[1][x] # NoDecl => IsGlobal(p, ss[1][x], x)
  BY <1>1 DEF Holds
<1>3. L \in Nat /\ L # 0 /\ c[L] = Globals /\ j \in 1 .. L
  <2>1. L \in Nat
    BY <1>2
  <2>2. c[L] = Globals
    BY <1>1 DEF ChainsOf
  <2> QED
    BY <1>1, <2>1, <2>2
<1>4. ASSUME NEW s \in 1 .. L, s > L + 1 - j PROVE ss[s][x] = NoDecl
  <2>1. PICK i : i = L + 1 - s
    OBVIOUS
  <2>2. i \in 1 .. j - 1 /\ i \in 1 .. L - 1 /\ L + 1 - i = s
    BY <1>3, <1>4, <2>1
  <2>3. es[c[i]].vars[x].d = 0 /\ es[c[i]].vars[x].d = ss[s][x]
    BY <1>2, <2>2
  <2> QED
    BY <2>3 DEF NoDecl
<1>5. CASE j # L
  <2>1. PICK s : s = L + 1 - j
    OBVIOUS
  <2>2. s \in 1 .. L /\ j \in 1 .. L - 1
    BY <1>3, <1>5, <2>1
  <2>3. es[c[j]].vars[x].d = ss[s][x]
    BY <1>2, <2>1, <2>2
  <2>4. Means(ss, x) = ss[s][x]
    BY <1>2, <1>4, <2>1, <2>2, <2>3, MeansIs DEF NoDecl
  <2> QED
    BY <2>3, <2>4
<1>6. CASE j = L
  <2>1. PICK s \in 1 .. L : ss[s][x] # NoDecl /\ Means(ss, x) = ss[s][x]
    BY <1>2, MeansWhere
  <2>2. s = 1
    <3>1. ~(s > L + 1 - j)
      BY <1>4, <2>1
    <3> QED
      BY <1>3, <1>6, <2>1, <3>1
  <2>3. PICK i1 \in 1 .. Len(p) : Means(ss, x) = p[i1] /\ Nodes[p[i1]].k = "VarDecl" /\ Nodes[p[i1]].name = x
    BY <1>2, <2>1, <2>2 DEF IsGlobal
  <2>4. PICK i2 \in 1 .. Len(p) : /\ es[c[j]].vars[x].d = p[i2]
                                  /\ Nodes[p[i2]].k = "VarDecl" /\ Nodes[p[i2]].name = x
    BY <1>3, <1>6 DEF IsGlobal
  <2>5. DOMAIN p = 1 .. Len(p)
    BY ProgramNodes
  <2>6. i1 = i2
    BY <2>3, <2>4, <2>5 DEF OneEach
  <2> QED
    BY <2>3, <2>4, <2>6
<1> QED
  BY <1>5, <1>6

LEMMA SoundNames == ASSUME TypeOK, SoundInv, NEW ty, WellTyped(ty, prog) PROVE NamesMeanDeclarations
<1>1. SUFFICES ASSUME Running, NEW n \in Uses(Top), NEW o \in Owner(Top.env, Nodes[n].name)
               PROVE  envs[o].vars[Nodes[n].name].d = Means(ScopesOf(prog)[n], Nodes[n].name)
  BY DEF NamesMeanDeclarations
<1>2. stack # <<>>
  BY <1>1 DEF Running
<1>3. PICK x : x = Nodes[n].name
  OBVIOUS
<1>4. PICK ss : ss = ScopesOf(prog)[n]
  OBVIOUS
<1>5. PICK e : e = Top.env
  OBVIOUS
<1>6. PICK c : c = envs[e].chain
  OBVIOUS
<1>7. /\ n \in NodesOf(prog) /\ Nodes[n].k = "Ident" /\ x \in Name /\ ss = ScopesAt(prog, Top) /\ prog \in Programs
      /\ e \in 1 .. Len(envs) /\ Made(Len(heap), envs)
  BY <1>1, <1>2, <1>3, <1>4, <1>5, UsesScopes, TopType, EnvsMade DEF SoundInv, TypeOK
<1>8. ss \in Seq(Decls)
  BY <1>4, <1>7, ScopesType
<1>9. Holds(prog, envs, e, ss)
  BY <1>2, <1>5, <1>7, TopHolds DEF SoundInv
<1>10. Means(ss, x) # NoDecl
  <2>1. "Ident" \in ExprKind
    BY DEF ExprKind
  <2> QED
    BY <1>3, <1>4, <1>7, <2>1 DEF WellTyped, Judged, ExprRule
<1>11. DOMAIN c = 1 .. Len(c)
  BY <1>6, <1>7, ChainParts
<1>12. PICK j : o = c[j] /\ FoundAt(envs, c, j, x)
  BY <1>1, <1>3, <1>5, <1>6, <1>11 DEF Owner, FoundAt
<1>13. Meant(prog, Len(heap), envs, e, ss, x)
  <2>1. envs[Globals].vars[x].d # 0 => IsGlobal(prog, envs[Globals].vars[x].d, x)
    BY <1>7 DEF SoundInv, NamesOf
  <2>2. OneEach(prog, "VarDecl") /\ ChainsOf(envs)
    BY DEF WellTyped, SoundInv
  <2> QED
    BY <1>7, <1>8, <1>9, <1>10, <2>1, <2>2 DEF Meant
<1>15. envs[c[j]].vars[x].d = Means(ss, x)
  <2>1. PICK es : es = envs
    OBVIOUS
  <2>2. PICK p : p = prog
    OBVIOUS
  <2>3. PICK m : m = Len(heap)
    OBVIOUS
  <2>4. Meant(p, m, es, e, ss, x)
    BY <1>13, <2>1, <2>2, <2>3
  <2>5. c = es[e].chain /\ FoundAt(es, c, j, x)
    BY <1>6, <1>12, <2>1
  <2>6. es[c[j]].vars[x].d = Means(ss, x)
    BY ONLY <2>4, <2>5, FoundIsMeant
  <2> QED
    BY <2>1, <2>6
<1> QED
  BY <1>3, <1>4, <1>12, <1>15

\* In a well typed program every name is, whenever it is read or written, the variable
\* of the declaration that the scopes of the text give it - whatever shadows what, and
\* however often it has been called, repeated or left - and a function whose end is
\* reached is void.
THEOREM WellTypedRunsAsWritten ==
  Spec /\ (\E ty : WellTyped(ty, prog)) => [](NamesMeanDeclarations /\ FallsOffVoid)
<1> DEFINE Typed == \E ty : WellTyped(ty, prog)
           I == SoundInv /\ Typed
<1>1. Init /\ Typed => I
  BY SoundInit
<1>2. TypeOK /\ I /\ [Next]_vars => I'
  <2>1. SUFFICES ASSUME TypeOK, I, [Next]_vars PROVE I'
    OBVIOUS
  <2>2. PICK ty : WellTyped(ty, prog)
    BY <2>1
  <2>3. SoundInv' /\ prog' = prog
    BY <2>1, <2>2, SoundStep
  <2>4. WellTyped(ty, prog')
    BY <2>2, <2>3
  <2> QED
    BY <2>3, <2>4
<1>3. TypeOK /\ I => NamesMeanDeclarations /\ FallsOffVoid
  <2>1. SUFFICES ASSUME TypeOK, I PROVE NamesMeanDeclarations /\ FallsOffVoid
    OBVIOUS
  <2>2. PICK ty : WellTyped(ty, prog)
    BY <2>1
  <2> QED
    BY <2>1, <2>2, SoundNames, SoundFalls
<1> HIDE DEF I
<1>4. Spec /\ Typed => []I
  BY <1>1, <1>2, TypeCorrect, PTL DEF Spec
<1> QED
  BY <1>3, <1>4, TypeCorrect, PTL

-----------------------------------------------------------------------------
(***************************************************************************)
(* That the types of a program hold while it runs, and where it can still  *)
(* panic: for every program that is well typed, in the order the           *)
(* interpreter happens to reach its parts.                                 *)
(*                                                                         *)
(* The values of an array variable's cells may be arrays again, named by   *)
(* their place in the heap, so the argument gives every array made a type  *)
(* that its cells are of, for as long as the program runs: a table `ht`,   *)
(* that only grows.                                                        *)
(***************************************************************************)
\* v is of type t, when array r has cells of type ht[r].
VT(ht, v, t) == IF IsArray(t) THEN v.k = "Array" /\ ht[v.r] = ElemOf(t) ELSE v.k = t.base

\* The expression whose value is the i-th that an activation of node n has; 0 for what
\* a statement or a declaration answers.
Evaluated == ExprKind \cup {"Expr", "VarDecl", "Return"}
ExprOf(n, i) ==
  LET nd == Nodes[n]  ops == Operands(nd)
  IN  CASE nd.k \in Evaluated -> IF (nd.k = "Ternary" /\ i > 1) \/ (nd.k = "Call" /\ i > Len(ops)) THEN n
                                 ELSE IF ops[i] = Slot THEN nd.kids[1] ELSE ops[i]
        [] nd.k \in {"If", "While"} /\ i = 1 -> nd.kids[1]
        [] nd.k = "For" /\ i = 2 -> nd.kids[2]
        [] OTHER -> 0

\* What an activation answers with; and that this is what the one below it waits for.
AnswerType(ty, n) == IF Nodes[n].k = "Func" THEN Nodes[n].ty ELSE ty[n]
Wants(ty, f, g) == LET e == ExprOf(f.n, Len(f.vs) + 1)
                   IN  e # 0 => Nodes[g.n].k \notin StmtKind /\ ty[e] = AnswerType(ty, g.n)

FrameT(ht, ty, f) == \A i \in 1 .. Len(f.vs) :
                       ExprOf(f.n, i) # 0 => VT(ht, f.vs[i], ty[ExprOf(f.n, i)])
FramesT(ht, ty, st) == /\ \A j \in 1 .. Len(st) : FrameT(ht, ty, st[j])
                       /\ \A j \in 1 .. Len(st) - 1 : Wants(ty, st[j], st[j + 1])
EnvsT(ht, es) == \A e \in 1 .. Len(es) : \A x \in Name :
                   es[e].vars[x].d # 0 => VT(ht, es[e].vars[x].v, Nodes[es[e].vars[x].d].ty)
HeapT(ht, h) == /\ ht \in Seq(Type) /\ Len(ht) = Len(h)
                /\ \A r \in 1 .. Len(h) : \A i \in 1 .. Len(h[r]) : VT(ht, h[r][i], ht[r])
\* A Return carries what the function that the statement it has left is in returns.
Returns2 == {"Block", "Func", "If", "While", "For"}
FlowT(ht, p, st, fl) ==
  fl # Normal /\ st # <<>> => /\ Nodes[st[Len(st)].n].k \in Returns2
                              /\ VT(ht, fl.v, RetOf(p, st[Len(st)].n))

TypedBy(ty, ht) == /\ HeapT(ht, heap) /\ EnvsT(ht, envs) /\ FramesT(ht, ty, stack)
                   /\ FlowT(ht, prog, stack, flow)
TypedInv(ty) == \E ht \in Seq(Type) : TypedBy(ty, ht)

\* The globals before `decl` are defined, but for the one that is being initialised;
\* main runs when all are.
GlobalsDefined ==
  status = "run" =>
    /\ \A i \in 1 .. Len(prog) :
         /\ i < decl /\ Nodes[prog[i]].k = "VarDecl"
         /\ stack # <<>> => stack[1].n # prog[i]
         => envs[Globals].vars[Nodes[prog[i]].name].d # 0
    /\ stack # <<>> /\ Nodes[stack[1].n].k = "Func" => decl = Len(prog) + 2

\* The two panics that a well typed program still has.
RemainderOfFloats == /\ Here.k \in {"Binary", "CompoundAssign"} /\ Here.op = "Mod"
                     /\ Top.vs[Done].k = "Float"
GlobalNotYetDefined ==
  /\ Nodes[stack[1].n].k = "VarDecl"
  /\ \E n \in Uses(Top) : /\ Owner(Top.env, Nodes[n].name) = {}
                          /\ \E i \in 1 .. Len(prog) : Means(ScopesOf(prog)[n], Nodes[n].name) = prog[i]

\* Between the declarations no Return is on its way up.
AtRest == stack = <<>> => flow = Normal

\* A well typed program in a state that its types describe.
WellRun(ty, ht) == /\ TypeOK /\ SoundInv /\ WellTyped(ty, prog) /\ GlobalsDefined /\ AtRest
                   /\ ht \in Seq(Type) /\ TypedBy(ty, ht)
\* What every step is to keep.
Fine(ty) == TypedInv(ty)' /\ (status' = "panic" => RemainderOfFloats \/ GlobalNotYetDefined)

-----------------------------------------------------------------------------
(***************************************************************************)
(* Values.                                                                 *)
(***************************************************************************)
LEMMA ScalarT ==
  ASSUME NEW ht, NEW v
  PROVE  /\ VT(ht, v, TInt) <=> v.k = "Int"
         /\ VT(ht, v, TFloat) <=> v.k = "Float"
         /\ VT(ht, v, TBool) <=> v.k = "Bool"
         /\ VT(ht, v, TStr) <=> v.k = "Str"
         /\ VT(ht, v, TVoid) <=> v.k = "Void"
  BY DEF VT, IsArray, TInt, TFloat, TBool, TStr, TVoid, Ty

LEMMA ArrayT ==
  ASSUME NEW ht, NEW v, NEW t \in Type
  PROVE  /\ IsArray(t) => (VT(ht, v, t) <=> v.k = "Array" /\ ht[v.r] = ElemOf(t))
         /\ VT(ht, v, ArrayOf(t)) <=> v.k = "Array" /\ ht[v.r] = t
  BY ArrayTypes DEF VT

\* The kinds of what the operators make.
LEMMA MadeKinds ==
  /\ \A i : IntV(i).k = "Int" /\ FloatV(i).k = "Float" /\ BoolV(i).k = "Bool" /\ StrV(i).k = "Str"
  /\ VoidV.k = "Void" /\ \A r : ArrV(r).k = "Array" /\ ArrV(r).r = r
  /\ \A e : Fail(e).k = "Fail" /\ Fail(e).e = e
  /\ Panic = Fail("panic")
  BY DEF IntV, FloatV, BoolV, StrV, VoidV, ArrV, Fail, Panic

\* Arrays that are made later change nothing.
Extends(ht, ht2) == Len(ht) <= Len(ht2) /\ \A r \in 1 .. Len(ht) : ht2[r] = ht[r]
LEMMA StillT ==
  ASSUME NEW m \in Nat, NEW v \in Value(m), NEW ht, Len(ht) = m, NEW ht2, Extends(ht, ht2), NEW t, VT(ht, v, t)
  PROVE  VT(ht2, v, t)
<1>1. v.k = "Array" => v.r \in 1 .. m
  BY ValueCases
<1> QED BY <1>1 DEF VT, Extends

\* What an operation gives when it fails, or not.
Gives(ht, o, t) == IF o.k = "Fail" THEN o.e # "panic" ELSE VT(ht, o, t)

LEMMA CheckedGives == ASSUME NEW x PROVE LET o == Checked(x) IN o.k = "Int" \/ (o.k = "Fail" /\ o.e # "panic")
  BY MadeKinds DEF Checked

LEMMA IntArithGives ==
  ASSUME NEW op, NEW a, NEW b
  PROVE  LET o == IntArith(op, a, b) IN o.k = "Int" \/ (o.k = "Fail" /\ o.e # "panic")
<1>1. LET o == Divide(op, a, b) IN o.k = "Int" \/ (o.k = "Fail" /\ o.e # "panic")
  BY MadeKinds DEF Divide
<1> QED BY <1>1, CheckedGives DEF IntArith

LEMMA BinaryGives ==
  ASSUME NEW ht, NEW h, NEW op, NEW o, NEW t, op \notin Lazy, BinaryRule(op, o, t),
         NEW l, NEW r, VT(ht, l, o), VT(ht, r, o)
  PROVE  LET a == ApplyBinaryOp(h, op, l, r)
         IN  Gives(ht, a, t) \/ (op = "Mod" /\ r.k = "Float" /\ a.k = "Fail")
<1> DEFINE a == ApplyBinaryOp(h, op, l, r)
<1>1. CASE op \in Equality
  <2>1. a.k = "Bool"
    BY <1>1, MadeKinds DEF ApplyBinaryOp, Equality, Arith, Bitwise, Compare, Lazy
  <2>2. t = TBool
    BY <1>1 DEF BinaryRule, Equality, Arith, Bitwise, Compare, Lazy
  <2> QED BY <2>1, <2>2, ScalarT DEF Gives
<1>2. CASE op \in Compare /\ op \notin Equality
  <2>1. o \in Numeric /\ t = TBool
    BY <1>2 DEF BinaryRule, Equality, Arith, Bitwise, Compare, Lazy
  <2>2. Both("Int", l, r) \/ Both("Float", l, r)
    BY <2>1, ScalarT DEF Numeric, Both
  <2>3. a.k = "Bool"
    BY <1>2, <2>2, MadeKinds DEF ApplyBinaryOp, Equality, Arith, Bitwise, Compare, Lazy
  <2> QED BY <2>1, <2>3, ScalarT DEF Gives
<1>3. CASE op \in Bitwise /\ op \notin Equality \cup Compare
  <2>1. o = TInt /\ t = TInt
    BY <1>3 DEF BinaryRule, Equality, Arith, Bitwise, Compare, Lazy
  <2>2. Both("Int", l, r) /\ ~Both("Str", l, r)
    BY <2>1, ScalarT DEF Both
  <2>3. a = BitOp(op, l.i, r.i)
    BY <1>3, <2>2 DEF ApplyBinaryOp, Equality, Arith, Bitwise, Compare, Lazy
  <2>4. a.k = "Int"
    BY <2>3, MadeKinds DEF BitOp
  <2> QED BY <2>1, <2>4, ScalarT DEF Gives
<1>4. CASE op \in Arith /\ op \notin Equality \cup Compare \cup Bitwise
  <2>1. t = o /\ (o \in Numeric \/ (op = "Add" /\ o = TStr))
    BY <1>4 DEF BinaryRule, Equality, Arith, Bitwise, Compare, Lazy
  <2>2. CASE o = TInt
    <3>1. Both("Int", l, r) /\ ~Both("Str", l, r)
      BY <2>2, ScalarT DEF Both
    <3>2. a = IntArith(op, l.i, r.i)
      BY <1>4, <3>1 DEF ApplyBinaryOp, Both, Equality, Arith, Bitwise, Compare, Lazy
    <3>3. a.k = "Int" \/ (a.k = "Fail" /\ a.e # "panic")
      BY <3>2, IntArithGives
    <3> QED BY <3>3, <2>1, <2>2, ScalarT DEF Gives
  <2>3. CASE o = TFloat
    <3>1. Both("Float", l, r) /\ ~Both("Str", l, r) /\ ~Both("Int", l, r) /\ r.k = "Float"
      BY <2>3, ScalarT DEF Both
    <3>2. CASE op = "Mod"
      <4>1. a = Panic
        BY <1>4, <3>1, <3>2 DEF ApplyBinaryOp, Equality, Arith, Bitwise, Compare, Lazy
      <4> QED BY <4>1, <3>1, <3>2, MadeKinds
    <3>3. CASE op # "Mod"
      <4>1. a = FloatArith(op, l.f, r.f)
        BY <1>4, <3>1, <3>3 DEF ApplyBinaryOp
      <4>2. a.k = "Float"
        BY <4>1, MadeKinds DEF FloatArith
      <4> QED BY <4>2, <2>1, <2>3, ScalarT DEF Gives
    <3> QED BY <3>2, <3>3
  <2>4. CASE op = "Add" /\ o = TStr
    <3>1. Both("Str", l, r)
      BY <2>4, ScalarT DEF Both
    <3>2. a = StrV(l.s \o r.s)
      BY <1>4, <2>4, <3>1 DEF ApplyBinaryOp, Both, Equality, Arith, Bitwise, Compare, Lazy
    <3>3. a.k = "Str"
      BY <3>2, MadeKinds
    <3> QED BY <3>3, <2>1, <2>4, ScalarT DEF Gives
  <2> QED BY <2>1, <2>2, <2>3, <2>4 DEF Numeric
<1>5. op \in Equality \cup Compare \cup Bitwise \cup Arith
  BY DEF BinaryRule, Arith
<1> QED BY <1>1, <1>2, <1>3, <1>4, <1>5

LEMMA UnaryGives ==
  ASSUME NEW ht, NEW op, NEW v, NEW t, UnaryRule(op, t), VT(ht, v, t)
  PROVE  Gives(ht, ApplyUnary(op, v), t)
<1> DEFINE a == ApplyUnary(op, v)
<1>1. CASE op = "Neg" /\ t = TInt
  <2>1. v.k = "Int" /\ a = Checked(-v.i)
    BY <1>1, ScalarT DEF ApplyUnary
  <2>2. a.k = "Int" \/ (a.k = "Fail" /\ a.e # "panic")
    BY <2>1, CheckedGives
  <2> QED BY <2>2, <1>1, ScalarT DEF Gives
<1>2. CASE op = "Neg" /\ t = TFloat
  <2>1. v.k = "Float" /\ a = FloatV(FloatNeg(v.f))
    BY <1>2, ScalarT DEF ApplyUnary
  <2> QED BY <2>1, <1>2, ScalarT, MadeKinds DEF Gives
<1>3. CASE op = "Not" /\ t = TBool
  <2>1. v.k = "Bool" /\ a = BoolV(~v.b)
    BY <1>3, ScalarT DEF ApplyUnary
  <2> QED BY <2>1, <1>3, ScalarT, MadeKinds DEF Gives
<1>4. CASE op = "BitNot" /\ t = TInt
  <2>1. v.k = "Int" /\ a = IntV(IntOf(BitPos \ Bits(v.i)))
    BY <1>4, ScalarT DEF ApplyUnary
  <2> QED BY <2>1, <1>4, ScalarT, MadeKinds DEF Gives
<1> QED
  BY <1>1, <1>2, <1>3, <1>4 DEF UnaryRule, Numeric

LEMMA IncDecGives ==
  ASSUME NEW ht, NEW op, NEW v, NEW t \in Numeric, VT(ht, v, t)
  PROVE  Gives(ht, ApplyIncDec(op, v), t)
<1> DEFINE a == ApplyIncDec(op, v)
           arith == IF op = "Inc" THEN "Add" ELSE "Sub"
<1>1. CASE t = TInt
  <2>1. v.k = "Int" /\ a = IntArith(arith, v.i, 1)
    BY <1>1, ScalarT DEF ApplyIncDec
  <2>2. a.k = "Int" \/ (a.k = "Fail" /\ a.e # "panic")
    BY <2>1, IntArithGives
  <2> QED BY <2>2, <1>1, ScalarT DEF Gives
<1>2. CASE t = TFloat
  <2>1. v.k = "Float" /\ a = FloatArith(arith, v.f, One)
    BY <1>2, ScalarT DEF ApplyIncDec
  <2>2. a.k = "Float"
    BY <2>1, MadeKinds DEF FloatArith
  <2> QED BY <2>2, <1>2, ScalarT DEF Gives
<1> QED BY <1>1, <1>2 DEF Numeric

\* The built-ins take what their parameters say, and give what they return.
LEMMA BuiltinGives ==
  ASSUME NEW ht, NEW f \in DOMAIN BuiltinParams, NEW args, Len(args) = Len(BuiltinParams[f]),
         \A i \in 1 .. Len(BuiltinParams[f]) : VT(ht, args[i], BuiltinParams[f][i])
  PROVE  Gives(ht, ApplyBuiltin(f, args), BuiltinRet(f))
<1> DEFINE a == ApplyBuiltin(f, args)
<1>1. f \in {"length", "charAt", "substring"}
  BY DEF BuiltinParams
<1>2. CASE f = "length"
  <2>1. BuiltinParams[f] = <<TStr>>
    BY <1>2 DEF BuiltinParams
  <2>2. Len(args) = 1 /\ args[1].k = "Str"
    BY <2>1, ScalarT
  <2>3. a = IntV(Wrap(Len(args[1].s)))
    BY <1>2, <2>2 DEF ApplyBuiltin, Arity, StringLength
  <2> QED BY <2>3, <1>2, MadeKinds, ScalarT DEF Gives, BuiltinRet
<1>3. CASE f = "charAt"
  <2>1. BuiltinParams[f] = <<TStr, TInt>>
    BY <1>3 DEF BuiltinParams
  <2>2. Len(args) = 2 /\ args[1].k = "Str" /\ args[2].k = "Int"
    BY <2>1, ScalarT
  <2>3. a = CharAt(args)
    BY <1>3, <2>2 DEF ApplyBuiltin, Arity
  <2>4. a.k = "Str" \/ (a.k = "Fail" /\ a.e # "panic")
    BY <2>2, <2>3, MadeKinds DEF CharAt
  <2> QED BY <2>4, <1>3, ScalarT DEF Gives, BuiltinRet
<1>4. CASE f = "substring"
  <2>1. BuiltinParams[f] = <<TStr, TInt, TInt>>
    BY <1>4 DEF BuiltinParams
  <2>2. Len(args) = 3 /\ args[1].k = "Str" /\ args[2].k = "Int" /\ args[3].k = "Int"
    BY <2>1, ScalarT
  <2>3. a = Substring(args)
    BY <1>4, <2>2 DEF ApplyBuiltin, Arity
  <2>4. a.k = "Str" \/ (a.k = "Fail" /\ a.e # "panic")
    BY <2>2, <2>3, MadeKinds DEF Substring
  <2> QED BY <2>4, <1>4, ScalarT DEF Gives, BuiltinRet
<1> QED BY <1>1, <1>2, <1>3, <1>4

-----------------------------------------------------------------------------
(***************************************************************************)
(* The parts of a state, one at a time.                                    *)
(***************************************************************************)
LEMMA FrameHas ==
  ASSUME NEW m, NEW e, NEW f \in Frames(m, e)
  PROVE  /\ f.vs \in Seq(Value(m)) /\ Len(f.vs) \in Nat /\ DOMAIN f.vs = 1 .. Len(f.vs) /\ f.n \in NodeId
         /\ \A i \in 1 .. Len(f.vs) : f.vs[i] \in Value(m)
<1>1. f.vs \in Seq(Value(m)) /\ f.n \in NodeId
  BY DEF Frames
<1> QED BY <1>1

\* Nothing that was typed changes its type when an array is made.
LEMMA MoreFrames ==
  ASSUME NEW m \in Nat, NEW e, NEW st \in Seq(Frames(m, e)), NEW ht, Len(ht) = m, NEW ht2, Extends(ht, ht2),
         NEW ty, FramesT(ht, ty, st)
  PROVE  FramesT(ht2, ty, st)
<1>1. ASSUME NEW j \in 1 .. Len(st) PROVE FrameT(ht2, ty, st[j])
  <2>1. st[j] \in Frames(m, e) /\ FrameT(ht, ty, st[j])
    BY DEF FramesT
  <2>2. \A i \in 1 .. Len(st[j].vs) : st[j].vs[i] \in Value(m)
    BY <2>1, FrameHas
  <2>3. ASSUME NEW i \in 1 .. Len(st[j].vs), ExprOf(st[j].n, i) # 0
        PROVE  VT(ht2, st[j].vs[i], ty[ExprOf(st[j].n, i)])
    <3>1. VT(ht, st[j].vs[i], ty[ExprOf(st[j].n, i)])
      BY <2>1, <2>3 DEF FrameT
    <3> QED BY <3>1, <2>2, StillT
  <2> QED BY <2>3 DEF FrameT
<1> QED BY <1>1 DEF FramesT

LEMMA MoreEnvs ==
  ASSUME NEW m \in Nat, NEW es, Made(m, es), NEW ht, Len(ht) = m, NEW ht2, Extends(ht, ht2), EnvsT(ht, es)
  PROVE  EnvsT(ht2, es)
<1>1. ASSUME NEW e \in 1 .. Len(es), NEW x \in Name, es[e].vars[x].d # 0
      PROVE  VT(ht2, es[e].vars[x].v, Nodes[es[e].vars[x].d].ty)
  <2>1. es[e].vars[x].v \in Value(m)
    <3>1. es[e].vars \in [Name -> [v: Value(m), d: {0} \cup NodeId]]
      BY ChainParts
    <3>2. es[e].vars[x] \in [v: Value(m), d: {0} \cup NodeId]
      BY <3>1
    <3> QED BY <3>2
  <2>2. VT(ht, es[e].vars[x].v, Nodes[es[e].vars[x].d].ty)
    BY <1>1 DEF EnvsT
  <2> QED BY <2>1, <2>2, StillT
<1> QED BY <1>1 DEF EnvsT

\* A heap of one array more.
\* An array is made, in a heap h of types ht, of cells of type t.
Allocates(ht, h, t, cells) ==
  /\ Len(h) \in Nat /\ h \in Seq(Seq(Value(Len(h)))) /\ HeapT(ht, h) /\ t \in Type
  /\ cells \in Seq(Value(Len(h))) /\ \A i \in 1 .. Len(cells) : VT(ht, cells[i], t)
LEMMA MoreHeap ==
  ASSUME NEW ht, NEW h, NEW t, NEW cells, Allocates(ht, h, t, cells),
         NEW ht2, ht2 = Append(ht, t), NEW h2, h2 = Append(h, cells)
  PROVE  HeapT(ht2, h2) /\ Extends(ht, ht2)
<1>1. /\ Len(h) \in Nat /\ h \in Seq(Seq(Value(Len(h)))) /\ HeapT(ht, h) /\ t \in Type
      /\ cells \in Seq(Value(Len(h))) /\ \A i \in 1 .. Len(cells) : VT(ht, cells[i], t)
  BY DEF Allocates
<1>2. ht2 = Append(ht, t)
  OBVIOUS
<1>3. h2 = Append(h, cells)
  OBVIOUS
<1> DEFINE m == Len(h)
<1>4. ht \in Seq(Type) /\ Len(ht) = m /\ m \in Nat
  BY <1>1 DEF HeapT
<1>5. ht2 \in Seq(Type) /\ Len(ht2) = m + 1 /\ ht2[m + 1] = t /\ \A r \in 1 .. m : ht2[r] = ht[r]
  BY <1>1, <1>2, <1>4, OneMore
<1>6. Len(h2) = m + 1 /\ h2[m + 1] = cells /\ \A r \in 1 .. m : h2[r] = h[r]
  BY <1>1, <1>3, OneMore
<1>7. Extends(ht, ht2)
  BY <1>4, <1>5 DEF Extends
<1>8. ASSUME NEW r \in 1 .. m + 1, NEW i \in 1 .. Len(h2[r])
      PROVE  VT(ht2, h2[r][i], ht2[r])
  <2>1. CASE r = m + 1
    <3>1. cells[i] \in Value(m) /\ VT(ht, cells[i], t)
      BY <1>1, <1>4, <1>6, <1>8, <2>1
    <3>2. VT(ht2, cells[i], t)
      BY <3>1, <1>4, <1>7, StillT
    <3> QED BY <3>2, <1>5, <1>6, <2>1
  <2>2. CASE r # m + 1
    <3>1. r \in 1 .. m
      BY <2>2, <1>4
    <3>2. h2[r] = h[r] /\ ht2[r] = ht[r] /\ h[r] \in Seq(Value(m))
      BY <1>1, <3>1, <1>5, <1>6
    <3>3. h[r][i] \in Value(m)
      BY <3>2, <1>8
    <3>4. VT(ht, h[r][i], ht[r])
      BY <1>1, <3>1, <3>2, <1>8 DEF HeapT
    <3>5. VT(ht2, h[r][i], ht[r])
      BY <3>3, <3>4, <1>4, <1>7, StillT
    <3> QED BY <3>5, <3>2
  <2> QED BY <2>1, <2>2
<1> QED
  BY <1>2, <1>3, <1>5, <1>6, <1>7, <1>8 DEF HeapT

\* A store of the right type, wherever it is.
LEMMA StoredHeap ==
  ASSUME NEW m, NEW h \in Seq(Seq(Value(m))), NEW ht, HeapT(ht, h), NEW r \in 1 .. Len(h), NEW c, NEW v,
         VT(ht, v, ht[r]), NEW h2, h2 = [h EXCEPT ![r][c] = v]
  PROVE  HeapT(ht, h2)
<1>1. Len(h2) = Len(h) /\ Len(h) \in Nat /\ \A s \in 1 .. Len(h) : s # r => h2[s] = h[s]
  OBVIOUS
<1>2. h2[r] = [h[r] EXCEPT ![c] = v] /\ h[r] \in Seq(Value(m))
  OBVIOUS
<1>3. Len(h2[r]) = Len(h[r])
  BY <1>2
<1>4. \A i \in 1 .. Len(h[r]) : h2[r][i] = IF i = c THEN v ELSE h[r][i]
  BY <1>2
<1>5. ASSUME NEW s \in 1 .. Len(h2), NEW i \in 1 .. Len(h2[s]) PROVE VT(ht, h2[s][i], ht[s])
  <2>1. CASE s = r
    BY <2>1, <1>3, <1>4, <1>5 DEF HeapT
  <2>2. CASE s # r
    BY <2>2, <1>1, <1>5 DEF HeapT
  <2> QED BY <2>1, <2>2
<1> QED BY <1>1, <1>5 DEF HeapT

\* An environment more, which holds nothing yet.
LEMMA ChildT ==
  ASSUME NEW ht, NEW m, NEW es, Made(m, es), ChainsOf(es), EnvsT(ht, es), NEW e \in 1 .. Len(es), NEW es2, es2 = Child(es, e)
  PROVE  EnvsT(ht, es2)
<1>1. /\ Len(es2) = Len(es) + 1 /\ \A j \in 1 .. Len(es) : es2[j] = es[j]
      /\ es2[Len(es2)].vars = Empty /\ Len(es) \in Nat
  BY OneChild DEF Made
<1>2. ASSUME NEW j \in 1 .. Len(es2), NEW x \in Name, es2[j].vars[x].d # 0
      PROVE  VT(ht, es2[j].vars[x].v, Nodes[es2[j].vars[x].d].ty)
  <2>1. j # Len(es2)
    BY <1>1, <1>2 DEF Empty, Unbound
  <2>2. j \in 1 .. Len(es) /\ es2[j] = es[j]
    BY <2>1, <1>1
  <2> QED BY <2>2, <1>2 DEF EnvsT
<1> QED BY <1>2 DEF EnvsT

LEMMA GrownT ==
  ASSUME NEW ht, NEW m, NEW es, Made(m, es), ChainsOf(es), EnvsT(ht, es), NEW e \in 1 .. Len(es), NEW w, NEW es2,
         Grown(es, es2, e, w)
  PROVE  EnvsT(ht, es2)
<1>1. CASE w = 0 /\ es2 = es
  BY <1>1
<1>2. CASE w = 1 /\ es2 = Child(es, e)
  BY <1>2, ChildT
<1>3. CASE w = 2 /\ es2 = Child(Child(es, e), Len(es) + 1)
  <2>1. PICK es1 : es1 = Child(es, e)
    OBVIOUS
  <2>2. Made(m, es1) /\ ChainsOf(es1) /\ Len(es1) = Len(es) + 1 /\ Len(es) \in Nat
    BY <2>1, OneChild DEF Made
  <2>3. EnvsT(ht, es1)
    BY <2>1, ChildT
  <2>4. Len(es) + 1 \in 1 .. Len(es1)
    BY <2>2
  <2> QED BY <2>1, <2>2, <2>3, <2>4, <1>3, ChildT
<1> QED BY <1>1, <1>2, <1>3 DEF Grown

\* A call's environment holds its arguments.
LEMMA CalledT ==
  ASSUME NEW ht, TypeOK, ChainsOf(envs), EnvsT(ht, envs), NEW b,
         \A x \in Name : b[x].d # 0 => VT(ht, b[x].v, Nodes[b[x].d].ty), NEW es2, es2 = Called(b)
  PROVE  EnvsT(ht, es2)
<1>1. /\ Len(es2) = Len(envs) + 1 /\ \A j \in 1 .. Len(envs) : es2[j] = envs[j]
      /\ es2[Len(envs) + 1].vars = b /\ Len(envs) \in Nat
  BY CallScope, TypeParts
<1>2. ASSUME NEW j \in 1 .. Len(es2), NEW x \in Name, es2[j].vars[x].d # 0
      PROVE  VT(ht, es2[j].vars[x].v, Nodes[es2[j].vars[x].d].ty)
  <2>1. CASE j = Len(es2)
    BY <2>1, <1>1, <1>2
  <2>2. CASE j # Len(es2)
    <3>1. j \in 1 .. Len(envs) /\ es2[j] = envs[j]
      BY <2>2, <1>1
    <3> QED BY <3>1, <1>2 DEF EnvsT
  <2> QED BY <2>1, <2>2
<1> QED BY <1>2 DEF EnvsT

\* A store to a variable, and a definition.
LEMMA BoundT ==
  ASSUME NEW ht, NEW m, NEW es, Made(m, es), EnvsT(ht, es), NEW e \in 1 .. Len(es), NEW y \in Name, NEW b,
         VT(ht, b.v, Nodes[b.d].ty), NEW es2, es2 = [es EXCEPT ![e].vars[y] = b]
  PROVE  EnvsT(ht, es2)
<1>1. Len(es2) = Len(es) /\ \A j \in 1 .. Len(es) : j # e => es2[j] = es[j]
  BY DEF Made
<1>2. es2[e] = [es[e] EXCEPT !.vars[y] = b] /\ es[e] \in Environments(m, Len(es))
  BY DEF Made
<1>3. es2[e].vars = [es[e].vars EXCEPT ![y] = b] /\ DOMAIN es[e].vars = Name
  BY <1>2 DEF Environments
<1>4. \A x \in Name : es2[e].vars[x] = IF x = y THEN b ELSE es[e].vars[x]
  BY <1>3
<1>5. ASSUME NEW j \in 1 .. Len(es2), NEW x \in Name, es2[j].vars[x].d # 0
      PROVE  VT(ht, es2[j].vars[x].v, Nodes[es2[j].vars[x].d].ty)
  <2>1. CASE j # e
    BY <2>1, <1>1, <1>5 DEF EnvsT
  <2>2. CASE j = e
    BY <2>2, <1>4, <1>5 DEF EnvsT
  <2> QED BY <2>1, <2>2
<1> QED BY <1>5 DEF EnvsT

\* One activation more, one less, and one that has other values.
LEMMA PushT ==
  ASSUME TypeOK, NEW ty, NEW ht, FramesT(ht, ty, stack), NEW n, NEW e, stack' = Push(n, e),
         stack # <<>> => Wants(ty, Top, Frame(n, e))
  PROVE  FramesT(ht, ty, stack')
<1>1. /\ Len(stack) \in Nat /\ Len(stack') = Len(stack) + 1
      /\ \A j \in 1 .. Len(stack) : stack'[j] = stack[j] /\ stack'[Len(stack) + 1] = Frame(n, e)
  BY Pushed
<1>2. Frame(n, e).vs = <<>>
  BY FrameParts
<1>3. ASSUME NEW j \in 1 .. Len(stack') PROVE FrameT(ht, ty, stack'[j])
  <2>1. CASE j = Len(stack) + 1
    <3>1. stack'[j] = Frame(n, e)
      BY <2>1, Pushed
    <3> QED BY <3>1, <1>2 DEF FrameT
  <2>2. CASE j # Len(stack) + 1
    BY <2>2, <1>1 DEF FramesT
  <2> QED BY <2>1, <2>2
<1>4. ASSUME NEW j \in 1 .. Len(stack') - 1 PROVE Wants(ty, stack'[j], stack'[j + 1])
  <2>1. CASE j = Len(stack)
    BY <2>1, <1>1, <1>4 DEF Top
  <2>2. CASE j # Len(stack)
    <3>1. j \in 1 .. Len(stack) - 1 /\ stack'[j] = stack[j] /\ stack'[j + 1] = stack[j + 1]
      BY <2>2, <1>1, <1>4
    <3> QED BY <3>1 DEF FramesT
  <2> QED BY <2>1, <2>2
<1> QED BY <1>3, <1>4 DEF FramesT

LEMMA AnswerT ==
  ASSUME NEW m, NEW ev, NEW f \in Frames(m, ev), NEW ty, NEW ht, FrameT(ht, ty, f), NEW g, Wants(ty, f, g),
         NEW v, Nodes[g.n].k \notin StmtKind => VT(ht, v, AnswerType(ty, g.n)),
         NEW f2, f2.n = f.n, f2.vs = Append(f.vs, v)
  PROVE  FrameT(ht, ty, f2)
<1>1. Len(f.vs) \in Nat /\ f.vs \in Seq(Value(m))
  BY FrameHas
<1>2. Len(f2.vs) = Len(f.vs) + 1 /\ f2.vs[Len(f.vs) + 1] = v /\ \A i \in 1 .. Len(f.vs) : f2.vs[i] = f.vs[i]
  BY <1>1
<1>3. ASSUME NEW i \in 1 .. Len(f2.vs), ExprOf(f2.n, i) # 0 PROVE VT(ht, f2.vs[i], ty[ExprOf(f2.n, i)])
  <2>1. CASE i = Len(f.vs) + 1
    BY <2>1, <1>2, <1>3 DEF Wants
  <2>2. CASE i # Len(f.vs) + 1
    <3>1. i \in 1 .. Len(f.vs)
      BY <2>2, <1>1, <1>2
    <3> QED BY <3>1, <1>2, <1>3 DEF FrameT
  <2> QED BY <2>1, <2>2
<1> QED BY <1>3 DEF FrameT

LEMMA PopT ==
  ASSUME TypeOK, stack # <<>>, NEW ty, NEW ht, FramesT(ht, ty, stack), NEW v, stack' = Popped(v),
         Here.k \notin StmtKind => VT(ht, v, AnswerType(ty, Top.n))
  PROVE  FramesT(ht, ty, stack')
<1> DEFINE L == Len(stack)
<1>1. /\ L \in Nat \ {0} /\ Len(stack') = L - 1 /\ \A j \in 1 .. L - 2 : stack'[j] = stack[j]
      /\ \A j \in 1 .. L - 1 : stack'[j].n = stack[j].n
      /\ L > 1 => stack'[L - 1].vs = Append(stack[L - 1].vs, v)
  BY Answered
<1>2. ASSUME NEW j \in 1 .. Len(stack') PROVE FrameT(ht, ty, stack'[j])
  <2>1. CASE j = L - 1
    <3>1. stack[j] \in Frames(Len(heap), Len(envs)) /\ L > 1 /\ j \in 1 .. L - 1 /\ j + 1 = L
      BY <2>1, <1>1, <1>2, StackAt
    <3>2. FrameT(ht, ty, stack[j]) /\ Wants(ty, stack[j], Top)
      BY <3>1, <1>1 DEF FramesT, Top
    <3>3. stack'[j].n = stack[j].n /\ stack'[j].vs = Append(stack[j].vs, v)
      BY <3>1, <2>1, <1>1
    <3> QED BY <3>1, <3>2, <3>3, AnswerT DEF Here
  <2>2. CASE j # L - 1
    <3>1. j \in 1 .. L - 2 /\ j \in 1 .. L
      BY <2>2, <1>1, <1>2
    <3>2. stack'[j] = stack[j] /\ FrameT(ht, ty, stack[j])
      BY <3>1, <1>1 DEF FramesT
    <3> QED BY <3>2
  <2> QED BY <2>1, <2>2
<1>3. ASSUME NEW j \in 1 .. Len(stack') - 1 PROVE Wants(ty, stack'[j], stack'[j + 1])
  <2>1. j \in 1 .. L - 1 /\ stack'[j] = stack[j] /\ stack'[j + 1].n = stack[j + 1].n
    BY <1>1, <1>3
  <2>2. Wants(ty, stack[j], stack[j + 1])
    BY <2>1 DEF FramesT
  <2> QED BY <2>1, <2>2 DEF Wants
<1> QED BY <1>2, <1>3 DEF FramesT

LEMMA SetT ==
  ASSUME TypeOK, stack # <<>>, NEW ty, NEW ht, FramesT(ht, ty, stack), NEW vs, stack' = SetTop(vs),
         NEW g, g = [Top EXCEPT !.vs = vs], FrameT(ht, ty, g)
  PROVE  FramesT(ht, ty, stack')
<1> DEFINE L == Len(stack)
<1>1. /\ L \in Nat \ {0} /\ Len(stack') = L /\ \A j \in 1 .. L - 1 : stack'[j] = stack[j]
      /\ stack'[L] = g /\ \A j \in 1 .. L : stack'[j].n = stack[j].n
  BY Changed
<1>2. ASSUME NEW j \in 1 .. Len(stack') PROVE FrameT(ht, ty, stack'[j])
  <2>1. CASE j = L
    BY <2>1, <1>1
  <2>2. CASE j # L
    BY <2>2, <1>1, <1>2 DEF FramesT
  <2> QED BY <2>1, <2>2
<1>3. ASSUME NEW j \in 1 .. Len(stack') - 1 PROVE Wants(ty, stack'[j], stack'[j + 1])
  <2>1. j \in 1 .. L - 1 /\ stack'[j] = stack[j] /\ stack'[j + 1].n = stack[j + 1].n
    BY <1>1, <1>3
  <2>2. Wants(ty, stack[j], stack[j + 1])
    BY <2>1 DEF FramesT
  <2> QED BY <2>1, <2>2 DEF Wants
<1> QED BY <1>2, <1>3 DEF FramesT

LEMMA CutT ==
  ASSUME TypeOK, stack # <<>>, NEW ty, NEW ht, FramesT(ht, ty, stack), stack' = SubSeq(stack, 1, Len(stack) - 1)
  PROVE  FramesT(ht, ty, stack')
<1>1. /\ Len(stack) \in Nat \ {0} /\ Len(stack') = Len(stack) - 1
      /\ \A j \in 1 .. Len(stack) - 1 : stack'[j] = stack[j]
  BY Cut
<1>2. ASSUME NEW j \in 1 .. Len(stack') PROVE FrameT(ht, ty, stack'[j])
  BY <1>1, <1>2 DEF FramesT
<1>3. ASSUME NEW j \in 1 .. Len(stack') - 1 PROVE Wants(ty, stack'[j], stack'[j + 1])
  BY <1>1, <1>3 DEF FramesT
<1> QED BY <1>2, <1>3 DEF FramesT
-----------------------------------------------------------------------------
(***************************************************************************)
(* A step, from what it does to the stack, the environments and the heap.  *)
(***************************************************************************)
LEMMA Settled ==
  ASSUME NEW ty, NEW ht2, HeapT(ht2, heap'), EnvsT(ht2, envs'), FramesT(ht2, ty, stack'),
         FlowT(ht2, prog', stack', flow'), status' # "panic"
  PROVE  Fine(ty)
<1>1. ht2 \in Seq(Type)
  BY DEF HeapT
<1>2. TypedBy(ty, ht2)'
  BY DEF TypedBy
<1> QED BY <1>1, <1>2 DEF Fine, TypedInv

LEMMA WellParts ==
  ASSUME NEW ty, NEW ht, WellRun(ty, ht)
  PROVE  /\ TypeOK /\ HeapT(ht, heap) /\ EnvsT(ht, envs) /\ FramesT(ht, ty, stack) /\ FlowT(ht, prog, stack, flow)
         /\ StackOf(prog, stack) /\ ChainsOf(envs) /\ OwnOf(envs, stack) /\ NamesOf(prog, envs, stack) /\ FallOf(stack)
         /\ WellTyped(ty, prog) /\ prog \in Programs /\ ht \in Seq(Type) /\ Len(ht) = Len(heap) /\ Len(heap) \in Nat
         /\ Made(Len(heap), envs)
  BY TypeParts, EnvsMade DEF WellRun, TypedBy, SoundInv, HeapT, TypeOK

\* What is well typed about a node of the program.
LEMMA KnownNode ==
  ASSUME NEW ty, NEW ht, WellRun(ty, ht), NEW n \in NodesOf(prog)
  PROVE  /\ Nodes[n].k \in ExprKind => ty[n] \in Type /\ ExprRule(ty, prog, ScopesOf(prog)[n], n)
         /\ StmtRule(ty, RetOf(prog, n), n)
  BY WellParts DEF WellTyped, Judged

LEMMA HaltFine ==
  ASSUME NEW ty, NEW ht, WellRun(ty, ht), NEW s, Halt(s),
         s = "panic" => RemainderOfFloats \/ GlobalNotYetDefined
  PROVE  Fine(ty)
<1>1. stack' = <<>> /\ heap' = heap /\ envs' = envs /\ status' = s
  BY DEF Halt
<1>2. FramesT(ht, ty, stack') /\ FlowT(ht, prog', stack', flow')
  BY <1>1 DEF FramesT, FlowT
<1>3. HeapT(ht, heap') /\ EnvsT(ht, envs') /\ ht \in Seq(Type)
  BY <1>1, WellParts
<1>4. TypedBy(ty, ht)'
  BY <1>2, <1>3 DEF TypedBy
<1> QED BY <1>1, <1>3, <1>4 DEF Fine, TypedInv

\* A step that leaves the heap alone, while no Return is on its way up.
LEMMA StackFine ==
  ASSUME NEW ty, NEW ht, WellRun(ty, ht), Running, heap' = heap, flow' = flow, status' = status,
         EnvsT(ht, envs'), FramesT(ht, ty, stack')
  PROVE  Fine(ty)
<1>1. flow' = Normal /\ status' # "panic"
  BY DEF Running
<1>2. HeapT(ht, heap') /\ FlowT(ht, prog', stack', flow')
  BY <1>1, WellParts DEF FlowT
<1> QED BY <1>1, <1>2, Settled

LEMMA EvalFine ==
  ASSUME NEW ty, NEW ht, WellRun(ty, ht), Running, NEW n, Eval(n), Wants(ty, Top, Frame(n, Top.env))
  PROVE  Fine(ty)
<1>1. stack' = Push(n, Top.env) /\ heap' = heap /\ flow' = flow /\ status' = status /\ envs' = envs
  BY DEF Eval
<1>2. FramesT(ht, ty, stack') /\ EnvsT(ht, envs')
  BY <1>1, WellParts, PushT
<1> QED BY <1>1, <1>2, StackFine

\* A statement, in an environment that may be new.
LEMMA RunFine ==
  ASSUME NEW ty, NEW ht, WellRun(ty, ht), Running, NEW n, NEW e, stack' = Push(n, e),
         UNCHANGED <<prog, decl, heap, flow, out, status>>, EnvsT(ht, envs'),
         ExprOf(Top.n, Done + 1) = 0
  PROVE  Fine(ty)
<1>1. Wants(ty, Top, Frame(n, e))
  BY DEF Wants, Done
<1>2. FramesT(ht, ty, stack')
  BY <1>1, WellParts, PushT
<1> QED BY <1>2, StackFine

LEMMA PopFine ==
  ASSUME NEW ty, NEW ht, WellRun(ty, ht), Running, NEW v, stack' = Popped(v),
         UNCHANGED <<prog, decl, heap, flow, out, status>>, EnvsT(ht, envs'),
         Here.k \notin StmtKind => VT(ht, v, AnswerType(ty, Top.n))
  PROVE  Fine(ty)
<1>1. stack # <<>>
  BY DEF Running
<1>2. FramesT(ht, ty, stack')
  BY <1>1, WellParts, PopT
<1> QED BY <1>2, StackFine

LEMMA YieldFine ==
  ASSUME NEW ty, NEW ht, WellRun(ty, ht), Running, NEW v, Yield(v),
         Here.k \notin StmtKind => VT(ht, v, AnswerType(ty, Top.n))
  PROVE  Fine(ty)
<1>1. /\ stack' = Popped(v) /\ heap' = heap /\ flow' = flow /\ status' = status /\ envs' = envs
      /\ UNCHANGED <<prog, decl, heap, flow, out, status>>
  BY DEF Yield
<1>2. EnvsT(ht, envs')
  BY <1>1, WellParts
<1> QED BY <1>1, <1>2, PopFine

LEMMA FinishFine ==
  ASSUME NEW ty, NEW ht, WellRun(ty, ht), Running, NEW o, Finish(o), Here.k \in ExprKind,
         Gives(ht, o, ty[Top.n]) \/ (RemainderOfFloats /\ o.k = "Fail")
  PROVE  Fine(ty)
<1>1. CASE o.k = "Fail"
  BY <1>1, HaltFine DEF Finish, Gives
<1>2. CASE o.k # "Fail"
  <2>1. Yield(o) /\ VT(ht, o, ty[Top.n]) /\ AnswerType(ty, Top.n) = ty[Top.n]
    BY <1>2, KindsApart DEF Finish, Gives, AnswerType, Here
  <2> QED BY <2>1, YieldFine
<1> QED BY <1>1, <1>2

\* An activation takes a value that it did not ask another for, or starts again.
LEMMA SetFine ==
  ASSUME NEW ty, NEW ht, WellRun(ty, ht), Running, NEW vs, stack' = SetTop(vs),
         UNCHANGED <<prog, decl, envs, heap, flow, out, status>>,
         NEW g, g = [Top EXCEPT !.vs = vs], FrameT(ht, ty, g)
  PROVE  Fine(ty)
<1>1. stack # <<>> /\ EnvsT(ht, envs')
  BY WellParts DEF Running
<1>2. FramesT(ht, ty, stack')
  BY <1>1, WellParts, SetT
<1> QED BY <1>1, <1>2, StackFine

LEMMA ExprOfs ==
  ASSUME NEW n, NEW i
  PROVE  LET nd == Nodes[n]  ops == Operands(nd)
         IN  /\ nd.k \in Evaluated => ExprOf(n, i) = IF (nd.k = "Ternary" /\ i > 1) \/ (nd.k = "Call" /\ i > Len(ops)) THEN n
                                                    ELSE IF ops[i] = Slot THEN nd.kids[1] ELSE ops[i]
             /\ nd.k \in {"If", "While"} => ExprOf(n, i) = IF i = 1 THEN nd.kids[1] ELSE 0
             /\ nd.k = "For" => ExprOf(n, i) = IF i = 2 THEN nd.kids[2] ELSE 0
             /\ nd.k \in {"Block", "Func"} => ExprOf(n, i) = 0
  BY DEF ExprOf, Evaluated, ExprKind

\* The values that an activation has.
LEMMA TopT ==
  ASSUME NEW ty, NEW ht, WellRun(ty, ht), stack # <<>>
  PROVE  /\ Top \in Frames(Len(heap), Len(envs)) /\ FrameT(ht, ty, Top) /\ Done \in Nat /\ DOMAIN Top.vs = 1 .. Done
         /\ Top.vs \in Seq(Value(Len(heap))) /\ \A i \in 1 .. Done : Top.vs[i] \in Value(Len(heap))
         /\ \A i \in 1 .. Done : ExprOf(Top.n, i) # 0 => VT(ht, Top.vs[i], ty[ExprOf(Top.n, i)])
<1>1. Top \in Frames(Len(heap), Len(envs)) /\ stack \in Seq(Frames(Len(heap), Len(envs)))
  BY WellParts, TopType
<1>2. Len(stack) \in 1 .. Len(stack)
  BY <1>1
<1>3. FrameT(ht, ty, Top)
  BY <1>2, WellParts DEF FramesT, Top
<1> QED BY <1>1, <1>3, FrameHas DEF FrameT, Done

LEMMA OperandT ==
  ASSUME NEW ty, NEW ht, WellRun(ty, ht), stack # <<>>, Here.k \in Evaluated \ {"Ternary"}, NEW i \in 1 .. Done,
         Here.k = "Call" => i <= Len(Operands(Here)), Operands(Here)[i] # Slot
  PROVE  VT(ht, Top.vs[i], ty[Operands(Here)[i]]) /\ Top.vs[i] \in Value(Len(heap))
<1>1. ExprOf(Top.n, i) = Operands(Here)[i]
  <2>1. ~(Here.k = "Call" /\ i > Len(Operands(Here)))
    <3>1. CASE Here.k = "Call"
      <4>1. Len(Operands(Here)) \in Nat /\ i <= Len(Operands(Here)) /\ i \in Nat
        BY <3>1, WellParts, TopType, OperandsType DEF Here
      <4> QED BY <4>1
    <3> QED BY <3>1
  <2> QED BY <2>1, ExprOfs DEF Here
<1> QED BY <1>1, TopT DEF Slot

\* Who waits for an operand waits for its type.
LEMMA WantsKid ==
  ASSUME NEW ty, NEW n, NEW e, Nodes[n].k \in ExprKind,
         ExprOf(Top.n, Done + 1) \in {0, n} \/ ty[ExprOf(Top.n, Done + 1)] = ty[n]
  PROVE  Wants(ty, Top, Frame(n, e))
<1>1. Frame(n, e).n = n /\ Nodes[n].k \notin StmtKind \cup {"Func"}
  BY FrameParts, KindsApart
<1> QED BY <1>1 DEF Wants, AnswerType, Done
-----------------------------------------------------------------------------
(***************************************************************************)
(* Names: what a variable holds, and when there is none.                   *)
(***************************************************************************)
LEMMA HereKnown ==
  ASSUME NEW ty, NEW ht, WellRun(ty, ht), stack # <<>>
  PROVE  /\ Top.n \in NodesOf(prog) /\ Top.n \in NodeId /\ Here = Nodes[Top.n] /\ Here \in Node /\ Shape(Here)
         /\ \A i \in 1 .. Len(Here.kids) : Here.kids[i] \in NodesOf(prog) /\ Here.kids[i] \in NodeId
         /\ Here.k \in ExprKind => ty[Top.n] \in Type /\ ExprRule(ty, prog, ScopesOf(prog)[Top.n], Top.n)
         /\ StmtRule(ty, RetOf(prog, Top.n), Top.n)
         /\ \A i \in 1 .. Len(Here.kids) : Nodes[Here.kids[i]].k \in ExprKind => ty[Here.kids[i]] \in Type
         /\ Len(Here.kids) \in Nat /\ DOMAIN Here.kids = 1 .. Len(Here.kids)
<1>1. Top.n \in NodesOf(prog) /\ Top.n \in NodeId /\ Here = Nodes[Top.n] /\ Here \in Node /\ Shape(Here)
  BY WellParts, TopIn, TopType DEF Here
<1>2. \A i \in 1 .. Len(Here.kids) : Here.kids[i] \in NodesOf(prog) /\ Here.kids[i] \in NodeId
  BY WellParts, TopIn, ProgramNodes
<1>3. Len(Here.kids) \in Nat /\ DOMAIN Here.kids = 1 .. Len(Here.kids)
  BY <1>1, NodeParts
<1> QED BY <1>1, <1>2, <1>3, KnownNode

\* The identifier that a step is about is in scope, and of its declaration's type.
LEMMA NameMeant ==
  ASSUME NEW ty, NEW ht, WellRun(ty, ht), stack # <<>>, NEW n \in Uses(Top), NEW x, x = Nodes[n].name,
         NEW ss, ss = ScopesOf(prog)[n], NEW e, e = Top.env
  PROVE  /\ Meant(prog, Len(heap), envs, e, ss, x) /\ Nodes[n].k = "Ident" /\ n \in NodesOf(prog) /\ n \in NodeId
         /\ ty[n] = Nodes[Means(ss, x)].ty /\ x \in Name
<1>1. /\ n \in NodesOf(prog) /\ Nodes[n].k = "Ident" /\ x \in Name /\ ss = ScopesAt(prog, Top) /\ prog \in Programs
      /\ e \in 1 .. Len(envs) /\ Made(Len(heap), envs) /\ n \in NodeId
  BY UsesScopes, TopType, WellParts
<1>2. ss \in Seq(Decls)
  BY <1>1, ScopesType
<1>3. Holds(prog, envs, e, ss)
  BY <1>1, TopHolds, WellParts
<1>4. Means(ss, x) # NoDecl /\ ty[n] = Nodes[Means(ss, x)].ty
  <2>1. "Ident" \in ExprKind
    BY DEF ExprKind
  <2>2. ExprRule(ty, prog, ss, n)
    BY <1>1, <2>1, KnownNode
  <2> QED BY <1>1, <2>2 DEF ExprRule
<1>5. envs[Globals].vars[x].d # 0 => IsGlobal(prog, envs[Globals].vars[x].d, x)
  BY <1>1, WellParts DEF NamesOf
<1>6. OneEach(prog, "VarDecl") /\ ChainsOf(envs)
  BY WellParts DEF WellTyped
<1> QED
  BY <1>1, <1>2, <1>3, <1>4, <1>5, <1>6 DEF Meant

LEMMA VariableT ==
  ASSUME NEW ty, NEW ht, WellRun(ty, ht), Running, NEW n \in Uses(Top), NEW x, x = Nodes[n].name,
         NEW o \in Owner(Top.env, x)
  PROVE  /\ o \in 1 .. Len(envs) /\ x \in Name /\ envs[o].vars[x].d # 0
         /\ Nodes[envs[o].vars[x].d].ty = ty[n]
         /\ VT(ht, envs[o].vars[x].v, ty[n]) /\ envs[o].vars[x].v \in Value(Len(heap))
<1>1. stack # <<>>
  BY DEF Running
<1>2. x \in Name /\ ty[n] = Nodes[Means(ScopesOf(prog)[n], x)].ty
  BY <1>1, NameMeant
<1>3. envs[o].vars[x].d = Means(ScopesOf(prog)[n], x)
  BY WellParts, SoundNames DEF WellRun, NamesMeanDeclarations
<1>4. o \in 1 .. Len(envs) /\ envs[o].vars[x].v \in Value(Len(heap))
  BY <1>1, <1>2, WellParts, TopType, OwnerType
<1>5. envs[o].vars[x].d # 0
  BY DEF Owner
<1> QED BY <1>2, <1>3, <1>4, <1>5, WellParts DEF EnvsT

\* A name that no environment of a chain has is declared by a global.
LEMMA NotFound ==
  ASSUME NEW p, NEW m, NEW es, NEW e, NEW ss, NEW x, Meant(p, m, es, e, ss, x), NEW c, c = es[e].chain,
         \A j \in 1 .. Len(c) : es[c[j]].vars[x].d = 0
  PROVE  IsGlobal(p, Means(ss, x), x) /\ es[Globals].vars[x].d = 0
<1>1. /\ Len(c) = Len(ss) /\ \A l \in 1 .. Len(ss) - 1 : es[c[l]].vars[x].d = ss[Len(ss) + 1 - l][x]
      /\ ss[1][x] # NoDecl => IsGlobal(p, ss[1][x], x)
  BY DEF Holds, Meant
<1>2. c # <<>> /\ c[Len(c)] = Globals /\ Len(c) \in Nat /\ c \in Seq(Nat)
  BY ChainParts DEF ChainsOf, Meant
<1>3. Len(c) \in 1 .. Len(c)
  BY <1>2
<1>4. PICK s \in 1 .. Len(ss) : ss[s][x] # NoDecl /\ Means(ss, x) = ss[s][x]
  BY MeansWhere DEF Meant
<1>5. s = 1
  <2>1. SUFFICES ASSUME s # 1 PROVE FALSE
    OBVIOUS
  <2>2. PICK l : l = Len(ss) + 1 - s
    OBVIOUS
  <2>3. l \in 1 .. Len(ss) - 1 /\ Len(ss) + 1 - l = s /\ l \in 1 .. Len(c)
    BY <1>1, <1>2, <2>1, <2>2
  <2>4. es[c[l]].vars[x].d = ss[s][x] /\ es[c[l]].vars[x].d = 0
    BY <1>1, <2>3
  <2> QED BY <1>4, <2>4 DEF NoDecl
<1> QED BY <1>1, <1>2, <1>3, <1>4, <1>5

\* Where the walk up the chain ends without the name, a global's initialiser is running.
LEMMA UnknownName ==
  ASSUME NEW ty, NEW ht, WellRun(ty, ht), Running, NEW n \in Uses(Top), Owner(Top.env, Nodes[n].name) = {}
  PROVE  GlobalNotYetDefined
<1>1. PICK x : x = Nodes[n].name
  OBVIOUS
<1>2. PICK e : e = Top.env
  OBVIOUS
<1>3. PICK ss : ss = ScopesOf(prog)[n]
  OBVIOUS
<1>4. stack # <<>> /\ status = "run"
  BY DEF Running
<1>5. Meant(prog, Len(heap), envs, e, ss, x)
  BY <1>1, <1>2, <1>3, <1>4, NameMeant
<1>6. PICK c : c = envs[e].chain
  OBVIOUS
<1>7. DOMAIN c = 1 .. Len(c) /\ Len(c) \in Nat
  BY <1>5, <1>6, ChainParts DEF Meant
<1>8. ASSUME NEW j \in 1 .. Len(c) PROVE envs[c[j]].vars[x].d = 0
  <2>1. SUFFICES ASSUME envs[c[j]].vars[x].d # 0 PROVE FALSE
    OBVIOUS
  <2>2. PICK P : P = {i \in 1 .. Len(c) : envs[c[i]].vars[x].d # 0}
    OBVIOUS
  <2>3. P \subseteq Nat /\ P # {}
    BY <1>7, <2>1, <2>2
  <2>4. PICK k \in P : \A q \in P : k <= q
    BY <2>3, Least
  <2>5. k \in 1 .. Len(c) /\ envs[c[k]].vars[x].d # 0
    BY <2>2, <2>4
  <2>6. ASSUME NEW i \in 1 .. k - 1 PROVE envs[c[i]].vars[x].d = 0
    <3>1. i \in 1 .. Len(c) /\ ~(k <= i)
      BY <1>7, <2>5
    <3> QED BY <2>2, <2>4, <3>1
  <2>7. c[k] \in Owner(e, x)
    BY <1>6, <1>7, <2>5, <2>6 DEF Owner
  <2> QED BY <1>1, <1>2, <2>7
<1>9. IsGlobal(prog, Means(ss, x), x) /\ envs[Globals].vars[x].d = 0
  <2>1. PICK es : es = envs
    OBVIOUS
  <2>2. PICK p : p = prog
    OBVIOUS
  <2>3. PICK m : m = Len(heap)
    OBVIOUS
  <2>4. Meant(p, m, es, e, ss, x) /\ c = es[e].chain /\ \A j \in 1 .. Len(c) : es[c[j]].vars[x].d = 0
    BY <1>5, <1>6, <1>8, <2>1, <2>2, <2>3
  <2>5. IsGlobal(p, Means(ss, x), x) /\ es[Globals].vars[x].d = 0
    BY ONLY <2>4, NotFound
  <2> QED BY <2>1, <2>2, <2>5
<1>10. PICK i \in 1 .. Len(prog) : Means(ss, x) = prog[i] /\ Nodes[prog[i]].k = "VarDecl" /\ Nodes[prog[i]].name = x
  BY <1>9 DEF IsGlobal
<1>11. Nodes[stack[1].n].k = "VarDecl"
  <2>1. SUFFICES ASSUME Nodes[stack[1].n].k # "VarDecl" PROVE FALSE
    OBVIOUS
  <2>2. Nodes[stack[1].n].k = "Func"
    <3>1. PICK j \in 1 .. Len(prog) : stack[1].n = prog[j]
      BY <1>4, WellParts DEF StackOf, Based
    <3> QED BY <2>1, <3>1, WellParts, ProgramNodes
  <2>3. decl = Len(prog) + 2 /\ stack[1].n # prog[i]
    BY <1>4, <1>10, <2>2 DEF WellRun, GlobalsDefined
  <2>4. i < decl
    BY <2>3, WellParts, ProgramNodes
  <2>5. envs[Globals].vars[Nodes[prog[i]].name].d # 0
    BY <1>4, <1>10, <2>3, <2>4 DEF WellRun, GlobalsDefined
  <2> QED BY <1>9, <1>10, <2>5
<1> QED BY <1>1, <1>3, <1>10, <1>11 DEF GlobalNotYetDefined
-----------------------------------------------------------------------------
(***************************************************************************)
(* The expressions.                                                        *)
(***************************************************************************)
LEMMA FineOperand == ASSUME NEW ty, NEW ht, WellRun(ty, ht), EvalOperand PROVE Fine(ty)
<1> DEFINE ops == Operands(Here)
<1>1. /\ Running /\ stack # <<>> /\ Strict(Here) /\ Done < Len(ops) /\ ops[Done + 1] # Slot /\ Eval(ops[Done + 1])
  BY DEF EvalOperand, Running
<1>2. Done \in Nat /\ Here = Nodes[Top.n] /\ Top.n \in NodeId
  BY <1>1, TopT, HereKnown
<1>3. ops \in Seq(ExprNode \cup {Slot})
  BY <1>1, <1>2, OperandKinds
<1>4. PICK n : n = ops[Done + 1]
  OBVIOUS
<1>5. Done + 1 \in 1 .. Len(ops) /\ ~(Done + 1 > Len(ops))
  BY <1>1, <1>2, <1>3
<1>6. n \in ExprNode
  BY <1>1, <1>3, <1>4, <1>5
<1>7. ExprOf(Top.n, Done + 1) = n
  <2>1. Here.k \in Evaluated /\ Here.k # "Ternary"
    BY <1>1 DEF Strict, IsLazy, Evaluated
  <2> QED BY <1>1, <1>2, <1>4, <1>5, <2>1, ExprOfs
<1>8. Wants(ty, Top, Frame(n, Top.env))
  BY <1>6, <1>7, WantsKid DEF ExprNode
<1> QED BY <1>1, <1>4, <1>8, EvalFine

LEMMA FineLiteral == ASSUME NEW ty, NEW ht, WellRun(ty, ht), EvalLiteral PROVE Fine(ty)
<1>1. Running /\ stack # <<>> /\ Yield(Here.lit) /\ Here.k \in DOMAIN LitKind
  BY DEF EvalLiteral, At, Running, LitKind
<1>2. Here.k \in ExprKind /\ Here = Nodes[Top.n] /\ Top.n \in NodeId
  BY <1>1, HereKnown DEF LitKind, ExprKind
<1>3. Here.lit.k = LitKind[Here.k] /\ ty[Top.n] = Ty(LitKind[Here.k])
  BY <1>1, <1>2, HereKnown, LiteralAssumption DEF ExprRule, LitType
<1>4. VT(ht, Here.lit, ty[Top.n]) /\ AnswerType(ty, Top.n) = ty[Top.n]
  BY <1>2, <1>3, KindsApart DEF VT, IsArray, Ty, AnswerType
<1> QED BY <1>1, <1>4, YieldFine

LEMMA FineIdent == ASSUME NEW ty, NEW ht, WellRun(ty, ht), EvalIdent PROVE Fine(ty)
<1>1. Running /\ stack # <<>> /\ Here.k = "Ident" /\ Here.k \in ExprKind
  BY DEF EvalIdent, At, Running, ExprKind
<1>2. Here = Nodes[Top.n] /\ Top.n \in Uses(Top)
  BY <1>1, HereKnown DEF Uses
<1>3. CASE Owner(Top.env, Here.name) = {}
  BY <1>1, <1>2, <1>3, UnknownName, HaltFine DEF EvalIdent
<1>4. CASE Owner(Top.env, Here.name) # {}
  <2>1. PICK o \in Owner(Top.env, Here.name) : Yield(envs[o].vars[Here.name].v)
    BY <1>4 DEF EvalIdent
  <2>2. VT(ht, envs[o].vars[Here.name].v, ty[Top.n])
    BY <1>1, <1>2, VariableT
  <2>3. AnswerType(ty, Top.n) = ty[Top.n]
    BY <1>1, <1>2 DEF AnswerType
  <2> QED BY <1>1, <2>1, <2>2, <2>3, YieldFine
<1> QED BY <1>3, <1>4

\* What a node that has its operands knows of them.
LEMMA ReadyFor ==
  ASSUME NEW ty, NEW ht, WellRun(ty, ht), NEW k, Ready(k)
  PROVE  /\ Running /\ stack # <<>> /\ Here.k = k /\ Done = Len(Operands(Here)) /\ Done \in Nat
         /\ Here.k \in Evaluated \ {"Ternary"}
         /\ \A i \in 1 .. Done : /\ Top.vs[i] \in Value(Len(heap))
                                 /\ Operands(Here)[i] # Slot => VT(ht, Top.vs[i], ty[Operands(Here)[i]])
<1>1. Running /\ stack # <<>> /\ Here.k = k /\ Done = Len(Operands(Here)) /\ Here.k \in Evaluated \ {"Ternary"}
  BY DEF Ready, At, Running, Strict, IsLazy, Evaluated
<1>2. Done \in Nat /\ \A i \in 1 .. Done : Top.vs[i] \in Value(Len(heap))
  BY <1>1, TopT
<1>3. ASSUME NEW i \in 1 .. Done, Operands(Here)[i] # Slot PROVE VT(ht, Top.vs[i], ty[Operands(Here)[i]])
  <2>1. i <= Len(Operands(Here))
    BY <1>1, <1>2
  <2> QED BY <1>1, <1>3, <2>1, OperandT
<1> QED BY <1>1, <1>2, <1>3

\* A node whose operands are its children, and nothing else.
LEMMA ReadyKids ==
  ASSUME NEW ty, NEW ht, WellRun(ty, ht), NEW k, Ready(k), k \notin {"Assign", "CompoundAssign", "IncDec", "Call"}
  PROVE  /\ Operands(Here) = Here.kids /\ Done = Len(Here.kids)
         /\ \A i \in 1 .. Done : VT(ht, Top.vs[i], ty[Here.kids[i]]) /\ Top.vs[i] \in Value(Len(heap))
<1>1. Here.k = k /\ stack # <<>>
  BY ReadyFor
<1>2. Operands(Here) = Here.kids
  BY <1>1 DEF Operands
<1>3. \A i \in 1 .. Len(Here.kids) : Here.kids[i] # Slot
  BY <1>1, HereKnown, AstAssumption DEF Slot
<1> QED BY <1>2, <1>3, ReadyFor

LEMMA FineBinary == ASSUME NEW ty, NEW ht, WellRun(ty, ht), EvalBinary PROVE Fine(ty)
<1>1. Ready("Binary") /\ Finish(ApplyBinaryOp(heap, Here.op, Top.vs[1], Top.vs[2]))
  BY DEF EvalBinary
<1>2. Running /\ stack # <<>> /\ Here.k = "Binary" /\ Here.k \in ExprKind
  BY <1>1, ReadyFor DEF ExprKind
<1>3. Done = 2
  BY <1>1, <1>2, ReadyKids, HereKnown DEF Shape
<1>4. Here.op \notin Lazy
  BY <1>1, <1>2 DEF Ready, Strict, IsLazy
<1>5. ty[Here.kids[1]] = ty[Here.kids[2]] /\ BinaryRule(Here.op, ty[Here.kids[1]], ty[Top.n])
  BY <1>2, HereKnown DEF ExprRule
<1>6. VT(ht, Top.vs[1], ty[Here.kids[1]]) /\ VT(ht, Top.vs[2], ty[Here.kids[1]])
  BY <1>1, <1>3, <1>5, ReadyKids
<1>7. PICK a : a = ApplyBinaryOp(heap, Here.op, Top.vs[1], Top.vs[2])
  OBVIOUS
<1>8. Gives(ht, a, ty[Top.n]) \/ (Here.op = "Mod" /\ Top.vs[2].k = "Float" /\ a.k = "Fail")
  BY <1>4, <1>5, <1>6, <1>7, BinaryGives
<1>9. Gives(ht, a, ty[Top.n]) \/ (RemainderOfFloats /\ a.k = "Fail")
  BY <1>2, <1>3, <1>8 DEF RemainderOfFloats
<1> QED BY <1>1, <1>2, <1>7, <1>9, FinishFine

LEMMA FineUnary == ASSUME NEW ty, NEW ht, WellRun(ty, ht), EvalUnary PROVE Fine(ty)
<1>1. Ready("Unary") /\ Finish(ApplyUnary(Here.op, Top.vs[1]))
  BY DEF EvalUnary
<1>2. Running /\ stack # <<>> /\ Here.k = "Unary" /\ Here.k \in ExprKind
  BY <1>1, ReadyFor DEF ExprKind
<1>3. Done = 1
  BY <1>1, <1>2, ReadyKids, HereKnown DEF Shape
<1>4. ty[Here.kids[1]] = ty[Top.n] /\ UnaryRule(Here.op, ty[Top.n])
  BY <1>2, HereKnown DEF ExprRule
<1>5. VT(ht, Top.vs[1], ty[Top.n])
  BY <1>1, <1>3, <1>4, ReadyKids
<1> QED BY <1>1, <1>2, <1>4, <1>5, UnaryGives, FinishFine
LEMMA FineShortCircuit == ASSUME NEW ty, NEW ht, WellRun(ty, ht), EvalShortCircuit PROVE Fine(ty)
<1>1. Running /\ stack # <<>> /\ Here.k = "Binary" /\ Here.op \in Lazy /\ Here.k \in ExprKind
  BY DEF EvalShortCircuit, At, Running, ExprKind
<1>2. ty[Here.kids[1]] = TBool /\ ty[Here.kids[2]] = TBool /\ ty[Top.n] = TBool
  <2>1. ty[Here.kids[1]] = ty[Here.kids[2]] /\ BinaryRule(Here.op, ty[Here.kids[1]], ty[Top.n])
    BY <1>1, HereKnown DEF ExprRule
  <2> QED BY <1>1, <2>1 DEF BinaryRule, Lazy, Arith, Bitwise, Compare, Equality
<1>3. Len(Here.kids) = 2 /\ \A i \in 1 .. 2 : Here.kids[i] # 0 /\ Nodes[Here.kids[i]].k \in ExprKind
  BY <1>1, HereKnown, AstAssumption DEF Shape, AllIn
<1>4. Operands(Here) = Here.kids /\ Done \in Nat
  BY <1>1, TopT DEF Operands
<1>5. \A i \in 1 .. 2 : ExprOf(Top.n, i) = Here.kids[i]
  BY <1>1, <1>3, <1>4, ExprOfs, HereKnown DEF Evaluated, Slot
<1>6. \A i \in 1 .. 2 : i <= Done => Top.vs[i].k = "Bool"
  <2>1. ASSUME NEW i \in 1 .. 2, i <= Done PROVE VT(ht, Top.vs[i], TBool)
    <3>1. i \in 1 .. Done /\ ExprOf(Top.n, i) # 0 /\ ty[ExprOf(Top.n, i)] = TBool
      BY <1>2, <1>3, <1>4, <1>5, <2>1
    <3> QED BY <1>1, <3>1, TopT
  <2> QED BY <2>1, ScalarT
<1>7. ASSUME NEW i \in 1 .. 2, Done = i - 1, Eval(Here.kids[i]) PROVE Fine(ty)
  <2>1. Done + 1 = i
    BY <1>7
  <2>2. PICK n : n = Here.kids[i]
    OBVIOUS
  <2>3. Wants(ty, Top, Frame(n, Top.env))
    BY <1>3, <1>5, <2>1, <2>2, WantsKid
  <2> QED BY <1>1, <1>7, <2>2, <2>3, EvalFine
<1>8. ASSUME NEW b, Yield(BoolV(b)) PROVE Fine(ty)
  <2>1. VT(ht, BoolV(b), TBool) /\ AnswerType(ty, Top.n) = TBool
    BY <1>1, <1>2, ScalarT, MadeKinds, HereKnown DEF AnswerType
  <2> QED BY <1>1, <1>8, <2>1, YieldFine
<1>9. CASE Done = 0
  <2>1. Eval(Here.kids[1])
    BY <1>9 DEF EvalShortCircuit
  <2> QED BY <1>7, <1>9, <2>1
<1>10. CASE Done = 1
  <2>1. Top.vs[1].k = "Bool"
    BY <1>6, <1>10
  <2>2. Eval(Here.kids[2]) \/ Yield(BoolV(TRUE)) \/ Yield(BoolV(FALSE))
    BY <1>10, <2>1 DEF EvalShortCircuit, Branch
  <2>3. CASE Eval(Here.kids[2])
    <3>1. Done = 2 - 1 /\ 2 \in 1 .. 2
      BY <1>10
    <3> QED BY <1>7, <2>3, <3>1
  <2>4. CASE Yield(BoolV(TRUE)) \/ Yield(BoolV(FALSE))
    BY <1>8, <2>4
  <2> QED BY <2>2, <2>3, <2>4
<1>11. CASE Done \notin {0, 1}
  <2>1. Top.vs[2].k = "Bool"
    BY <1>4, <1>6, <1>11
  <2>2. Yield(BoolV(TRUE)) \/ Yield(BoolV(FALSE))
    BY <1>11, <2>1 DEF EvalShortCircuit, Branch
  <2> QED BY <1>8, <2>2
<1> QED BY <1>9, <1>10, <1>11

LEMMA FineTernary == ASSUME NEW ty, NEW ht, WellRun(ty, ht), EvalTernary PROVE Fine(ty)
<1>1. Running /\ stack # <<>> /\ Here.k = "Ternary" /\ Here.k \in ExprKind
  BY DEF EvalTernary, At, Running, ExprKind
<1>2. ty[Here.kids[1]] = TBool /\ ty[Here.kids[2]] = ty[Top.n] /\ ty[Here.kids[3]] = ty[Top.n]
  BY <1>1, HereKnown DEF ExprRule
<1>3. Len(Here.kids) = 3 /\ \A i \in 1 .. 3 : Here.kids[i] # 0 /\ Nodes[Here.kids[i]].k \in ExprKind
  BY <1>1, HereKnown, AstAssumption DEF Shape, AllIn
<1>4. Operands(Here) = Here.kids /\ Done \in Nat
  BY <1>1, TopT DEF Operands
<1>5. ExprOf(Top.n, 1) = Here.kids[1] /\ ExprOf(Top.n, 2) = Top.n /\ Here = Nodes[Top.n] /\ Top.n # 0
  BY <1>1, <1>3, <1>4, ExprOfs, HereKnown, AstAssumption DEF Evaluated, Slot
<1>6. ASSUME NEW i \in 1 .. 3, Eval(Here.kids[i]), IF i = 1 THEN Done = 0 ELSE Done = 1 PROVE Fine(ty)
  <2>1. ty[ExprOf(Top.n, Done + 1)] = ty[Here.kids[i]]
    <3>1. CASE i = 1
      BY <1>5, <1>6, <3>1
    <3>2. CASE i # 1
      <4>1. i \in {2, 3} /\ Done + 1 = 2
        BY <1>6, <3>2
      <4> QED BY <1>2, <1>5, <4>1
    <3> QED BY <3>1, <3>2
  <2>2. PICK n : n = Here.kids[i]
    OBVIOUS
  <2>3. Wants(ty, Top, Frame(n, Top.env))
    BY <1>3, <2>1, <2>2, WantsKid
  <2> QED BY <1>1, <1>6, <2>2, <2>3, EvalFine
<1>7. CASE Done = 0
  <2>1. Eval(Here.kids[1])
    BY <1>7 DEF EvalTernary
  <2> QED BY <1>6, <1>7, <2>1
<1>8. CASE Done = 1
  <2>1. VT(ht, Top.vs[1], TBool)
    <3>1. 1 \in 1 .. Done /\ ExprOf(Top.n, 1) # 0 /\ ty[ExprOf(Top.n, 1)] = TBool
      BY <1>2, <1>3, <1>5, <1>8
    <3> QED BY <1>1, <3>1, TopT
  <2>2. Top.vs[1].k = "Bool"
    BY <2>1, ScalarT
  <2>3. Eval(Here.kids[2]) \/ Eval(Here.kids[3])
    BY <1>8, <2>2 DEF EvalTernary, Branch
  <2> QED BY <1>6, <1>8, <2>3
<1>9. CASE Done \notin {0, 1}
  <2>1. Yield(Top.vs[2])
    BY <1>9 DEF EvalTernary
  <2>2. VT(ht, Top.vs[2], ty[Top.n])
    <3>1. 2 \in 1 .. Done
      BY <1>4, <1>9
    <3> QED BY <1>1, <1>5, <3>1, TopT
  <2>3. AnswerType(ty, Top.n) = ty[Top.n]
    BY <1>1, <1>5 DEF AnswerType
  <2> QED BY <1>1, <2>1, <2>2, <2>3, YieldFine
<1> QED BY <1>7, <1>8, <1>9
-----------------------------------------------------------------------------
(***************************************************************************)
(* Variables and cells that are stored to.                                 *)
(***************************************************************************)
LEMMA SetVarFine ==
  ASSUME NEW ty, NEW ht, WellRun(ty, ht), Running, Here.k \in ExprKind, NEW n \in Uses(Top), NEW x, x = Nodes[n].name,
         NEW v, VT(ht, v, ty[n]), NEW w, VT(ht, w, ty[Top.n]), SetVar(x, v, w)
  PROVE  Fine(ty)
<1>1. CASE Owner(Top.env, x) = {}
  BY <1>1, UnknownName, HaltFine DEF SetVar
<1>2. CASE Owner(Top.env, x) # {}
  <2>1. PICK o \in Owner(Top.env, x) : envs' = [envs EXCEPT ![o].vars[x].v = v]
    BY <1>2 DEF SetVar
  <2>2. stack' = Popped(w) /\ UNCHANGED <<prog, decl, heap, flow, out, status>>
    BY <1>2 DEF SetVar
  <2>3. o \in 1 .. Len(envs) /\ x \in Name /\ Nodes[envs[o].vars[x].d].ty = ty[n]
    BY VariableT
  <2>4. PICK b : b = [v |-> v, d |-> envs[o].vars[x].d]
    OBVIOUS
  <2>5. envs' = [envs EXCEPT ![o].vars[x] = b]
    <3>1. envs \in Seq(Environments(Len(heap), Len(envs)))
      BY WellParts DEF Made
    <3>2. envs[o].vars \in [Name -> [v: Value(Len(heap)), d: {0} \cup NodeId]]
      <4>1. envs[o] \in Environments(Len(heap), Len(envs))
        BY <2>3, <3>1
      <4> QED BY <4>1 DEF Environments
    <3>3. [envs[o].vars[x] EXCEPT !.v = v] = b
      BY <2>3, <2>4, <3>2
    <3> QED BY <2>1, <3>3
  <2>6. VT(ht, b.v, Nodes[b.d].ty)
    BY <2>3, <2>4
  <2>7. EnvsT(ht, envs')
    <3>1. PICK es : es = envs
      OBVIOUS
    <3>2. PICK m : m = Len(heap)
      OBVIOUS
    <3>3. PICK es2 : es2 = envs'
      OBVIOUS
    <3>4. Made(m, es) /\ EnvsT(ht, es) /\ o \in 1 .. Len(es) /\ x \in Name /\ es2 = [es EXCEPT ![o].vars[x] = b]
      BY <2>3, <2>5, <3>1, <3>2, <3>3, WellParts
    <3>5. EnvsT(ht, es2)
      BY ONLY <2>6, <3>4, BoundT
    <3> QED BY <3>3, <3>5
  <2>8. AnswerType(ty, Top.n) = ty[Top.n]
    BY KindsApart DEF AnswerType, Here
  <2> QED BY <2>2, <2>7, <2>8, PopFine
<1> QED BY <1>1, <1>2

\* An array and an index of a well typed program, and the cell they name.
LEMMA CellT ==
  ASSUME NEW ty, NEW ht, WellRun(ty, ht), NEW a \in Value(Len(heap)), NEW i \in Value(Len(heap)), NEW t, IsArray(t),
         VT(ht, a, t), VT(ht, i, TInt)
  PROVE  /\ a.k = "Array" /\ i.k = "Int" /\ a.r \in 1 .. Len(heap) /\ ht[a.r] = ElemOf(t)
         /\ InBounds(i.i, a.r) => /\ VT(ht, heap[a.r][i.i + 1], ElemOf(t))
                                  /\ heap[a.r][i.i + 1] \in Value(Len(heap))
<1>1. a.k = "Array" /\ ht[a.r] = ElemOf(t) /\ i.k = "Int"
  BY ScalarT DEF VT
<1>2. a.r \in 1 .. Len(heap) /\ i.i \in Int
  BY <1>1, ValueCases, IntFacts
<1>3. ASSUME InBounds(i.i, a.r) PROVE i.i + 1 \in 1 .. Len(heap[a.r])
  <2>1. heap[a.r] \in Seq(Value(Len(heap)))
    BY <1>2, WellParts, TypeParts
  <2>2. Len(heap[a.r]) \in Nat
    BY <2>1
  <2> QED BY <1>2, <1>3, <2>2 DEF InBounds
<1>4. ASSUME InBounds(i.i, a.r) PROVE VT(ht, heap[a.r][i.i + 1], ElemOf(t))
  BY <1>1, <1>2, <1>3, <1>4, WellParts DEF HeapT
<1> QED BY <1>1, <1>2, <1>4, CellRead, WellParts

LEMMA SetCellFine ==
  ASSUME NEW ty, NEW ht, WellRun(ty, ht), Running, Here.k \in ExprKind, NEW r \in 1 .. Len(heap), NEW i,
         NEW v, VT(ht, v, ht[r]), NEW w, VT(ht, w, ty[Top.n]), SetCell(r, i, v, w)
  PROVE  Fine(ty)
<1>1. /\ heap' = [heap EXCEPT ![r][i + 1] = v] /\ stack' = Popped(w) /\ flow' = flow /\ status' = status
      /\ envs' = envs /\ prog' = prog
  BY DEF SetCell
<1>2. stack # <<>> /\ flow' = Normal /\ status' # "panic"
  BY <1>1 DEF Running
<1>3. HeapT(ht, heap')
  <2>1. PICK m : m = Len(heap)
    OBVIOUS
  <2>2. PICK h : h = heap
    OBVIOUS
  <2>3. PICK h2 : h2 = heap'
    OBVIOUS
  <2>4. PICK c : c = i + 1
    OBVIOUS
  <2>5. /\ h \in Seq(Seq(Value(m))) /\ HeapT(ht, h) /\ r \in 1 .. Len(h) /\ VT(ht, v, ht[r])
        /\ h2 = [h EXCEPT ![r][c] = v]
    BY <1>1, <2>1, <2>2, <2>3, <2>4, WellParts, TypeParts
  <2>6. HeapT(ht, h2)
    BY ONLY <2>5, StoredHeap
  <2> QED BY <2>3, <2>6
<1>4. AnswerType(ty, Top.n) = ty[Top.n]
  BY KindsApart DEF AnswerType, Here
<1>5. FramesT(ht, ty, stack') /\ EnvsT(ht, envs')
  BY <1>1, <1>2, <1>4, WellParts, PopT
<1>6. FlowT(ht, prog', stack', flow')
  BY <1>2 DEF FlowT
<1> QED BY <1>2, <1>3, <1>5, <1>6, Settled

\* The target of an assignment: a variable, or a cell.
LEMMA TargetT ==
  ASSUME NEW ty, NEW ht, WellRun(ty, ht), stack # <<>>, Here.k \in {"Assign", "CompoundAssign", "IncDec"}
  PROVE  LET t == Here.kids[1]  ks == TargetKids(Here)
         IN  /\ TargetKind(Here) = "Ident" => t \in Uses(Top)
             /\ TargetKind(Here) = "Index" => /\ Len(ks) = 2 /\ ks \in Seq(NodeId) /\ ks[1] # Slot /\ ks[2] # Slot
                                              /\ IsArray(ty[ks[1]]) /\ ty[ks[2]] = TInt /\ ty[t] = ElemOf(ty[ks[1]])
             /\ TargetKind(Here) \in {"Ident", "Index"} /\ t # Slot /\ Here.k \in ExprKind
             /\ Here.k # "IncDec" => Here.kids[2] \in NodeId /\ Here.kids[2] # Slot
<1> DEFINE t == Here.kids[1]  ks == TargetKids(Here)
<1>1. Here.k \in ExprKind /\ Here = Nodes[Top.n] /\ Top.n \in NodeId
  BY HereKnown DEF ExprKind
<1>2. TargetKind(Here) \in {"Ident", "Index"}
  BY <1>1, HereKnown DEF ExprRule, Place, TargetKind
<1>3. Len(Here.kids) \in {1, 2}
  BY HereKnown DEF Shape
<1>4. t \in NodesOf(prog) /\ t \in NodeId
  <2>1. 1 \in 1 .. Len(Here.kids)
    <3>1. PICK k : k = Len(Here.kids)
      OBVIOUS
    <3> QED BY <1>3, <3>1
  <2> QED BY <2>1, HereKnown
<1>5. ASSUME TargetKind(Here) = "Ident" PROVE t \in Uses(Top)
  BY <1>1, <1>4, <1>5 DEF Uses, TargetKind
<1>6. ASSUME TargetKind(Here) = "Index"
      PROVE  /\ Len(ks) = 2 /\ ks \in Seq(NodeId) /\ ks[1] # Slot /\ ks[2] # Slot
             /\ IsArray(ty[ks[1]]) /\ ty[ks[2]] = TInt /\ ty[t] = ElemOf(ty[ks[1]])
  <2>1. Len(ks) = 2 /\ ks \in Seq(NodeId) /\ ks[1] \in NodeId /\ ks[2] \in NodeId
    BY <1>1, <1>6, TargetType
  <2>2. Nodes[t].k = "Index" /\ "Index" \in ExprKind /\ ks = Nodes[t].kids
    BY <1>6 DEF TargetKind, TargetKids, ExprKind
  <2>3. IsArray(ty[ks[1]]) /\ ty[ks[2]] = TInt /\ ty[t] = ElemOf(ty[ks[1]])
    BY <1>4, <2>2, KnownNode DEF ExprRule
  <2> QED BY <2>1, <2>3, AstAssumption DEF Slot
<1>7. Here.k # "IncDec" => Here.kids[2] \in NodeId
  BY <1>1, TargetType
<1> QED BY <1>1, <1>2, <1>4, <1>5, <1>6, <1>7, AstAssumption DEF Slot
LEMMA KeepFine ==
  ASSUME NEW ty, NEW ht, WellRun(ty, ht), Running, NEW v, Keep(v), VT(ht, v, ty[ExprOf(Top.n, Done + 1)])
  PROVE  Fine(ty)
<1>1. PICK vs : vs = Append(Top.vs, v)
  OBVIOUS
<1>2. PICK g : g = [Top EXCEPT !.vs = vs]
  OBVIOUS
<1>3. stack # <<>> /\ Top \in Frames(Len(heap), Len(envs)) /\ Top.vs \in Seq(Value(Len(heap))) /\ Done \in Nat
  BY TopT DEF Running
<1>4. g.vs = vs /\ g.n = Top.n
  BY <1>2, <1>3 DEF Frames
<1>5. Len(vs) = Done + 1 /\ vs[Done + 1] = v /\ \A i \in 1 .. Done : vs[i] = Top.vs[i]
  BY <1>1, <1>3 DEF Done
<1>6. ASSUME NEW i \in 1 .. Len(vs), ExprOf(Top.n, i) # 0 PROVE VT(ht, vs[i], ty[ExprOf(Top.n, i)])
  <2>1. CASE i = Done + 1
    BY <2>1, <1>5
  <2>2. CASE i # Done + 1
    <3>1. i \in 1 .. Done
      BY <2>2, <1>3, <1>5
    <3> QED BY <3>1, <1>3, <1>5, <1>6, TopT
  <2> QED BY <2>1, <2>2
<1>7. FrameT(ht, ty, g)
  BY <1>4, <1>6 DEF FrameT
<1> QED BY <1>1, <1>2, <1>7, SetFine DEF Keep

LEMMA Joined ==
  ASSUME NEW S, NEW s \in Seq(S), NEW u \in Seq(S), NEW o, o = s \o u
  PROVE  Len(o) = Len(s) + Len(u) /\ \A j \in 1 .. Len(s) + Len(u) : o[j] = IF j <= Len(s) THEN s[j] ELSE u[j - Len(s)]
BY ConcatProperties

\* The values that an assignment has, by what they are of.
LEMMA AssignOps ==
  ASSUME NEW ty, NEW ht, WellRun(ty, ht), stack # <<>>, Here.k = "Assign"
  PROVE  LET ops == Operands(Here)  ks == TargetKids(Here)
         IN  /\ ops[1] = Here.kids[2]
             /\ TargetKind(Here) = "Ident" => Len(ops) = 1
             /\ TargetKind(Here) = "Index" => Len(ops) = 3 /\ ops[2] = ks[1] /\ ops[3] = ks[2]
<1> DEFINE ks == TargetKids(Here)
<1>1. Operands(Here) = <<Here.kids[2]>> \o IF TargetKind(Here) = "Index" THEN ks ELSE <<>>
  BY DEF Operands
<1>2. CASE TargetKind(Here) = "Index"
  <2>1. Len(ks) = 2 /\ ks \in Seq(NodeId)
    BY <1>2, TargetT
  <2>2. PICK s : s = ks
    OBVIOUS
  <2>3. PICK b : b = Here.kids[2]
    OBVIOUS
  <2>4. PICK u : u = <<b>>
    OBVIOUS
  <2>5. PICK o : o = u \o s
    OBVIOUS
  <2>6. s \in Seq(NodeId) /\ Len(s) = 2 /\ u \in Seq(NodeId) /\ Len(u) = 1 /\ u[1] = b
    BY <1>2, <2>1, <2>2, <2>3, <2>4, TargetT
  <2>7. Len(o) = 3 /\ \A j \in 1 .. 3 : o[j] = IF j <= 1 THEN u[j] ELSE s[j - 1]
    <3>1. Len(o) = Len(u) + Len(s) /\ \A j \in 1 .. Len(u) + Len(s) : o[j] = IF j <= Len(u) THEN u[j] ELSE s[j - Len(u)]
      BY ONLY <2>5, <2>6, Joined
    <3>2. Len(s) = 2 /\ Len(u) = 1
      BY <2>6
    <3> QED BY ONLY <3>1, <3>2
  <2>8. Len(o) = 3 /\ o[1] = b /\ o[2] = s[1] /\ o[3] = s[2]
    BY <2>6, <2>7
  <2>9. Operands(Here) = o
    BY <1>1, <1>2, <2>2, <2>3, <2>4, <2>5
  <2> QED BY <1>2, <2>2, <2>3, <2>8, <2>9
<1>3. CASE TargetKind(Here) # "Index"
  <2>1. Operands(Here) = <<Here.kids[2]>> \o <<>>
    BY <1>1, <1>3
  <2> QED BY <1>3, <2>1
<1> QED BY <1>2, <1>3

LEMMA CompoundOps ==
  ASSUME NEW ty, NEW ht, WellRun(ty, ht), stack # <<>>, Here.k = "CompoundAssign"
  PROVE  LET ops == Operands(Here)  ks == TargetKids(Here)
         IN  /\ TargetKind(Here) = "Ident" => Len(ops) = 2 /\ ops[1] = Slot /\ ops[2] = Here.kids[2]
             /\ TargetKind(Here) = "Index" => /\ Len(ops) = 4 /\ ops[1] = ks[1] /\ ops[2] = ks[2]
                                              /\ ops[3] = Slot /\ ops[4] = Here.kids[2]
<1> DEFINE ks == TargetKids(Here)
<1>1. Operands(Here) = (IF TargetKind(Here) = "Index" THEN ks ELSE <<>>) \o <<Slot, Here.kids[2]>>
  BY DEF Operands, SlotThenValue
<1>2. CASE TargetKind(Here) = "Index"
  <2>1. Len(ks) = 2 /\ ks \in Seq(NodeId)
    BY <1>2, TargetT
  <2>2. PICK s : s = ks
    OBVIOUS
  <2>3. PICK b : b = Here.kids[2]
    OBVIOUS
  <2>4. PICK u : u = <<Slot, b>>
    OBVIOUS
  <2>5. PICK o : o = s \o u
    OBVIOUS
  <2>6. s \in Seq(NodeId \cup {Slot}) /\ Len(s) = 2
    BY <2>1, <2>2
  <2>7. u \in Seq(NodeId \cup {Slot}) /\ Len(u) = 2 /\ u[1] = Slot /\ u[2] = b
    BY <2>3, <2>4, TargetT
  <2>8. Len(o) = 4 /\ \A j \in 1 .. 4 : o[j] = IF j <= 2 THEN s[j] ELSE u[j - 2]
    <3>1. Len(o) = Len(s) + Len(u) /\ \A j \in 1 .. Len(s) + Len(u) : o[j] = IF j <= Len(s) THEN s[j] ELSE u[j - Len(s)]
      BY ONLY <2>5, <2>6, <2>7, Joined
    <3>2. Len(s) = 2 /\ Len(u) = 2
      BY <2>6, <2>7
    <3> QED BY ONLY <3>1, <3>2
  <2>9. Len(o) = 4 /\ o[1] = s[1] /\ o[2] = s[2] /\ o[3] = Slot /\ o[4] = b
    BY <2>7, <2>8
  <2>10. Operands(Here) = o
    BY <1>1, <1>2, <2>2, <2>3, <2>4, <2>5
  <2> QED BY <1>2, <2>2, <2>3, <2>9, <2>10
<1>3. CASE TargetKind(Here) # "Index"
  <2>1. Operands(Here) = <<>> \o <<Slot, Here.kids[2]>>
    BY <1>1, <1>3
  <2> QED BY <1>3, <2>1
<1> QED BY <1>2, <1>3

LEMMA IncDecOps ==
  ASSUME NEW ty, NEW ht, WellRun(ty, ht), stack # <<>>, Here.k = "IncDec", TargetKind(Here) = "Index"
  PROVE  Operands(Here) = TargetKids(Here)
BY DEF Operands

LEMMA FineAssign == ASSUME NEW ty, NEW ht, WellRun(ty, ht), EvalAssign PROVE Fine(ty)
<1> DEFINE v == Top.vs[1]  t == Here.kids[1]  ks == TargetKids(Here)
<1>1. Ready("Assign") /\ Running /\ stack # <<>> /\ Here.k = "Assign" /\ Here.k \in ExprKind
  BY ReadyFor DEF EvalAssign, ExprKind
<1>2. ty[t] = ty[Top.n] /\ ty[Here.kids[2]] = ty[Top.n]
  BY <1>1, HereKnown DEF ExprRule
<1>3. TargetKind(Here) \in {"Ident", "Index"} /\ Here.kids[2] # Slot
  BY <1>1, TargetT
<1>4. VT(ht, v, ty[Top.n])
  <2>1. 1 \in 1 .. Done
    BY <1>1, <1>3, AssignOps, ReadyFor
  <2> QED BY <1>1, <1>2, <1>3, <2>1, AssignOps, ReadyFor
<1>5. CASE TargetKind(Here) = "Ident"
  <2>1. SetVar(Nodes[t].name, v, v) /\ t \in Uses(Top)
    BY <1>1, <1>5, TargetT DEF EvalAssign
  <2>2. PICK u : u = v
    OBVIOUS
  <2>3. PICK n : n = t
    OBVIOUS
  <2>4. SetVar(Nodes[n].name, u, u) /\ n \in Uses(Top) /\ VT(ht, u, ty[n]) /\ VT(ht, u, ty[Top.n])
    BY <1>2, <1>4, <2>1, <2>2, <2>3
  <2> QED BY <1>1, <2>4, SetVarFine
<1>6. CASE TargetKind(Here) = "Index"
  <2>1. Len(ks) = 2 /\ ks[1] # Slot /\ ks[2] # Slot /\ IsArray(ty[ks[1]]) /\ ty[ks[2]] = TInt /\ ty[t] = ElemOf(ty[ks[1]])
    BY <1>1, <1>6, TargetT
  <2>2. Done = 3 /\ Operands(Here)[2] = ks[1] /\ Operands(Here)[3] = ks[2]
    BY <1>1, <1>6, AssignOps, ReadyFor
  <2>3. 2 \in 1 .. Done /\ 3 \in 1 .. Done
    BY <2>2
  <2>4. PICK a : a = Top.vs[2]
    OBVIOUS
  <2>5. PICK i : i = Top.vs[3]
    OBVIOUS
  <2>6. a \in Value(Len(heap)) /\ i \in Value(Len(heap)) /\ VT(ht, a, ty[ks[1]]) /\ VT(ht, i, TInt)
    BY <1>1, <2>1, <2>2, <2>3, <2>4, <2>5, ReadyFor
  <2>7. a.k = "Array" /\ i.k = "Int" /\ a.r \in 1 .. Len(heap) /\ ht[a.r] = ty[t]
    BY <2>1, <2>6, CellT
  <2>8. SetCell(a.r, i.i, v, v) \/ Halt("IndexOutOfBounds")
    BY <1>6, <2>4, <2>5, <2>7 DEF EvalAssign, OnCell
  <2>9. CASE SetCell(a.r, i.i, v, v)
    BY <1>1, <1>2, <1>4, <2>7, <2>9, SetCellFine
  <2>10. CASE Halt("IndexOutOfBounds")
    BY <2>10, HaltFine
  <2> QED BY <2>8, <2>9, <2>10
<1> QED BY <1>3, <1>5, <1>6

LEMMA FineLoadSlot == ASSUME NEW ty, NEW ht, WellRun(ty, ht), LoadSlot PROVE Fine(ty)
<1> DEFINE t == Here.kids[1]  ks == TargetKids(Here)  ops == Operands(Here)
<1>1. Running /\ stack # <<>> /\ Here.k = "CompoundAssign" /\ Here.k \in ExprKind /\ Here = Nodes[Top.n]
  BY DEF LoadSlot, At, Running, ExprKind, Here
<1>2. TargetKind(Here) \in {"Ident", "Index"} /\ Here.kids[2] # Slot
  BY <1>1, TargetT
<1>3. Done \in Nat /\ Done < Len(ops) /\ ops[Done + 1] = Slot
  BY <1>1, TopT DEF LoadSlot
<1>4. ExprOf(Top.n, Done + 1) = t
  BY <1>1, <1>3, ExprOfs DEF Evaluated
<1>5. ASSUME NEW v, VT(ht, v, ty[t]), Keep(v) PROVE Fine(ty)
  BY <1>1, <1>4, <1>5, KeepFine
<1>6. CASE TargetKind(Here) = "Ident"
  <2>1. t \in Uses(Top)
    BY <1>1, <1>6, TargetT
  <2>2. CASE Owner(Top.env, Nodes[t].name) = {}
    BY <1>1, <1>6, <2>1, <2>2, UnknownName, HaltFine DEF LoadSlot
  <2>3. CASE Owner(Top.env, Nodes[t].name) # {}
    <3>1. PICK o \in Owner(Top.env, Nodes[t].name) : Keep(envs[o].vars[Nodes[t].name].v)
      BY <1>6, <2>3 DEF LoadSlot
    <3>2. PICK n : n = t
      OBVIOUS
    <3>3. VT(ht, envs[o].vars[Nodes[n].name].v, ty[n])
      BY <1>1, <2>1, <3>2, VariableT
    <3> QED BY <1>5, <3>1, <3>2, <3>3
  <2> QED BY <2>2, <2>3
<1>7. CASE TargetKind(Here) = "Index"
  <2>1. Len(ks) = 2 /\ ks[1] # Slot /\ ks[2] # Slot /\ IsArray(ty[ks[1]]) /\ ty[ks[2]] = TInt /\ ty[t] = ElemOf(ty[ks[1]])
    BY <1>1, <1>7, TargetT
  <2>2. Len(ops) = 4 /\ ops[1] = ks[1] /\ ops[2] = ks[2] /\ ops[3] = Slot /\ ops[4] = Here.kids[2]
    BY <1>1, <1>7, CompoundOps
  <2>3. Done = 2
    <3>1. Done \in {0, 1, 2, 3}
      BY <1>3, <2>2
    <3> QED BY <1>2, <1>3, <2>1, <2>2, <3>1
  <2>4. PICK a : a = Top.vs[1]
    OBVIOUS
  <2>5. PICK i : i = Top.vs[2]
    OBVIOUS
  <2>6. a \in Value(Len(heap)) /\ VT(ht, a, ty[ks[1]])
    <3>1. 1 \in 1 .. Done
      BY <2>3
    <3> QED BY <1>1, <2>1, <2>2, <2>4, <3>1, OperandT DEF Evaluated
  <2>7. i \in Value(Len(heap)) /\ VT(ht, i, TInt)
    <3>1. 2 \in 1 .. Done
      BY <2>3
    <3> QED BY <1>1, <2>1, <2>2, <2>5, <3>1, OperandT DEF Evaluated
  <2>8. (InBounds(i.i, a.r) /\ Keep(heap[a.r][i.i + 1])) \/ Halt("IndexOutOfBounds")
    <3>1. a.k = "Array" /\ i.k = "Int"
      BY <2>1, <2>6, <2>7, CellT
    <3> QED BY <1>7, <2>4, <2>5, <3>1 DEF LoadSlot, OnCell
  <2>10. CASE InBounds(i.i, a.r) /\ Keep(heap[a.r][i.i + 1])
    <3>1. VT(ht, heap[a.r][i.i + 1], ty[t])
      BY <2>1, <2>6, <2>7, <2>10, CellT
    <3> QED BY <1>5, <2>10, <3>1
  <2>11. CASE Halt("IndexOutOfBounds")
    BY <2>11, HaltFine
  <2> QED BY <2>8, <2>10, <2>11
<1> QED BY <1>2, <1>6, <1>7

LEMMA SlotT ==
  ASSUME NEW ty, NEW ht, WellRun(ty, ht), stack # <<>>, Here.k = "CompoundAssign", NEW i \in 1 .. Done,
         Operands(Here)[i] = Slot
  PROVE  VT(ht, Top.vs[i], ty[Here.kids[1]])
<1>1. ExprOf(Top.n, i) = Here.kids[1] /\ Here.kids[1] # 0
  BY HereKnown, ExprOfs, TargetT DEF Evaluated, ExprKind, Slot
<1> QED BY <1>1, TopT

LEMMA FineCompoundAssign == ASSUME NEW ty, NEW ht, WellRun(ty, ht), EvalCompoundAssign PROVE Fine(ty)
<1> DEFINE t == Here.kids[1]  ks == TargetKids(Here)  ops == Operands(Here)
<1>1. Ready("CompoundAssign") /\ Running /\ stack # <<>> /\ Here.k = "CompoundAssign" /\ Here.k \in ExprKind
  BY ReadyFor DEF EvalCompoundAssign, ExprKind
<1>2. /\ ty[t] = ty[Here.kids[2]] /\ BinaryRule(Here.op, ty[t], ty[Top.n])
      /\ Here.op \in Arith \cup Bitwise
  BY <1>1, HereKnown DEF ExprRule, Shape
<1>3. TargetKind(Here) \in {"Ident", "Index"} /\ Here.kids[2] # Slot
  BY <1>1, TargetT
<1>4. ty[Top.n] = ty[t] /\ Here.op \notin Lazy
  BY <1>2 DEF BinaryRule, Arith, Bitwise, Compare, Equality, Lazy
<1>5. /\ Done \in {2, 4} /\ ops[Done - 1] = Slot /\ ops[Done] = Here.kids[2]
      /\ TargetKind(Here) = "Index" <=> Done = 4
  BY <1>1, <1>3, CompoundOps, ReadyFor
<1>6. Done - 1 \in 1 .. Done /\ Done \in 1 .. Done
  BY <1>5
<1>7. VT(ht, Top.vs[Done - 1], ty[t]) /\ VT(ht, Top.vs[Done], ty[t])
  BY <1>1, <1>2, <1>3, <1>5, <1>6, SlotT, ReadyFor
<1>8. PICK new : new = ApplyBinaryOp(heap, Here.op, Top.vs[Done - 1], Top.vs[Done])
  OBVIOUS
<1>9. Gives(ht, new, ty[t]) \/ (Here.op = "Mod" /\ Top.vs[Done].k = "Float" /\ new.k = "Fail")
  BY <1>2, <1>4, <1>7, <1>8, BinaryGives
<1>10. CASE new.k = "Fail"
  <2>1. Halt(new.e)
    BY <1>8, <1>10 DEF EvalCompoundAssign
  <2>2. new.e = "panic" => RemainderOfFloats
    BY <1>1, <1>9, <1>10 DEF Gives, RemainderOfFloats
  <2> QED BY <2>1, <2>2, HaltFine
<1>11. CASE new.k # "Fail" /\ TargetKind(Here) = "Ident"
  <2>1. SetVar(Nodes[t].name, new, new) /\ t \in Uses(Top) /\ VT(ht, new, ty[t])
    BY <1>1, <1>8, <1>9, <1>11, TargetT DEF EvalCompoundAssign, Gives
  <2>2. PICK n : n = t
    OBVIOUS
  <2>3. SetVar(Nodes[n].name, new, new) /\ n \in Uses(Top) /\ VT(ht, new, ty[n]) /\ VT(ht, new, ty[Top.n])
    BY <1>4, <2>1, <2>2
  <2> QED BY <1>1, <2>3, SetVarFine
<1>12. CASE new.k # "Fail" /\ TargetKind(Here) = "Index"
  <2>1. Len(ks) = 2 /\ ks[1] # Slot /\ ks[2] # Slot /\ IsArray(ty[ks[1]]) /\ ty[ks[2]] = TInt /\ ty[t] = ElemOf(ty[ks[1]])
    BY <1>1, <1>12, TargetT
  <2>2. ops[1] = ks[1] /\ ops[2] = ks[2] /\ 1 \in 1 .. Done /\ 2 \in 1 .. Done
    BY <1>1, <1>5, <1>12, CompoundOps
  <2>3. PICK a : a = Top.vs[1]
    OBVIOUS
  <2>4. PICK i : i = Top.vs[2]
    OBVIOUS
  <2>5. a \in Value(Len(heap)) /\ i \in Value(Len(heap)) /\ VT(ht, a, ty[ks[1]]) /\ VT(ht, i, TInt)
    BY <1>1, <2>1, <2>2, <2>3, <2>4, ReadyFor
  <2>6. a.r \in 1 .. Len(heap) /\ ht[a.r] = ty[t]
    BY <2>1, <2>5, CellT
  <2>7. SetCell(a.r, i.i, new, new) /\ VT(ht, new, ty[t])
    BY <1>8, <1>9, <1>12, <2>3, <2>4 DEF EvalCompoundAssign, Gives
  <2> QED BY <1>1, <1>4, <2>6, <2>7, SetCellFine
<1> QED BY <1>3, <1>10, <1>11, <1>12

LEMMA FineIncDec == ASSUME NEW ty, NEW ht, WellRun(ty, ht), EvalIncDec PROVE Fine(ty)
<1> DEFINE t == Here.kids[1]  ks == TargetKids(Here)
<1>1. Ready("IncDec") /\ Running /\ stack # <<>> /\ Here.k = "IncDec" /\ Here.k \in ExprKind
  BY ReadyFor DEF EvalIncDec, ExprKind
<1>2. ty[t] = ty[Top.n] /\ ty[t] \in Numeric
  BY <1>1, HereKnown DEF ExprRule
<1>3. TargetKind(Here) \in {"Ident", "Index"}
  BY <1>1, TargetT
<1>4. ASSUME NEW old, VT(ht, old, ty[t]), NEW new, new = ApplyIncDec(Here.op, old)
      PROVE  Gives(ht, new, ty[t]) /\ (VT(ht, new, ty[t]) => VT(ht, IncDecResult(old, new), ty[Top.n]))
  BY <1>2, <1>4, IncDecGives DEF IncDecResult
<1>5. CASE TargetKind(Here) = "Ident"
  <2>1. t \in Uses(Top)
    BY <1>1, <1>5, TargetT
  <2>2. PICK x : x = Nodes[t].name
    OBVIOUS
  <2>3. CASE Owner(Top.env, x) = {}
    BY <1>1, <1>5, <2>1, <2>2, <2>3, UnknownName, HaltFine DEF EvalIncDec
  <2>4. CASE Owner(Top.env, x) # {}
    <3>1. PICK o \in Owner(Top.env, x) :
            LET old == envs[o].vars[x].v  new == ApplyIncDec(Here.op, old)
            IN  IF new.k = "Fail" THEN Halt(new.e) ELSE SetVar(x, new, IncDecResult(old, new))
      BY <1>5, <2>2, <2>4 DEF EvalIncDec
    <3>2. PICK old : old = envs[o].vars[x].v
      OBVIOUS
    <3>3. PICK new : new = ApplyIncDec(Here.op, old)
      OBVIOUS
    <3>4. PICK n : n = t
      OBVIOUS
    <3>5. VT(ht, old, ty[t])
      BY <1>1, <2>1, <2>2, <3>2, VariableT
    <3>6. PICK w : w = IncDecResult(old, new)
      OBVIOUS
    <3>7. Gives(ht, new, ty[t]) /\ (VT(ht, new, ty[t]) => VT(ht, w, ty[Top.n]))
      BY <1>4, <3>3, <3>5, <3>6
    <3>8. IF new.k = "Fail" THEN Halt(new.e) ELSE SetVar(x, new, w)
      BY <3>1, <3>2, <3>3, <3>6
    <3>9. CASE new.k = "Fail"
      BY <3>7, <3>8, <3>9, HaltFine DEF Gives
    <3>10. CASE new.k # "Fail"
      <4>1. SetVar(x, new, w) /\ VT(ht, new, ty[n]) /\ VT(ht, w, ty[Top.n]) /\ n \in Uses(Top) /\ x = Nodes[n].name
        BY <2>1, <2>2, <3>4, <3>7, <3>8, <3>10 DEF Gives
      <4> QED BY <1>1, <4>1, SetVarFine
    <3> QED BY <3>9, <3>10
  <2> QED BY <2>3, <2>4
<1>6. CASE TargetKind(Here) = "Index"
  <2>1. Len(ks) = 2 /\ ks[1] # Slot /\ ks[2] # Slot /\ IsArray(ty[ks[1]]) /\ ty[ks[2]] = TInt /\ ty[t] = ElemOf(ty[ks[1]])
    BY <1>1, <1>6, TargetT
  <2>2. Operands(Here) = ks /\ 1 \in 1 .. Done /\ 2 \in 1 .. Done
    <3>1. Operands(Here) = ks /\ Done = Len(Operands(Here))
      BY <1>1, <1>6, IncDecOps, ReadyFor
    <3>2. Done = 2
      BY <2>1, <3>1
    <3> QED BY <3>1, <3>2
  <2>3. PICK a : a = Top.vs[1]
    OBVIOUS
  <2>4. PICK i : i = Top.vs[2]
    OBVIOUS
  <2>5. a \in Value(Len(heap)) /\ i \in Value(Len(heap)) /\ VT(ht, a, ty[ks[1]]) /\ VT(ht, i, TInt)
    BY <1>1, <2>1, <2>2, <2>3, <2>4, ReadyFor
  <2>6. a.k = "Array" /\ i.k = "Int" /\ a.r \in 1 .. Len(heap) /\ ht[a.r] = ty[t]
    BY <2>1, <2>5, CellT
  <2>7. PICK old : old = heap[a.r][i.i + 1]
    OBVIOUS
  <2>8. PICK new : new = ApplyIncDec(Here.op, old)
    OBVIOUS
  <2>9. PICK w : w = IncDecResult(old, new)
    OBVIOUS
  <2>10. OnCell(a, i, IF new.k = "Fail" THEN Halt(new.e) ELSE SetCell(a.r, i.i, new, w))
    BY <1>6, <2>3, <2>4, <2>7, <2>8, <2>9 DEF EvalIncDec
  <2>11. CASE ~InBounds(i.i, a.r)
    BY <2>6, <2>10, <2>11, HaltFine DEF OnCell
  <2>12. CASE InBounds(i.i, a.r)
    <3>1. VT(ht, old, ty[t])
      BY <2>1, <2>5, <2>7, <2>12, CellT
    <3>2. Gives(ht, new, ty[t]) /\ (VT(ht, new, ty[t]) => VT(ht, w, ty[Top.n]))
      BY <1>4, <2>8, <2>9, <3>1
    <3>3. IF new.k = "Fail" THEN Halt(new.e) ELSE SetCell(a.r, i.i, new, w)
      BY <2>6, <2>10, <2>12 DEF OnCell
    <3>4. CASE new.k = "Fail"
      BY <3>2, <3>3, <3>4, HaltFine DEF Gives
    <3>5. CASE new.k # "Fail"
      BY <1>1, <2>6, <3>2, <3>3, <3>5, SetCellFine DEF Gives
    <3> QED BY <3>4, <3>5
  <2> QED BY <2>11, <2>12
<1> QED BY <1>3, <1>5, <1>6

LEMMA FineIndex == ASSUME NEW ty, NEW ht, WellRun(ty, ht), EvalIndex PROVE Fine(ty)
<1> DEFINE ks == Here.kids
<1>1. Ready("Index") /\ Running /\ stack # <<>> /\ Here.k = "Index" /\ Here.k \in ExprKind /\ Here = Nodes[Top.n]
  BY ReadyFor DEF EvalIndex, ExprKind, Here
<1>2. IsArray(ty[ks[1]]) /\ ty[ks[2]] = TInt /\ ty[Top.n] = ElemOf(ty[ks[1]])
  BY <1>1, HereKnown DEF ExprRule
<1>3. Done = 2
  BY <1>1, ReadyKids, HereKnown DEF Shape
<1>4. PICK a : a = Top.vs[1]
  OBVIOUS
<1>5. PICK i : i = Top.vs[2]
  OBVIOUS
<1>6. 1 \in 1 .. Done /\ 2 \in 1 .. Done
  BY <1>3
<1>7. a \in Value(Len(heap)) /\ i \in Value(Len(heap)) /\ VT(ht, a, ty[ks[1]]) /\ VT(ht, i, TInt)
  BY <1>1, <1>2, <1>4, <1>5, <1>6, ReadyKids
<1>8. a.k = "Array" /\ i.k = "Int"
  BY <1>2, <1>7, CellT
<1>9. CASE InBounds(i.i, a.r)
  <2>1. VT(ht, heap[a.r][i.i + 1], ty[Top.n]) /\ AnswerType(ty, Top.n) = ty[Top.n]
    BY <1>1, <1>2, <1>7, <1>9, CellT DEF AnswerType
  <2>2. Yield(heap[a.r][i.i + 1])
    BY <1>4, <1>5, <1>8, <1>9 DEF EvalIndex, OnCell
  <2> QED BY <1>1, <2>1, <2>2, YieldFine
<1>10. CASE ~InBounds(i.i, a.r)
  BY <1>4, <1>5, <1>8, <1>10, HaltFine DEF EvalIndex, OnCell
<1> QED BY <1>9, <1>10

LEMMA FineFieldAccess == ASSUME NEW ty, NEW ht, WellRun(ty, ht), EvalFieldAccess PROVE Fine(ty)
<1>1. Ready("FieldAccess") /\ Running /\ stack # <<>> /\ Here.k = "FieldAccess" /\ Here.k \in ExprKind
  BY ReadyFor DEF EvalFieldAccess, ExprKind
<1>2. Here.name = "length" /\ (IsArray(ty[Here.kids[1]]) \/ ty[Here.kids[1]] = TStr) /\ ty[Top.n] = TInt
  BY <1>1, HereKnown DEF ExprRule
<1>3. Done = 1
  BY <1>1, ReadyKids, HereKnown DEF Shape
<1>4. PICK v : v = Top.vs[1]
  OBVIOUS
<1>5. VT(ht, v, ty[Here.kids[1]])
  BY <1>1, <1>3, <1>4, ReadyKids
<1>6. PICK o : o = IF v.k = "Array" THEN IntV(Wrap(Len(heap[v.r]))) ELSE StringLength(<<v>>)
  OBVIOUS
<1>7. Finish(o)
  BY <1>2, <1>4, <1>6 DEF EvalFieldAccess
<1>8. o.k = "Int"
  <2>1. v.k = "Array" \/ v.k = "Str"
    BY <1>2, <1>5, ScalarT DEF VT
  <2> QED BY <1>6, <2>1, MadeKinds DEF StringLength
<1>9. Gives(ht, o, ty[Top.n])
  BY <1>2, <1>8, ScalarT DEF Gives
<1> QED BY <1>1, <1>7, <1>9, FinishFine
-----------------------------------------------------------------------------
(***************************************************************************)
(* Arrays that are made.                                                   *)
(***************************************************************************)
\* A step that makes arrays, and answers.
LEMMA MadeFine ==
  ASSUME NEW ty, NEW ht, WellRun(ty, ht), Running, NEW ht2, Extends(ht, ht2), HeapT(ht2, heap'), EnvsT(ht2, envs'),
         NEW v, stack' = Popped(v), Here.k \notin StmtKind => VT(ht2, v, AnswerType(ty, Top.n)),
         flow' = flow, status' = status
  PROVE  Fine(ty)
<1>1. stack # <<>> /\ flow' = Normal /\ status' # "panic"
  BY DEF Running
<1>2. FramesT(ht2, ty, stack)
  <2>1. stack \in Seq(Frames(Len(heap), Len(envs)))
    BY WellParts, TypeParts
  <2> QED BY <2>1, WellParts, MoreFrames
<1>3. FramesT(ht2, ty, stack')
  BY <1>1, <1>2, WellParts, PopT
<1>4. FlowT(ht2, prog', stack', flow')
  BY <1>1 DEF FlowT
<1> QED BY <1>1, <1>3, <1>4, Settled

LEMMA EnvsStill ==
  ASSUME NEW ty, NEW ht, WellRun(ty, ht), NEW ht2, Extends(ht, ht2) PROVE EnvsT(ht2, envs)
BY WellParts, MoreEnvs

\* The value of a variable that has not been given one, once its array is made.
LEMMA DefaultT ==
  ASSUME NEW ty, NEW ht, WellRun(ty, ht), NEW t \in Type
  PROVE  \E ht2 \in Seq(Type) : Extends(ht, ht2) /\ HeapT(ht2, NewCells(t)) /\ VT(ht2, Default(t), t)
<1>0. /\ Len(heap) \in Nat /\ heap \in Seq(Seq(Value(Len(heap)))) /\ HeapT(ht, heap)
      /\ ht \in Seq(Type) /\ Len(ht) = Len(heap)
  BY WellParts, TypeParts
<1>1. CASE IsArray(t)
  <2>1. NewCells(t) = Append(heap, <<>>) /\ Default(t) = ArrV(Len(heap) + 1) /\ ElemOf(t) \in Type
    BY <1>1, ArrayTypes DEF NewCells, Default
  <2>2. PICK ht2 : ht2 = Append(ht, ElemOf(t))
    OBVIOUS
  <2>3. PICK h : h = heap
    OBVIOUS
  <2>4. PICK h2 : h2 = Append(h, <<>>)
    OBVIOUS
  <2>5. PICK cells : cells = <<>>
    OBVIOUS
  <2>6. cells \in Seq(Value(Len(h))) /\ Len(cells) = 0 /\ h2 = Append(h, cells)
    BY <2>4, <2>5
  <2>7. \A i \in 1 .. Len(cells) : VT(ht, cells[i], ElemOf(t))
    BY <2>6
  <2>8. Len(h) \in Nat /\ h \in Seq(Seq(Value(Len(h)))) /\ HeapT(ht, h) /\ ElemOf(t) \in Type
    BY <1>0, <2>1, <2>3
  <2>9. HeapT(ht2, h2) /\ Extends(ht, ht2) /\ ht2 \in Seq(Type) /\ ht2[Len(h) + 1] = ElemOf(t)
    <3>1. PICK u : u = ElemOf(t)
      OBVIOUS
    <3>2. Allocates(ht, h, u, cells) /\ ht2 = Append(ht, u) /\ h2 = Append(h, cells)
      BY <2>2, <2>6, <2>7, <2>8, <3>1 DEF Allocates
    <3>3. HeapT(ht2, h2) /\ Extends(ht, ht2)
      BY ONLY <3>2, MoreHeap
    <3>4. ht2[Len(h) + 1] = u
      BY <2>8, <3>1, <3>2, OneMore DEF HeapT
    <3> QED BY <3>1, <3>3, <3>4 DEF HeapT
  <2>10. VT(ht2, ArrV(Len(heap) + 1), t)
    BY <1>1, <2>3, <2>9, MadeKinds DEF VT
  <2> QED BY <2>1, <2>3, <2>4, <2>9, <2>10
<1>2. CASE ~IsArray(t)
  <2>1. NewCells(t) = heap
    BY <1>2 DEF NewCells
  <2>2. Default(t).k = t.base
    <3>1. t.base \in {"Int", "Float", "Bool", "Str", "Void"}
      BY DEF Type
    <3> QED BY <1>2, <3>1, MadeKinds DEF Default
  <2>3. Extends(ht, ht)
    BY <1>0 DEF Extends
  <2>4. VT(ht, Default(t), t)
    BY <1>2, <2>2 DEF VT
  <2> QED BY <1>0, <2>1, <2>3, <2>4
<1> QED BY <1>1, <1>2

LEMMA FineArrayLiteral == ASSUME NEW ty, NEW ht, WellRun(ty, ht), EvalArrayLiteral PROVE Fine(ty)
<1>1. Ready("ArrayLiteral") /\ Running /\ stack # <<>> /\ Here.k = "ArrayLiteral" /\ Here.k \in ExprKind
  BY ReadyFor DEF EvalArrayLiteral, ExprKind
<1>2. PICK t : t = ty[Top.n]
  OBVIOUS
<1>3. t \in Type /\ IsArray(t) /\ \A i \in 1 .. Len(Here.kids) : ty[Here.kids[i]] = ElemOf(t)
  BY <1>1, <1>2, HereKnown DEF ExprRule
<1>4. ElemOf(t) \in Type
  BY <1>3, ArrayTypes
<1>5. PICK cells : cells = Top.vs
  OBVIOUS
<1>6. PICK h : h = heap
  OBVIOUS
<1>7. PICK h2 : h2 = heap'
  OBVIOUS
<1>8. PICK ht2 : ht2 = Append(ht, ElemOf(t))
  OBVIOUS
<1>9. /\ Len(h) \in Nat /\ h \in Seq(Seq(Value(Len(h)))) /\ HeapT(ht, h) /\ cells \in Seq(Value(Len(h)))
      /\ h2 = Append(h, cells)
  BY <1>1, <1>5, <1>6, <1>7, WellParts, TypeParts, TopT DEF EvalArrayLiteral
<1>10. \A i \in 1 .. Len(cells) : VT(ht, cells[i], ElemOf(t))
  BY <1>1, <1>3, <1>5, ReadyKids DEF Done
<1>11. HeapT(ht2, h2) /\ Extends(ht, ht2) /\ ht2[Len(h) + 1] = ElemOf(t)
  <2>1. PICK u : u = ElemOf(t)
    OBVIOUS
  <2>2. Allocates(ht, h, u, cells) /\ ht2 = Append(ht, u) /\ h2 = Append(h, cells)
    BY <1>4, <1>8, <1>9, <1>10, <2>1 DEF Allocates
  <2>3. HeapT(ht2, h2) /\ Extends(ht, ht2)
    BY ONLY <2>2, MoreHeap
  <2>4. ht2[Len(h) + 1] = u
    BY <1>4, <1>9, <2>1, <2>2, OneMore DEF HeapT
  <2> QED BY <2>1, <2>3, <2>4
<1>12. PICK v : v = ArrV(Len(h) + 1)
  OBVIOUS
<1>13. VT(ht2, v, t) /\ AnswerType(ty, Top.n) = t
  BY <1>1, <1>2, <1>3, <1>11, <1>12, MadeKinds DEF VT, AnswerType, Here
<1>14. stack' = Popped(v) /\ flow' = flow /\ status' = status /\ envs' = envs
  BY <1>6, <1>12 DEF EvalArrayLiteral
<1>15. EnvsT(ht2, envs')
  BY <1>11, <1>14, EnvsStill
<1> QED BY <1>1, <1>7, <1>11, <1>13, <1>14, <1>15, MadeFine

LEMMA ConstCells ==
  ASSUME NEW S, NEW k \in Nat, NEW d \in S, NEW c, c = [j \in 1 .. k |-> d]
  PROVE  c \in Seq(S) /\ Len(c) = k /\ \A j \in 1 .. k : c[j] = d
OBVIOUS

LEMMA ExtendsOn ==
  ASSUME NEW h1 \in Seq(Type), NEW h2 \in Seq(Type), NEW h3 \in Seq(Type), Extends(h1, h2), Extends(h2, h3)
  PROVE  Extends(h1, h3)
<1>1. Len(h1) \in Nat /\ Len(h2) \in Nat /\ Len(h3) \in Nat
  OBVIOUS
<1> QED BY <1>1 DEF Extends

LEMMA FineArrayCreation == ASSUME NEW ty, NEW ht, WellRun(ty, ht), EvalArrayCreation PROVE Fine(ty)
<1>1. Ready("ArrayCreation") /\ Running /\ stack # <<>> /\ Here.k = "ArrayCreation" /\ Here.k \in ExprKind
  BY ReadyFor DEF EvalArrayCreation, ExprKind
<1>2. PICK t : t = Here.ty
  OBVIOUS
<1>3. t \in Type /\ ty[Here.kids[1]] = TInt /\ ty[Top.n] = ArrayOf(t)
  BY <1>1, <1>2, HereKnown DEF ExprRule, Node
<1>4. PICK n : n = Top.vs[1]
  OBVIOUS
<1>5. VT(ht, n, TInt) /\ n \in Value(Len(heap))
  <2>1. Done = 1
    BY <1>1, ReadyKids, HereKnown DEF Shape
  <2> QED BY <1>1, <1>3, <1>4, <2>1, ReadyKids
<1>6. n.k = "Int" /\ n.i \in Int
  BY <1>5, ScalarT, ValueCases, IntFacts
<1>7. CASE n.i < 0
  BY <1>4, <1>6, <1>7, HaltFine DEF EvalArrayCreation
<1>8. CASE ~(n.i < 0)
  <2>1. PICK h : h = NewCells(t)
    OBVIOUS
  <2>2. PICK d : d = Default(t)
    OBVIOUS
  <2>3. PICK cells : cells = [j \in 1 .. n.i |-> d]
    OBVIOUS
  <2>4. heap' = Append(h, cells) /\ stack' = Popped(ArrV(Len(h) + 1)) /\ UNCHANGED <<prog, decl, envs, flow, out, status>>
    BY <1>2, <1>4, <1>6, <1>8, <2>1, <2>2, <2>3 DEF EvalArrayCreation
  <2>5. PICK ht1 \in Seq(Type) : Extends(ht, ht1) /\ HeapT(ht1, h) /\ VT(ht1, d, t)
    BY <1>3, <2>1, <2>2, DefaultT
  <2>6. Len(h) \in Nat /\ h \in Seq(Seq(Value(Len(h)))) /\ d \in Value(Len(h))
    BY <1>3, <2>1, <2>2, WellParts, DefaultType
  <2>7. cells \in Seq(Value(Len(h))) /\ \A i \in 1 .. Len(cells) : cells[i] = d
    <3>1. n.i \in Nat
      BY <1>6, <1>8
    <3> QED BY <2>3, <2>6, <3>1, ConstCells
  <2>8. \A i \in 1 .. Len(cells) : VT(ht1, cells[i], t)
    BY <2>5, <2>7
  <2>9. PICK ht2 : ht2 = Append(ht1, t)
    OBVIOUS
  <2>10. PICK h2 : h2 = heap'
    OBVIOUS
  <2>11. h2 = Append(h, cells)
    BY <2>4, <2>10
  <2>12. HeapT(ht2, h2) /\ Extends(ht1, ht2) /\ ht2 \in Seq(Type) /\ ht2[Len(h) + 1] = t
    <3>1. Allocates(ht1, h, t, cells) /\ ht2 = Append(ht1, t) /\ h2 = Append(h, cells)
      BY <1>3, <2>5, <2>6, <2>7, <2>8, <2>9, <2>11 DEF Allocates
    <3>2. HeapT(ht2, h2) /\ Extends(ht1, ht2)
      BY ONLY <3>1, MoreHeap
    <3>3. ht2[Len(h) + 1] = t
      BY <1>3, <2>5, <2>6, <3>1, OneMore DEF HeapT
    <3> QED BY <3>2, <3>3 DEF HeapT
  <2>13. Extends(ht, ht2)
    BY <2>5, <2>12, WellParts, ExtendsOn
  <2>14. PICK v : v = ArrV(Len(h) + 1)
    OBVIOUS
  <2>15. VT(ht2, v, ArrayOf(t)) /\ AnswerType(ty, Top.n) = ArrayOf(t)
    BY <1>1, <1>3, <2>12, <2>14, ArrayT, MadeKinds DEF AnswerType, Here
  <2>16. EnvsT(ht2, envs')
    BY <2>4, <2>13, EnvsStill
  <2> QED BY <1>1, <2>4, <2>10, <2>12, <2>13, <2>14, <2>15, <2>16, MadeFine
<1> QED BY <1>7, <1>8

\* The initial value of a variable is of its type.
LEMMA FineVarDecl == ASSUME NEW ty, NEW ht, WellRun(ty, ht), ExecVarDecl PROVE Fine(ty)
<1>1. Ready("VarDecl") /\ Running /\ stack # <<>> /\ Here.k = "VarDecl" /\ Here.k \in StmtKind /\ Here = Nodes[Top.n]
  BY ReadyFor DEF ExecVarDecl, StmtKind, Here
<1>2. PICK v : v = IF Done = 1 THEN Top.vs[1] ELSE Default(Here.ty)
  OBVIOUS
<1>3. /\ envs' = Define(Top.env, Top.n, v) /\ heap' = (IF Done = 1 THEN heap ELSE NewCells(Here.ty))
      /\ stack' = Popped(VoidV) /\ flow' = flow /\ status' = status
  BY <1>2 DEF ExecVarDecl
<1>4. PICK ht2 \in Seq(Type) : Extends(ht, ht2) /\ HeapT(ht2, heap') /\ VT(ht2, v, Here.ty)
  <2>1. CASE Done = 1
    <3>1. 1 \in 1 .. Done /\ 1 \in 1 .. Len(Here.kids)
      BY <1>1, <2>1, ReadyKids
    <3>2. VT(ht, v, Here.ty)
      BY <1>1, <1>2, <2>1, <3>1, ReadyKids, HereKnown DEF StmtRule
    <3>3. Extends(ht, ht) /\ HeapT(ht, heap') /\ ht \in Seq(Type)
      BY <1>3, <2>1, WellParts DEF Extends
    <3> QED BY <3>2, <3>3
  <2>2. CASE Done # 1
    <3>1. Here.ty \in Type
      BY <1>1, HereKnown DEF Node
    <3> QED BY <1>2, <1>3, <2>2, <3>1, DefaultT
  <2> QED BY <2>1, <2>2
<1>5. EnvsT(ht2, envs')
  <2>1. PICK es : es = envs
    OBVIOUS
  <2>2. PICK m : m = Len(heap)
    OBVIOUS
  <2>3. PICK e : e = Top.env
    OBVIOUS
  <2>4. PICK es2 : es2 = envs'
    OBVIOUS
  <2>5. PICK y : y = Here.name
    OBVIOUS
  <2>6. PICK b : b = [v |-> v, d |-> Top.n]
    OBVIOUS
  <2>7. Made(m, es) /\ EnvsT(ht2, es)
    BY <1>4, <2>1, <2>2, WellParts, EnvsStill
  <2>8. e \in 1 .. Len(es) /\ y \in Name
    BY <1>1, <2>1, <2>3, <2>5, WellParts, TopType
  <2>9. es2 = [es EXCEPT ![e].vars[y] = b]
    BY <1>1, <1>3, <2>1, <2>3, <2>4, <2>5, <2>6 DEF Define
  <2>10. VT(ht2, b.v, Nodes[b.d].ty)
    BY <1>1, <1>4, <2>6
  <2>11. EnvsT(ht2, es2)
    BY ONLY <2>7, <2>8, <2>9, <2>10, BoundT
  <2> QED BY <2>4, <2>11
<1> QED BY <1>1, <1>3, <1>4, <1>5, MadeFine
-----------------------------------------------------------------------------
(***************************************************************************)
(* Calls.                                                                  *)
(***************************************************************************)
LEMMA FinePrint == ASSUME NEW ty, NEW ht, WellRun(ty, ht), EvalPrint PROVE Fine(ty)
<1>1. Ready("Call") /\ Running /\ stack # <<>> /\ Here.k = "Call" /\ Here.k \in ExprKind /\ Here.name = "print"
  BY ReadyFor DEF EvalPrint, ExprKind
<1>2. Len(Here.kids) = 1 /\ ty[Top.n] = TVoid
  <2>1. CallRule(ty, prog, Here, ty[Top.n])
    BY <1>1, HereKnown DEF ExprRule
  <2> QED BY <1>1, <2>1 DEF CallRule, BuiltinParams
<1>3. Done # 0
  <2>1. Operands(Here) = <<Here.kids[1]>>
    BY <1>1, <1>2 DEF Operands
  <2> QED BY <1>1, <2>1, ReadyFor
<1>4. stack' = Popped(VoidV) /\ heap' = heap /\ flow' = flow /\ status' = status /\ envs' = envs
  BY <1>3 DEF EvalPrint
<1>5. VT(ht, VoidV, AnswerType(ty, Top.n))
  BY <1>1, <1>2, ScalarT, MadeKinds DEF AnswerType, Here
<1>6. FramesT(ht, ty, stack') /\ EnvsT(ht, envs')
  BY <1>1, <1>4, <1>5, WellParts, PopT
<1> QED BY <1>1, <1>4, <1>6, StackFine

\* The arguments of a call are of the types that it takes.
LEMMA ArgsT ==
  ASSUME NEW ty, NEW ht, WellRun(ty, ht), Ready("Call"), Here.name # "print", NEW ts, Takes(ty, Here, ts),
         NEW args, args = Top.vs
  PROVE  /\ Len(args) = Len(ts) /\ DOMAIN args = 1 .. Len(Here.kids) /\ args \in Seq(Value(Len(heap)))
         /\ \A i \in DOMAIN ts \cap DOMAIN args : VT(ht, args[i], ts[i])
<1>1. Running /\ stack # <<>> /\ Here.k = "Call" /\ Done = Len(Operands(Here))
  BY ReadyFor
<1>2. Operands(Here) = Here.kids
  BY <1>1 DEF Operands
<1>3. args \in Seq(Value(Len(heap))) /\ Len(args) = Len(Here.kids) /\ DOMAIN args = 1 .. Len(Here.kids)
  BY <1>1, <1>2, TopT DEF Done
<1>4. Len(Here.kids) = Len(ts) /\ \A i \in DOMAIN ts : ty[Here.kids[i]] = ts[i]
  BY DEF Takes
<1>5. ASSUME NEW i \in DOMAIN ts \cap DOMAIN args PROVE VT(ht, args[i], ts[i])
  <2>1. i \in 1 .. Done /\ Operands(Here)[i] # Slot
    <3>1. i \in 1 .. Len(Here.kids)
      BY <1>3, <1>5
    <3>2. Here.kids[i] \in NodeId
      BY <1>1, <3>1, HereKnown
    <3> QED BY <1>1, <1>2, <3>1, <3>2, AstAssumption DEF Slot
  <2>2. VT(ht, args[i], ty[Here.kids[i]])
    BY <1>2, <2>1, ReadyFor
  <2> QED BY <1>4, <1>5, <2>2
<1> QED BY <1>3, <1>4, <1>5

LEMMA FineBuiltin == ASSUME NEW ty, NEW ht, WellRun(ty, ht), EvalBuiltin PROVE Fine(ty)
<1>1. /\ Ready("Call") /\ Running /\ stack # <<>> /\ Here.k = "Call" /\ Here.k \in ExprKind
      /\ Here.name \in Builtin /\ Here.name # "print"
  BY ReadyFor DEF EvalBuiltin, ExprKind, Builtin
<1>2. PICK f : f = Here.name
  OBVIOUS
<1>3. DOMAIN BuiltinParams = Builtin
  BY DEF BuiltinParams, Builtin
<1>4. f \in DOMAIN BuiltinParams /\ Takes(ty, Here, BuiltinParams[f]) /\ ty[Top.n] = BuiltinRet(f)
  <2>1. CallRule(ty, prog, Here, ty[Top.n])
    BY <1>1, HereKnown DEF ExprRule
  <2> QED BY <1>1, <1>2, <1>3, <2>1 DEF CallRule
<1>5. PICK args : args = Top.vs
  OBVIOUS
<1>6. PICK ts : ts = BuiltinParams[f]
  OBVIOUS
<1>7. Len(args) = Len(ts) /\ DOMAIN args = 1 .. Len(Here.kids) /\ \A i \in DOMAIN ts \cap DOMAIN args : VT(ht, args[i], ts[i])
  BY <1>1, <1>4, <1>5, <1>6, ArgsT
<1>8. DOMAIN ts = 1 .. Len(ts) /\ Len(ts) = Len(Here.kids)
  <2>1. f \in {"length", "charAt", "substring"}
    BY <1>1, <1>2 DEF Builtin
  <2> QED BY <1>4, <1>6, <2>1 DEF Takes, BuiltinParams
<1>9. \A i \in 1 .. Len(ts) : VT(ht, args[i], ts[i])
  BY <1>7, <1>8
<1>10. PICK o : o = ApplyBuiltin(f, args)
  OBVIOUS
<1>11. Gives(ht, o, ty[Top.n])
  BY <1>4, <1>6, <1>7, <1>9, <1>10, BuiltinGives
<1>12. Finish(o)
  BY <1>2, <1>5, <1>10 DEF EvalBuiltin
<1> QED BY <1>1, <1>11, <1>12, FinishFine

LEMMA FineEndCall == ASSUME NEW ty, NEW ht, WellRun(ty, ht), EndCall PROVE Fine(ty)
<1>1. Running /\ stack # <<>> /\ Here.k = "Call" /\ Here.k \in ExprKind /\ Here = Nodes[Top.n] /\ Done > Len(Operands(Here))
  BY DEF EndCall, At, Running, ExprKind, Here
<1>2. Done \in Nat /\ Len(Operands(Here)) \in Nat /\ Top.n \in NodeId
  BY <1>1, TopT, HereKnown, OperandsType
<1>3. Done \in 1 .. Done
  BY <1>1, <1>2
<1>4. ExprOf(Top.n, Done) = Top.n /\ Top.n # 0
  BY <1>1, <1>2, ExprOfs, AstAssumption DEF Evaluated
<1>5. VT(ht, Top.vs[Done], ty[Top.n]) /\ AnswerType(ty, Top.n) = ty[Top.n]
  BY <1>1, <1>3, <1>4, TopT DEF AnswerType
<1>6. PICK v : v = Top.vs[Done]
  OBVIOUS
<1>7. Yield(v)
  BY <1>6 DEF EndCall
<1> QED BY <1>1, <1>5, <1>6, <1>7, YieldFine

\* A name is that of one function.
LEMMA OneFunction ==
  ASSUME NEW ty, NEW ht, WellRun(ty, ht), NEW i \in 1 .. Len(prog), Nodes[prog[i]].k = "Func", NEW f, f = Nodes[prog[i]].name
  PROVE  Functions(f) = {prog[i]}
<1>1. DOMAIN prog = 1 .. Len(prog) /\ Len(prog) \in Nat
  BY WellParts, ProgramNodes
<1>2. \A j \in 1 .. Len(prog) : Nodes[prog[j]].k = "Func" /\ Nodes[prog[j]].name = f => j = i
  BY <1>1, WellParts DEF WellTyped, OneEach
<1>3. {j \in DOMAIN prog : /\ Nodes[prog[j]].k = "Func" /\ Nodes[prog[j]].name = f
                           /\ \A j2 \in j + 1 .. Len(prog) : ~(Nodes[prog[j2]].k = "Func" /\ Nodes[prog[j2]].name = f)} = {i}
  <2>1. ASSUME NEW j2 \in i + 1 .. Len(prog) PROVE ~(Nodes[prog[j2]].k = "Func" /\ Nodes[prog[j2]].name = f)
    <3>1. j2 \in 1 .. Len(prog) /\ j2 # i
      BY <1>1
    <3> QED BY <1>2, <3>1
  <2> QED BY <1>1, <1>2, <2>1
<1> QED BY <1>3 DEF Functions

\* Parameters hold arguments of their types.
LEMMA BindT ==
  ASSUME NEW ht, NEW ps, NEW args, \A i \in DOMAIN ps \cap DOMAIN args : VT(ht, args[i], Nodes[ps[i]].ty),
         NEW b, b = Bind(ps, args), NEW x \in Name, b[x].d # 0
  PROVE  VT(ht, b[x].v, Nodes[b[x].d].ty)
<1>1. b[x] = IF ArgOf(ps, args, x) = {} THEN Unbound
             ELSE LET i == CHOOSE i \in ArgOf(ps, args, x) : TRUE IN [v |-> args[i], d |-> ps[i]]
  BY DEF Bind
<1>2. ArgOf(ps, args, x) # {}
  BY <1>1 DEF Unbound
<1>3. PICK i : i = CHOOSE j \in ArgOf(ps, args, x) : TRUE
  OBVIOUS
<1>4. i \in ArgOf(ps, args, x)
  BY <1>2, <1>3
<1>5. i \in DOMAIN ps \cap DOMAIN args
  BY <1>4 DEF ArgOf
<1>6. b[x].v = args[i] /\ b[x].d = ps[i]
  BY <1>1, <1>2, <1>3
<1> QED BY <1>5, <1>6

\* What a call does to the environments.
LEMMA EnteredT ==
  ASSUME NEW ty, NEW ht, WellRun(ty, ht), NEW ps, NEW args,
         \A i \in DOMAIN ps \cap DOMAIN args : VT(ht, args[i], Nodes[ps[i]].ty),
         NEW es2, es2 = [Child(envs, CalleeParent) EXCEPT ![Len(envs) + 1].vars = Bind(ps, args)]
  PROVE  EnvsT(ht, es2)
<1>1. PICK b : b = Bind(ps, args)
  OBVIOUS
<1>2. \A x \in Name : b[x].d # 0 => VT(ht, b[x].v, Nodes[b[x].d].ty)
  BY <1>1, BindT
<1>3. es2 = Called(b)
  BY <1>1 DEF Called, CalleeParent
<1> QED BY <1>2, <1>3, WellParts, CalledT

LEMMA FineCall == ASSUME NEW ty, NEW ht, WellRun(ty, ht), EvalCall PROVE Fine(ty)
<1>1. /\ Ready("Call") /\ Running /\ stack # <<>> /\ Here.k = "Call" /\ Here.k \in ExprKind /\ Here = Nodes[Top.n]
      /\ Here.name \notin Builtin \cup {"print"} /\ Done = Len(Operands(Here)) /\ Top.n \in NodeId /\ Done \in Nat
  BY ReadyFor, HereKnown DEF EvalCall, ExprKind
<1>2. PICK f : f = Here.name
  OBVIOUS
<1>3. DOMAIN prog = 1 .. Len(prog) /\ DOMAIN BuiltinParams = Builtin
  BY WellParts, ProgramNodes DEF BuiltinParams, Builtin
<1>4. PICK i \in 1 .. Len(prog) : /\ Nodes[prog[i]].k = "Func" /\ Nodes[prog[i]].name = f
                                  /\ Takes(ty, Here, ParamTypes(prog[i])) /\ ty[Top.n] = Nodes[prog[i]].ty
  <2>1. CallRule(ty, prog, Here, ty[Top.n])
    BY <1>1, HereKnown DEF ExprRule
  <2> QED BY <1>1, <1>2, <1>3, <2>1 DEF CallRule
<1>5. PICK d : d = prog[i]
  OBVIOUS
<1>6. Functions(f) = {d}
  BY <1>4, <1>5, OneFunction
<1>7. PICK args : args = Top.vs
  OBVIOUS
<1>8. PICK ps : ps = Nodes[d].params
  OBVIOUS
<1>9. /\ envs' = [Child(envs, CalleeParent) EXCEPT ![Len(envs) + 1].vars = Bind(ps, args)]
      /\ stack' = Push(d, Len(envs) + 1) /\ heap' = heap /\ flow' = flow /\ status' = status
  <2>1. CallFunction(f, args, stack)
    BY <1>2, <1>7 DEF EvalCall
  <2>2. Functions(f) # {}
    BY <1>6
  <2> QED BY <1>6, <1>8, <2>1, <2>2 DEF CallFunction, Push
<1>10. \A j \in DOMAIN ps \cap DOMAIN args : VT(ht, args[j], Nodes[ps[j]].ty)
  <2>1. PICK ts : ts = ParamTypes(d)
    OBVIOUS
  <2>2. \A j \in DOMAIN ts \cap DOMAIN args : VT(ht, args[j], ts[j])
    BY <1>1, <1>4, <1>5, <1>7, <2>1, ArgsT
  <2>3. DOMAIN ts = DOMAIN ps /\ \A j \in DOMAIN ps : ts[j] = Nodes[ps[j]].ty
    BY <1>8, <2>1 DEF ParamTypes
  <2> QED BY <2>2, <2>3
<1>11. EnvsT(ht, envs')
  <2>1. PICK es2 : es2 = envs'
    OBVIOUS
  <2>2. EnvsT(ht, es2)
    BY <1>9, <1>10, <2>1, EnteredT
  <2> QED BY <2>1, <2>2
<1>12. Wants(ty, Top, Frame(d, Len(envs) + 1))
  <2>1. Frame(d, Len(envs) + 1).n = d /\ AnswerType(ty, d) = ty[Top.n] /\ Nodes[d].k \notin StmtKind
    BY <1>4, <1>5, FrameParts, KindsApart DEF AnswerType
  <2>2. Done + 1 > Len(Operands(Here))
    BY <1>1
  <2>3. ExprOf(Top.n, Done + 1) = Top.n
    BY <1>1, <2>2, ExprOfs DEF Evaluated
  <2> QED BY <2>1, <2>3 DEF Wants, Done
<1>13. FramesT(ht, ty, stack')
  BY <1>9, <1>12, WellParts, PushT
<1> QED BY <1>1, <1>9, <1>11, <1>13, StackFine
-----------------------------------------------------------------------------
(***************************************************************************)
(* The statements.                                                         *)
(***************************************************************************)
LEMMA FineExpr == ASSUME NEW ty, NEW ht, WellRun(ty, ht), ExecExpr PROVE Fine(ty)
<1>1. Running /\ Here.k \in StmtKind /\ Yield(VoidV)
  BY ReadyFor DEF ExecExpr, StmtKind
<1> QED BY <1>1, YieldFine

\* A child that is executed, in the environment or in a new one.
LEMMA ExecFine ==
  ASSUME NEW ty, NEW ht, WellRun(ty, ht), Running, NEW n, Exec(n, Top.env), ExprOf(Top.n, Done + 1) = 0
  PROVE  Fine(ty)
<1>1. PICK e : stack' = Push(n, e)
  BY DEF Exec
<1>2. UNCHANGED <<prog, decl, heap, flow, out, status>>
  BY DEF Exec
<1>3. EnvsT(ht, envs')
  <2>1. envs' = envs \/ envs' = Child(envs, Top.env)
    BY DEF Exec
  <2>2. Top.env \in 1 .. Len(envs)
    BY WellParts, TopType DEF Running
  <2> QED BY <2>1, <2>2, WellParts, ChildT
<1> QED BY <1>1, <1>2, <1>3, RunFine

LEMMA ExecScopedFine ==
  ASSUME NEW ty, NEW ht, WellRun(ty, ht), Running, NEW n, ExecScoped(n), ExprOf(Top.n, Done + 1) = 0
  PROVE  Fine(ty)
<1>1. CASE Nodes[n].k = "Block"
  BY <1>1, ExecFine DEF ExecScoped
<1>2. CASE Nodes[n].k # "Block"
  <2>1. PICK es : es = Child(envs, Top.env)
    OBVIOUS
  <2>2. envs' = (IF Nodes[n].k = "For" THEN Child(es, Len(es)) ELSE es) /\ stack' = Push(n, Len(envs'))
        /\ UNCHANGED <<prog, decl, heap, flow, out, status>>
    BY <1>2, <2>1 DEF ExecScoped
  <2>3. Top.env \in 1 .. Len(envs)
    BY WellParts, TopType DEF Running
  <2>4. EnvsT(ht, es) /\ Made(Len(heap), es) /\ ChainsOf(es) /\ Len(es) \in 1 .. Len(es)
    <3>1. EnvsT(ht, es)
      BY <2>1, <2>3, WellParts, ChildT
    <3>2. Made(Len(heap), es) /\ ChainsOf(es) /\ Len(es) = Len(envs) + 1
      BY <2>1, <2>3, WellParts, OneChild
    <3>3. Len(envs) \in Nat
      BY WellParts, TypeParts
    <3> QED BY <3>1, <3>2, <3>3
  <2>5. EnvsT(ht, envs')
    <3>1. PICK es2 : es2 = Child(es, Len(es))
      OBVIOUS
    <3>2. EnvsT(ht, es2)
      BY <2>4, <3>1, ChildT
    <3> QED BY <2>2, <2>4, <3>1, <3>2
  <2>6. PICK e : stack' = Push(n, e)
    BY <2>2
  <2> QED BY <2>2, <2>5, <2>6, RunFine
<1> QED BY <1>1, <1>2

LEMMA FineBlock == ASSUME NEW ty, NEW ht, WellRun(ty, ht), ExecBlock PROVE Fine(ty)
<1>1. Running /\ stack # <<>> /\ Here.k \in {"Block", "Func"} /\ Here = Nodes[Top.n]
  BY DEF ExecBlock, At, Running, Here
<1>2. ExprOf(Top.n, Done + 1) = 0
  BY <1>1, ExprOfs
<1>3. CASE Done < Len(Here.kids)
  BY <1>1, <1>2, <1>3, ExecFine DEF ExecBlock
<1>4. CASE ~(Done < Len(Here.kids))
  <2>1. Yield(VoidV)
    BY <1>4 DEF ExecBlock
  <2>2. CASE Here.k = "Block"
    BY <1>1, <2>1, <2>2, YieldFine DEF StmtKind
  <2>3. CASE Here.k = "Func"
    <3>1. Done <= Len(Here.kids) /\ Done \in Nat /\ Len(Here.kids) \in Nat
      <4>1. Fell(Top)
        <5>1. Len(stack) \in 1 .. Len(stack)
          BY <1>1, WellParts, TypeParts
        <5> QED BY <5>1, WellParts DEF FallOf, Top
      <4> QED BY <1>1, <2>3, <4>1, TopT, HereKnown DEF Fell, Done
    <3>2. At("Func") /\ Done = Len(Here.kids)
      BY <1>1, <1>4, <2>3, <3>1 DEF At
    <3>3. Here.ty = TVoid
      BY <3>2, WellParts, SoundFalls DEF FallsOffVoid, WellRun
    <3>4. VT(ht, VoidV, AnswerType(ty, Top.n))
      BY <1>1, <2>3, <3>3, ScalarT, MadeKinds DEF AnswerType
    <3> QED BY <1>1, <2>1, <3>4, YieldFine
  <2> QED BY <1>1, <2>2, <2>3
<1> QED BY <1>3, <1>4

\* A condition is a bool.
LEMMA ConditionT ==
  ASSUME NEW ty, NEW ht, WellRun(ty, ht), stack # <<>>, NEW i \in 1 .. Done, ExprOf(Top.n, i) = Here.kids[i],
         i \in 1 .. Len(Here.kids), ty[Here.kids[i]] = TBool
  PROVE  Top.vs[i].k = "Bool"
<1>1. Here.kids[i] # 0
  BY HereKnown, AstAssumption
<1>2. VT(ht, Top.vs[i], TBool)
  BY <1>1, TopT
<1> QED BY <1>2, ScalarT

LEMMA FineIf == ASSUME NEW ty, NEW ht, WellRun(ty, ht), ExecIf PROVE Fine(ty)
<1>1. Running /\ stack # <<>> /\ Here.k = "If" /\ Here = Nodes[Top.n] /\ Done \in Nat /\ Here.k \in StmtKind
  BY TopT DEF ExecIf, At, Running, Here, StmtKind
<1>2. 1 \in 1 .. Len(Here.kids) /\ Nodes[Here.kids[1]].k \in ExprKind /\ ty[Here.kids[1]] = TBool
  <2>1. Len(Here.kids) \in {2, 3} /\ Nodes[Here.kids[1]].k \in ExprKind
    BY <1>1, HereKnown DEF Shape
  <2> QED BY <1>1, <2>1, HereKnown DEF StmtRule
<1>3. \A i : ExprOf(Top.n, i) = IF i = 1 THEN Here.kids[1] ELSE 0
  BY <1>1, ExprOfs
<1>4. CASE Done = 0
  <2>1. Eval(Here.kids[1]) /\ ExprOf(Top.n, Done + 1) = Here.kids[1]
    BY <1>3, <1>4 DEF ExecIf
  <2>2. PICK n : n = Here.kids[1]
    OBVIOUS
  <2>3. Wants(ty, Top, Frame(n, Top.env))
    BY <1>2, <2>1, <2>2, WantsKid
  <2> QED BY <1>1, <2>1, <2>2, <2>3, EvalFine
<1>5. CASE Done = 1
  <2>1. Top.vs[1].k = "Bool" /\ ExprOf(Top.n, Done + 1) = 0
    <3>1. 1 \in 1 .. Done
      BY <1>5
    <3> QED BY <1>1, <1>2, <1>3, <1>5, <3>1, ConditionT
  <2>2. \/ \E n : ExecScoped(n)
        \/ Yield(VoidV)
    BY <1>5, <2>1 DEF ExecIf, Branch
  <2> QED BY <1>1, <2>1, <2>2, ExecScopedFine, YieldFine
<1>6. CASE Done \notin {0, 1}
  <2>1. Yield(VoidV)
    BY <1>6 DEF ExecIf
  <2> QED BY <1>1, <2>1, YieldFine
<1> QED BY <1>4, <1>5, <1>6

LEMMA FineWhile == ASSUME NEW ty, NEW ht, WellRun(ty, ht), ExecWhile PROVE Fine(ty)
<1>1. Running /\ stack # <<>> /\ Here.k = "While" /\ Here = Nodes[Top.n] /\ Done \in Nat /\ Here.k \in StmtKind
  BY TopT DEF ExecWhile, At, Running, Here, StmtKind
<1>2. 1 \in 1 .. Len(Here.kids) /\ Nodes[Here.kids[1]].k \in ExprKind /\ ty[Here.kids[1]] = TBool
  <2>1. Len(Here.kids) = 2 /\ Nodes[Here.kids[1]].k \in ExprKind
    BY <1>1, HereKnown DEF Shape
  <2> QED BY <1>1, <2>1, HereKnown DEF StmtRule
<1>3. \A i : ExprOf(Top.n, i) = IF i = 1 THEN Here.kids[1] ELSE 0
  BY <1>1, ExprOfs
<1>4. CASE Done = 0
  <2>1. Eval(Here.kids[1]) /\ ExprOf(Top.n, Done + 1) = Here.kids[1]
    BY <1>3, <1>4 DEF ExecWhile
  <2>2. PICK n : n = Here.kids[1]
    OBVIOUS
  <2>3. Wants(ty, Top, Frame(n, Top.env))
    BY <1>2, <2>1, <2>2, WantsKid
  <2> QED BY <1>1, <2>1, <2>2, <2>3, EvalFine
<1>5. CASE Done = 1
  <2>1. Top.vs[1].k = "Bool" /\ ExprOf(Top.n, Done + 1) = 0
    <3>1. 1 \in 1 .. Done
      BY <1>5
    <3> QED BY <1>1, <1>2, <1>3, <1>5, <3>1, ConditionT
  <2>2. \/ \E n : ExecScoped(n)
        \/ Yield(VoidV)
    BY <1>5, <2>1 DEF ExecWhile, Branch
  <2> QED BY <1>1, <2>1, <2>2, ExecScopedFine, YieldFine
<1>6. CASE Done \notin {0, 1}
  <2>1. stack' = SetTop(<<>>) /\ UNCHANGED <<prog, decl, envs, heap, flow, out, status>>
    BY <1>6 DEF ExecWhile, Again
  <2>2. PICK g : g = [Top EXCEPT !.vs = <<>>]
    OBVIOUS
  <2>3. g.vs = <<>>
    BY <1>1, <2>2, TopT DEF Frames
  <2>4. FrameT(ht, ty, g)
    BY <2>3 DEF FrameT
  <2> QED BY <1>1, <2>1, <2>2, <2>4, SetFine
<1> QED BY <1>4, <1>5, <1>6

LEMMA FineFor == ASSUME NEW ty, NEW ht, WellRun(ty, ht), ExecFor PROVE Fine(ty)
<1>1. Running /\ stack # <<>> /\ Here.k = "For" /\ Here = Nodes[Top.n] /\ Done \in Nat /\ Here.k \in StmtKind
  BY TopT DEF ExecFor, At, Running, Here, StmtKind
<1>2. /\ 2 \in 1 .. Len(Here.kids) /\ Nodes[Here.kids[2]].k \in ExprKind /\ Nodes[Here.kids[3]].k \in ExprKind
      /\ ty[Here.kids[2]] = TBool
  <2>1. Len(Here.kids) = 4 /\ Nodes[Here.kids[2]].k \in ExprKind /\ Nodes[Here.kids[3]].k \in ExprKind
    BY <1>1, HereKnown DEF Shape
  <2> QED BY <1>1, <2>1, HereKnown DEF StmtRule
<1>3. \A i : ExprOf(Top.n, i) = IF i = 2 THEN Here.kids[2] ELSE 0
  BY <1>1, ExprOfs
<1>4. CASE Done = 0
  <2>1. Exec(Here.kids[1], Top.env) /\ ExprOf(Top.n, Done + 1) = 0
    BY <1>3, <1>4 DEF ExecFor
  <2> QED BY <1>1, <2>1, ExecFine
<1>5. ASSUME NEW n, Nodes[n].k \in ExprKind, Eval(n), ExprOf(Top.n, Done + 1) \in {0, n},
             n = Here.kids[2] \/ ExprOf(Top.n, Done + 1) = 0
      PROVE  Fine(ty)
  <2>1. Wants(ty, Top, Frame(n, Top.env))
    BY <1>5, WantsKid
  <2> QED BY <1>1, <1>5, <2>1, EvalFine
<1>6. CASE Done = 1
  <2>1. Eval(Here.kids[2]) /\ ExprOf(Top.n, Done + 1) = Here.kids[2]
    BY <1>3, <1>6 DEF ExecFor
  <2>2. PICK n : n = Here.kids[2]
    OBVIOUS
  <2> QED BY <1>2, <1>5, <2>1, <2>2
<1>7. CASE Done = 3
  <2>1. Eval(Here.kids[3])
    BY <1>7 DEF ExecFor
  <2>2. ExprOf(Top.n, Done + 1) = 0
    BY <1>3, <1>7
  <2>3. PICK n : n = Here.kids[3]
    OBVIOUS
  <2> QED BY <1>2, <1>5, <2>1, <2>2, <2>3
<1>8. CASE Done = 2
  <2>1. Top.vs[2].k = "Bool" /\ ExprOf(Top.n, Done + 1) = 0
    <3>1. 2 \in 1 .. Done
      BY <1>8
    <3> QED BY <1>1, <1>2, <1>3, <1>8, <3>1, ConditionT
  <2>2. \/ \E n : ExecScoped(n)
        \/ Yield(VoidV)
    BY <1>8, <2>1 DEF ExecFor, Branch
  <2> QED BY <1>1, <2>1, <2>2, ExecScopedFine, YieldFine
<1>9. CASE Done \notin 0 .. 3
  <2>1. PICK vs : vs = SubSeq(Top.vs, 1, 1)
    OBVIOUS
  <2>2. stack' = SetTop(vs) /\ UNCHANGED <<prog, decl, envs, heap, flow, out, status>>
    BY <1>9, <2>1 DEF ExecFor, Again
  <2>3. PICK g : g = [Top EXCEPT !.vs = vs]
    OBVIOUS
  <2>4. g.vs = vs /\ g.n = Top.n
    BY <1>1, <2>3, TopT DEF Frames
  <2>5. Len(vs) = 1
    BY <1>1, <1>9, <2>1, TopT
  <2>6. FrameT(ht, ty, g)
    BY <1>3, <2>4, <2>5 DEF FrameT
  <2> QED BY <1>1, <2>2, <2>3, <2>6, SetFine
<1> QED BY <1>1, <1>4, <1>6, <1>7, <1>8, <1>9
-----------------------------------------------------------------------------
(***************************************************************************)
(* Returns, and the declarations.                                          *)
(***************************************************************************)
\* A statement is run by one that is in the same function, or by that function.
LEMMA BelowHere ==
  ASSUME NEW ty, NEW ht, WellRun(ty, ht), stack # <<>>, Here.k \in StmtKind, Len(stack) - 1 # 0,
         NEW g, g = stack[Len(stack) - 1]
  PROVE  Nodes[g.n].k \in Returns2 /\ RetOf(prog, g.n) = RetOf(prog, Top.n)
<1>1. PICK L : L = Len(stack)
  OBVIOUS
<1>2. L \in Nat /\ L - 1 \in 1 .. L - 1 /\ L - 1 \in 1 .. L /\ (L - 1) + 1 = L /\ Top = stack[L]
  BY <1>1, WellParts, TypeParts DEF Top
<1>3. Awaits(g, Top) /\ g.n \in NodesOf(prog)
  <2>1. StackOf(prog, stack)
    BY WellParts
  <2>2. Awaits(stack[L - 1], stack[(L - 1) + 1])
    BY <1>1, <1>2, <2>1 DEF StackOf, Waiting
  <2>3. stack[L - 1].n \in NodesOf(prog)
    BY <1>1, <1>2, <2>1 DEF StackOf, InProgram
  <2> QED BY <1>1, <1>2, <2>2, <2>3
<1>4. PICK i \in 1 .. Len(Nodes[g.n].kids) : ExecutesNow(g, i) /\ Top.n = Nodes[g.n].kids[i]
  BY <1>3, KindsApart DEF Awaits, Here
<1>5. Nodes[g.n].k \in Returns2
  BY <1>4 DEF ExecutesNow, Returns2
<1>6. PICK d \in 1 .. Len(prog) : g.n \in Below(prog[d])
  BY <1>3, WellParts, ProgramNodes
<1>7. prog[d] \in NodeId
  BY WellParts, ProgramNodes
<1>8. Top.n \in Below(prog[d])
  BY <1>4, <1>6, <1>7, BelowClosed
<1> QED BY <1>5, <1>6, <1>8, WellParts, RetOfDecl

\* A statement is left with a Return of its function's type.
LEMMA CutFine ==
  ASSUME NEW ty, NEW ht, WellRun(ty, ht), stack # <<>>, Here.k \in StmtKind,
         stack' = SubSeq(stack, 1, Len(stack) - 1), UNCHANGED <<prog, envs, heap>>, status' # "panic",
         VT(ht, flow'.v, RetOf(prog, Top.n))
  PROVE  Fine(ty)
<1>1. FramesT(ht, ty, stack')
  BY WellParts, CutT
<1>2. FlowT(ht, prog', stack', flow')
  <2>1. SUFFICES ASSUME stack' # <<>> PROVE /\ Nodes[stack'[Len(stack')].n].k \in Returns2
                                           /\ VT(ht, flow'.v, RetOf(prog', stack'[Len(stack')].n))
    BY DEF FlowT
  <2>2. PICK L : L = Len(stack)
    OBVIOUS
  <2>3. L \in Nat \ {0} /\ Len(stack') = L - 1 /\ \A j \in 1 .. L - 1 : stack'[j] = stack[j]
    BY <2>2, WellParts, Cut
  <2>4. L - 1 # 0
    <3>1. Len(stack') # 0
      <4>1. PICK s : s = stack'
        OBVIOUS
      <4>2. s \in Seq(Frames(Len(heap), Len(envs)))
        BY <4>1, WellParts, TypeParts, CutType
      <4>3. Len(s) # 0
        BY ONLY <2>1, <4>1, <4>2
      <4> QED BY <4>1, <4>3
    <3> QED BY <2>3, <3>1
  <2>5. PICK g : g = stack[L - 1]
    OBVIOUS
  <2>6. stack'[Len(stack')] = g
    BY <2>3, <2>4, <2>5
  <2>7. Nodes[g.n].k \in Returns2 /\ RetOf(prog, g.n) = RetOf(prog, Top.n)
    BY <2>2, <2>4, <2>5, BelowHere
  <2> QED BY <2>6, <2>7
<1>3. HeapT(ht, heap') /\ EnvsT(ht, envs')
  BY WellParts
<1> QED BY <1>1, <1>2, <1>3, Settled

LEMMA FineReturn == ASSUME NEW ty, NEW ht, WellRun(ty, ht), ExecReturn PROVE Fine(ty)
<1>1. Ready("Return") /\ stack' = SubSeq(stack, 1, Len(stack) - 1) /\ UNCHANGED <<prog, envs, heap>>
      /\ flow' = Return(IF Done = 1 THEN Top.vs[1] ELSE VoidV) /\ status' = status
  BY DEF ExecReturn
<1>2. /\ Running /\ stack # <<>> /\ Here.k = "Return" /\ Here = Nodes[Top.n] /\ Done = Len(Here.kids)
      /\ \A i \in 1 .. Done : VT(ht, Top.vs[i], ty[Here.kids[i]])
  BY <1>1, ReadyFor, ReadyKids DEF Here
<1>3. /\ Here.kids = <<>> <=> RetOf(prog, Top.n) = TVoid
      /\ \A i \in DOMAIN Here.kids : ty[Here.kids[i]] = RetOf(prog, Top.n)
  BY <1>2, HereKnown DEF StmtRule
<1>4. VT(ht, flow'.v, RetOf(prog, Top.n))
  <2>1. CASE Done = 1
    <3>1. flow'.v = Top.vs[1] /\ 1 \in 1 .. Done /\ 1 \in DOMAIN Here.kids
      BY <1>1, <1>2, <2>1, HereKnown DEF Return
    <3> QED BY <1>2, <1>3, <3>1
  <2>2. CASE Done # 1
    <3>1. flow'.v = VoidV
      BY <1>1, <2>2 DEF Return
    <3>2. Here.kids = <<>>
      <4>1. Len(Here.kids) \in {0, 1}
        BY <1>2, HereKnown DEF Shape
      <4>2. Here.kids \in Seq(NodeId)
        BY <1>2, WellParts, TopType
      <4> QED BY <1>2, <2>2, <4>1, <4>2
    <3> QED BY <1>3, <3>1, <3>2, ScalarT, MadeKinds
  <2> QED BY <2>1, <2>2
<1>5. Here.k \in StmtKind /\ status' # "panic"
  BY <1>1, <1>2 DEF StmtKind, Running
<1> QED BY <1>1, <1>2, <1>4, <1>5, CutFine

LEMMA FineUnwind == ASSUME NEW ty, NEW ht, WellRun(ty, ht), Unwind PROVE Fine(ty)
<1>1. stack # <<>> /\ flow # Normal /\ UNCHANGED <<prog, envs, heap>> /\ status' # "panic" /\ Here = Nodes[Top.n]
  BY DEF Unwind, Here
<1>2. Here.k \in Returns2 /\ VT(ht, flow.v, RetOf(prog, Top.n))
  BY <1>1, WellParts DEF FlowT, Top
<1>3. CASE Here.k = "Func"
  <2>1. stack' = Popped(flow.v) /\ flow' = Normal
    BY <1>3 DEF Unwind
  <2>2. AnswerType(ty, Top.n) = RetOf(prog, Top.n)
    <3>1. PICK d \in 1 .. Len(prog) : Top.n = prog[d]
      BY <1>1, <1>3, HereKnown, WellParts, FuncsAreDeclared
    <3>2. Top.n \in Below(prog[d])
      BY <1>1, <3>1, HereKnown, BelowClosed
    <3>3. RetOf(prog, Top.n) = Nodes[prog[d]].ty
      BY <3>2, WellParts, RetOfDecl
    <3> QED BY <1>1, <1>3, <3>1, <3>3 DEF AnswerType
  <2>3. PICK v : v = flow.v
    OBVIOUS
  <2>4. FramesT(ht, ty, stack')
    BY <1>1, <1>2, <2>1, <2>2, <2>3, WellParts, PopT
  <2>5. FlowT(ht, prog', stack', flow')
    BY <2>1 DEF FlowT
  <2>6. HeapT(ht, heap') /\ EnvsT(ht, envs')
    BY <1>1, WellParts
  <2> QED BY <1>1, <2>4, <2>5, <2>6, Settled
<1>4. CASE Here.k # "Func"
  <2>1. stack' = SubSeq(stack, 1, Len(stack) - 1) /\ flow' = flow
    BY <1>4 DEF Unwind
  <2>2. Here.k \in StmtKind
    BY <1>2, <1>4 DEF Returns2, StmtKind
  <2> QED BY <1>1, <1>2, <2>1, <2>2, CutFine
<1> QED BY <1>3, <1>4
\* A declaration runs, or main does, in a stack that was empty.
LEMMA FineRunDecl == ASSUME NEW ty, NEW ht, WellRun(ty, ht), RunDecl PROVE Fine(ty)
<1>1. stack = <<>> /\ UNCHANGED <<prog, envs, heap, flow, status>> /\ status' # "panic"
  BY DEF RunDecl, AtRun
<1>2. flow' = Normal
  BY <1>1 DEF WellRun, AtRest
<1>3. FramesT(ht, ty, stack')
  <2>1. CASE stack' = <<>>
    BY <2>1 DEF FramesT
  <2>2. CASE stack' # <<>>
    <3>1. PICK f : stack' = <<f>> /\ f.vs = <<>>
      BY <2>2 DEF RunDecl, Frame
    <3> QED BY <3>1 DEF FramesT, FrameT
  <2> QED BY <2>1, <2>2
<1>4. HeapT(ht, heap') /\ EnvsT(ht, envs') /\ FlowT(ht, prog', stack', flow')
  BY <1>1, <1>2, WellParts DEF FlowT
<1> QED BY <1>1, <1>3, <1>4, Settled

LEMMA FineRunMain == ASSUME NEW ty, NEW ht, WellRun(ty, ht), RunMain PROVE Fine(ty)
<1>1. stack = <<>> /\ status = "run" /\ flow = Normal
  BY DEF RunMain, AtRun, WellRun, AtRest
<1>2. PICK f : f = "main"
  OBVIOUS
<1>3. PICK i \in 1 .. Len(prog) : Nodes[prog[i]].k = "Func" /\ Nodes[prog[i]].name = f
  BY <1>2, WellParts, ProgramNodes DEF WellTyped, HasMain
<1>4. PICK d : d = prog[i]
  OBVIOUS
<1>5. Functions(f) = {d}
  BY <1>3, <1>4, OneFunction
<1>6. PICK args : args = <<>>
  OBVIOUS
<1>7. PICK ps : ps = Nodes[d].params
  OBVIOUS
<1>8. /\ envs' = [Child(envs, CalleeParent) EXCEPT ![Len(envs) + 1].vars = Bind(ps, args)]
      /\ stack' = Push(d, Len(envs) + 1) /\ heap' = heap /\ flow' = flow /\ status' = status /\ prog' = prog
  <2>1. CallFunction(f, args, stack)
    BY <1>1, <1>2, <1>5, <1>6 DEF RunMain
  <2>2. Functions(f) # {}
    BY <1>5
  <2> QED BY <1>5, <1>7, <2>1, <2>2 DEF CallFunction, Push
<1>9. EnvsT(ht, envs')
  <2>1. \A j \in DOMAIN ps \cap DOMAIN args : VT(ht, args[j], Nodes[ps[j]].ty)
    BY <1>6
  <2> QED BY <1>8, <2>1, EnteredT
<1>10. FramesT(ht, ty, stack')
  <2>1. PICK e : stack' = Push(d, e)
    BY <1>8
  <2> QED BY <1>1, <2>1, WellParts, PushT
<1>11. HeapT(ht, heap') /\ FlowT(ht, prog', stack', flow') /\ status' # "panic"
  BY <1>1, <1>8, WellParts DEF FlowT
<1> QED BY <1>9, <1>10, <1>11, Settled

LEMMA FineRunEnd == ASSUME NEW ty, NEW ht, WellRun(ty, ht), RunEnd PROVE Fine(ty)
<1>1. PICK s : s = "ok"
  OBVIOUS
<1>2. Halt(s) /\ s # "panic"
  BY <1>1 DEF RunEnd
<1> QED BY <1>2, HaltFine

\* Every step that is taken keeps the types, and panics only where it is said.
LEMMA StepFine ==
  ASSUME NEW ty, NEW ht, WellRun(ty, ht), Next, status = "run" PROVE Fine(ty)
<1>1. CASE EvalExpr
  BY <1>1, FineOperand, FineLiteral, FineIdent, FineBinary, FineShortCircuit, FineTernary, FineUnary,
     FineAssign, FineLoadSlot, FineCompoundAssign, FineIncDec, FineIndex, FineFieldAccess, FineArrayLiteral,
     FineArrayCreation, FinePrint, FineBuiltin, FineCall, FineEndCall
  DEF EvalExpr
<1>2. CASE ExecStmt
  BY <1>2, FineExpr, FineVarDecl, FineBlock, FineIf, FineWhile, FineFor, FineReturn, FineUnwind DEF ExecStmt
<1>3. CASE Run
  BY <1>3, FineRunDecl, FineRunMain, FineRunEnd DEF Run
<1> QED BY <1>1, <1>2, <1>3 DEF Next, Halted

\* A Return is caught by a function's activation, before the stack is empty.
LEMMA RestKept ==
  ASSUME NEW ty, NEW ht, WellRun(ty, ht), Next PROVE AtRest'
<1>1. SUFFICES ASSUME stack' = <<>> PROVE flow' = Normal
  BY DEF AtRest
<1>2. CASE UNCHANGED vars
  BY <1>1, <1>2 DEF vars, AtRest, WellRun
<1>3. CASE Shapes /\ stack # <<>>
  <2>1. flow # Normal => Unwinds \/ UNCHANGED vars
    <3>1. Unwind => Unwinds
      BY DEF Unwind, Unwinds
    <3> QED BY <1>3, <3>1, ReturnsFirst
  <2>2. CASE stack' = SubSeq(stack, 1, Len(stack) - 1) /\ Here.k \in StmtKind /\ Here.k # "VarDecl"
    <3>1. Len(stack) = 1
      <4>1. Len(stack') = Len(stack) - 1 /\ Len(stack) \in Nat \ {0}
        BY <1>3, <2>2, WellParts, Cut
      <4> QED BY <1>1, <4>1
    <3>2. Top = stack[1] /\ Based(prog, stack)
      BY <3>1, WellParts DEF Top, StackOf
    <3>3. Nodes[Top.n].k \in {"VarDecl", "Func"}
      BY <1>3, <3>2, WellParts, ProgramNodes DEF Based
    <3> QED BY <2>2, <3>3 DEF Here, StmtKind
  <2>3. CASE Unwinds
    <3>1. CASE Here.k = "Func"
      BY <2>3, <3>1 DEF Unwinds
    <3>2. CASE Here.k # "Func"
      <4>1. Here.k \in Returns2 /\ stack' = SubSeq(stack, 1, Len(stack) - 1)
        BY <1>3, <2>3, <3>2, WellParts DEF Unwinds, FlowT, Top, Here
      <4>2. Here.k \in StmtKind /\ Here.k # "VarDecl"
        BY <3>2, <4>1 DEF Returns2, StmtKind
      <4> QED BY <2>2, <4>1, <4>2
    <3> QED BY <3>1, <3>2
  <2>4. CASE Returns
    BY <2>2, <2>4 DEF Returns, StmtKind
  <2>5. CASE flow = Normal /\ ~Returns /\ ~Unwinds
    BY <1>3, <2>5 DEF Shapes, Halts, Begins, Descends, Enters, Calls, Pops, Sets, Quiet
  <2> QED BY <1>2, <2>1, <2>3, <2>4, <2>5
<1>4. CASE Shapes /\ stack = <<>>
  BY <1>4, <1>1 DEF Shapes, Halts, Begins, Descends, Enters, Calls, Pops, Sets, Quiet, Returns, Unwinds, WellRun, AtRest
<1> QED BY <1>2, <1>3, <1>4, WellParts, StepShape
-----------------------------------------------------------------------------
(***************************************************************************)
(* The globals that are defined.                                           *)
(***************************************************************************)
\* Only the program's own run goes on to the next declaration.
LEMMA SameDecl == ASSUME EvalExpr \/ ExecStmt PROVE decl' = decl
<1>1. \A s : Halt(s) => decl' = decl
  BY DEF Halt
<1>2. \A n : Eval(n) => decl' = decl
  BY DEF Eval
<1>3. \A v : Keep(v) \/ Yield(v) => decl' = decl
  BY DEF Keep, Yield
<1>4. \A o : Finish(o) => decl' = decl
  BY <1>1, <1>3 DEF Finish
<1>5. \A x, v, r : SetVar(x, v, r) => decl' = decl
  BY <1>1 DEF SetVar
<1>6. \A r, i, v, s : SetCell(r, i, v, s) => decl' = decl
  BY DEF SetCell
<1>7. \A n, e : Exec(n, e) => decl' = decl
  BY DEF Exec
<1>8. \A n : ExecScoped(n) => decl' = decl
  BY <1>7 DEF ExecScoped
<1>9. CASE EvalExpr
  <2> USE <1>1, <1>2, <1>3 DEF Branch, OnCell
  <2>1. EvalOperand \/ EvalLiteral \/ EvalIdent \/ EvalBinary => decl' = decl
    BY <1>4 DEF EvalOperand, EvalLiteral, EvalIdent, EvalBinary
  <2>2. EvalShortCircuit \/ EvalTernary \/ EvalUnary => decl' = decl
    BY <1>4 DEF EvalShortCircuit, EvalTernary, EvalUnary
  <2>3. EvalAssign \/ LoadSlot \/ EvalCompoundAssign => decl' = decl
    BY <1>5, <1>6 DEF EvalAssign, LoadSlot, EvalCompoundAssign
  <2>4. EvalIncDec => decl' = decl
    BY <1>5, <1>6 DEF EvalIncDec
  <2>5. EvalIndex \/ EvalFieldAccess => decl' = decl
    BY <1>4 DEF EvalIndex, EvalFieldAccess
  <2>6. EvalArrayLiteral \/ EvalArrayCreation => decl' = decl
    BY DEF EvalArrayLiteral, EvalArrayCreation
  <2>7. EvalPrint \/ EvalBuiltin \/ EvalCall \/ EndCall => decl' = decl
    BY <1>4 DEF EvalPrint, EvalBuiltin, EvalCall, EndCall
  <2> QED BY <1>9, <2>1, <2>2, <2>3, <2>4, <2>5, <2>6, <2>7 DEF EvalExpr
<1>10. CASE ExecStmt
  <2> USE <1>1, <1>2, <1>3 DEF Branch, Again
  <2>1. ExecExpr \/ ExecVarDecl \/ ExecReturn \/ Unwind => decl' = decl
    BY DEF ExecExpr, ExecVarDecl, ExecReturn, Unwind
  <2>2. ExecBlock \/ ExecIf \/ ExecWhile \/ ExecFor => decl' = decl
    BY <1>7, <1>8 DEF ExecBlock, ExecIf, ExecWhile, ExecFor
  <2> QED BY <1>10, <2>1, <2>2 DEF ExecStmt
<1> QED BY <1>9, <1>10

\* The activation that the others are above stays what it is.
LEMMA SameBase ==
  ASSUME TypeOK, Moves, stack # <<>>, stack' # <<>> PROVE stack'[1].n = stack[1].n
<1>1. Len(stack) \in Nat \ {0} /\ 1 \in 1 .. Len(stack)
  <2>1. Len(stack) \in Nat \ {0}
    BY TypeParts
  <2> QED BY <2>1
<1>2. CASE \E n, e : stack' = Push(n, e)
  BY <1>1, <1>2, Pushed
<1>3. CASE \E v : stack' = Popped(v)
  <2>1. PICK v : stack' = Popped(v)
    BY <1>3
  <2>2. Len(stack) - 1 # 0
    <3>1. Len(stack') # 0
      BY <2>1 DEF Popped
    <3> QED BY <2>1, <3>1, Answered
  <2> QED BY <1>1, <2>1, <2>2, Answered
<1>4. CASE \E vs : stack' = SetTop(vs)
  BY <1>1, <1>4, Changed
<1>5. CASE stack' = SubSeq(stack, 1, Len(stack) - 1)
  <2>1. PICK s : s = stack'
    OBVIOUS
  <2>2. s \in Seq(Frames(Len(heap), Len(envs))) /\ s # <<>>
    BY <1>5, <2>1, TypeParts, CutType
  <2>3. Len(s) # 0
    BY <2>2
  <2> QED BY <1>1, <1>5, <2>1, <2>3, Cut
<1> QED BY <1>2, <1>3, <1>4, <1>5
  DEF Moves, Stops, Starts, Asks, Runs, Invokes, Yields, Binds, Resets, Leaves, Ends

\* A global that is defined stays so.
LEMMA StillDefined ==
  ASSUME NEW ty, NEW ht, WellRun(ty, ht), Moves, NEW x \in Name, envs[Globals].vars[x].d # 0
  PROVE  envs'[Globals].vars[x].d # 0
<1>1. Globals \in 1 .. Len(envs) /\ Made(Len(heap), envs) /\ ChainsOf(envs) /\ TypeOK
  BY WellParts, TypeParts
<1>2. CASE envs' = envs
  BY <1>2
<1>3. CASE SameNames
  BY <1>1, <1>3 DEF SameNames
<1>4. CASE Runs
  <2>1. PICK w : Grown(envs, envs', Top.env, w)
    BY <1>4 DEF Runs
  <2>2. Top.env \in 1 .. Len(envs)
    BY <1>1, <1>4, TopType DEF Runs
  <2> QED BY <1>1, <2>1, <2>2, SomeGrown
<1>5. CASE Invokes
  <2>1. PICK b : envs' = Called(b)
    BY <1>5 DEF Invokes
  <2> QED BY <1>1, <2>1, CallScope
<1>6. CASE Binds
  <2>1. PICK v : envs' = Define(Top.env, Top.n, v)
    BY <1>6 DEF Binds
  <2>2. stack # <<>> /\ Top.n # 0
    BY <1>1, <1>6, TopType, AstAssumption DEF Binds
  <2>3. CASE Top.env = Globals
    BY <1>1, <2>1, <2>2, <2>3, DefineScope
  <2>4. CASE Top.env # Globals
    BY <1>1, <2>1, <2>2, <2>4, DefineScope
  <2> QED BY <2>3, <2>4
<1> QED BY <1>2, <1>3, <1>4, <1>5, <1>6
  DEF Moves, Stops, Starts, Asks, Yields, Resets, Leaves, Ends

\* What a declaration's activation does.
LEMMA AtVarDecl ==
  ASSUME Next, stack # <<>>, Here.k = "VarDecl", flow = Normal
  PROVE  ExecVarDecl \/ EvalOperand \/ UNCHANGED vars
<1>1. EvalExpr => EvalOperand
  BY DEF EvalExpr, EvalLiteral, EvalIdent, EvalBinary, EvalShortCircuit, EvalTernary, EvalUnary, EvalAssign,
     LoadSlot, EvalCompoundAssign, EvalIncDec, EvalIndex, EvalFieldAccess, EvalArrayLiteral,
     EvalArrayCreation, EvalPrint, EvalBuiltin, EvalCall, EndCall, Ready, At
<1>2. ExecStmt => ExecVarDecl
  BY DEF ExecStmt, ExecExpr, ExecBlock, ExecIf, ExecWhile, ExecFor, ExecReturn, Unwind, Ready, At
<1> QED BY <1>1, <1>2 DEF Next, Halted, Run, RunDecl, RunMain, RunEnd, AtRun
LEMMA RunDefined ==
  ASSUME NEW ty, NEW ht, WellRun(ty, ht), Run, status' = "run" PROVE GlobalsDefined'
<1>1. stack = <<>> /\ status = "run" /\ prog' = prog /\ decl \in 1 .. Len(prog) + 2 /\ decl' = decl + 1
      /\ Len(prog) \in Nat /\ DOMAIN prog = 1 .. Len(prog)
  <2>1. TypeOK /\ Len(prog) \in Nat /\ DOMAIN prog = 1 .. Len(prog)
    BY WellParts, ProgramNodes
  <2> QED BY <2>1 DEF Run, RunDecl, RunMain, RunEnd, AtRun, CallFunction, Halt, TypeOK
<1>2. \A i \in 1 .. Len(prog) : i < decl /\ Nodes[prog[i]].k = "VarDecl" => envs[Globals].vars[Nodes[prog[i]].name].d # 0
  BY <1>1 DEF WellRun, GlobalsDefined
<1>3. CASE RunDecl
  <2>1. envs' = envs /\ decl <= Len(prog)
        /\ stack' = IF Nodes[prog[decl]].k = "VarDecl" THEN <<Frame(prog[decl], Globals)>> ELSE <<>>
    BY <1>3 DEF RunDecl
  <2>2. CASE Nodes[prog[decl]].k = "VarDecl"
    <3>1. stack' # <<>> /\ stack'[1].n = prog[decl]
      BY <2>1, <2>2 DEF Frame
    <3>2. ASSUME NEW i \in 1 .. Len(prog), i < decl + 1, Nodes[prog[i]].k = "VarDecl", stack'[1].n # prog[i]
          PROVE  envs[Globals].vars[Nodes[prog[i]].name].d # 0
      <4>1. i # decl
        BY <3>1, <3>2
      <4>2. i < decl
        BY <1>1, <3>2, <4>1
      <4> QED BY <1>2, <3>2, <4>2
    <3> QED BY <1>1, <2>1, <2>2, <3>1, <3>2 DEF GlobalsDefined
  <2>3. CASE Nodes[prog[decl]].k # "VarDecl"
    <3>1. stack' = <<>>
      BY <2>1, <2>3
    <3>2. ASSUME NEW i \in 1 .. Len(prog), i < decl + 1, Nodes[prog[i]].k = "VarDecl"
          PROVE  envs[Globals].vars[Nodes[prog[i]].name].d # 0
      <4>1. i # decl
        BY <2>3, <3>2
      <4>2. i < decl
        BY <1>1, <3>2, <4>1
      <4> QED BY <1>2, <3>2, <4>2
    <3> QED BY <1>1, <2>1, <3>1, <3>2 DEF GlobalsDefined
  <2> QED BY <2>2, <2>3
<1>4. CASE RunMain
  <2>1. decl = Len(prog) + 1 /\ CallFunction("main", <<>>, <<>>)
    BY <1>4, <1>1 DEF RunMain, Halt
  <2>2. PICK b : envs' = Called(b)
    BY <1>1, <2>1 DEF CallFunction, Halt, Called, CalleeParent
  <2>3. envs'[Globals] = envs[Globals]
    BY <2>2, WellParts, TypeParts, CallScope
  <2>4. decl' = Len(prog) + 2 /\ \A i \in 1 .. Len(prog) : i < decl
    BY <1>1, <2>1
  <2>5. \A i \in 1 .. Len(prog) : Nodes[prog[i]].k = "VarDecl" => envs'[Globals].vars[Nodes[prog[i]].name].d # 0
    BY <1>2, <2>3, <2>4
  <2> QED BY <1>1, <2>4, <2>5 DEF GlobalsDefined
<1>5. ~RunEnd
  BY DEF RunEnd, Halt
<1> QED BY <1>3, <1>4, <1>5 DEF Run

\* A step whose stack is not emptied, or which ends the run.
GoesOn == stack' # <<>> \/ status' # "run"

LEMMA HaltGoesOn ==
  /\ Halt("panic") \/ Halt("IndexOutOfBounds") \/ Halt("NegativeArraySize") => GoesOn
  /\ \A m : \A o \in Outcome(m) : o.k = "Fail" /\ Halt(o.e) => GoesOn
<1>1. ASSUME NEW m, NEW o \in Outcome(m), o.k = "Fail", Halt(o.e) PROVE GoesOn
  <2>1. o.e \in RuntimeError \cup {"panic", "overflow"}
    BY <1>1, OutcomeCases
  <2>2. o.e # "run"
    BY <2>1 DEF RuntimeError
  <2> QED BY <1>1, <2>2 DEF Halt, GoesOn
<1> QED BY <1>1 DEF Halt, GoesOn

LEMMA StepRuns == ASSUME EvalExpr \/ ExecStmt PROVE status = "run" /\ stack # <<>>
<1>1. EvalExpr => Running
  BY DEF EvalExpr, EvalOperand, EvalLiteral, EvalIdent, EvalBinary, EvalShortCircuit, EvalTernary, EvalUnary,
     EvalAssign, LoadSlot, EvalCompoundAssign, EvalIncDec, EvalIndex, EvalFieldAccess, EvalArrayLiteral,
     EvalArrayCreation, EvalPrint, EvalBuiltin, EvalCall, EndCall, Ready, At
<1>2. ExecStmt => Running \/ Unwind
  BY DEF ExecStmt, ExecExpr, ExecVarDecl, ExecBlock, ExecIf, ExecWhile, ExecFor, ExecReturn, Ready, At
<1> QED BY <1>1, <1>2 DEF Running, Unwind

\* The operations, and what they give when their operands are values.
LEMMA Finishes ==
  ASSUME TypeOK, EvalBinary \/ EvalUnary \/ EvalFieldAccess \/ EvalBuiltin
  PROVE  \E o \in Outcome(Len(heap)) : Finish(o)
<1>1. CASE EvalBinary
  <2>1. Ready("Binary")
    BY <1>1 DEF EvalBinary
  <2>2. Len(Operands(Here)) = 2
    BY <2>1, ReadyType, TopType, OtherOperands DEF Here
  <2>3. ApplyBinaryOp(heap, Here.op, Top.vs[1], Top.vs[2]) \in Outcome(Len(heap))
    BY <2>1, <2>2, ReadyType, BinaryOpType
  <2> QED BY <1>1, <2>3 DEF EvalBinary
<1>2. CASE EvalUnary
  <2>1. Ready("Unary")
    BY <1>2 DEF EvalUnary
  <2>2. Len(Operands(Here)) = 1
    BY <2>1, ReadyType, TopType, OtherOperands DEF Here
  <2>3. ApplyUnary(Here.op, Top.vs[1]) \in Outcome(Len(heap))
    BY <2>1, <2>2, ReadyType, UnaryType
  <2> QED BY <1>2, <2>3 DEF EvalUnary
<1>3. CASE EvalBuiltin
  <2>1. Ready("Call") /\ stack # <<>> /\ Here.name \in Builtin
    BY <1>3, ReadyType DEF EvalBuiltin
  <2>2. ApplyBuiltin(Here.name, Top.vs) \in Outcome(Len(heap))
    BY <2>1, TopType, BuiltinType
  <2> QED BY <1>3, <2>2 DEF EvalBuiltin
<1>4. CASE EvalFieldAccess
  <2>1. Ready("FieldAccess")
    BY <1>4 DEF EvalFieldAccess
  <2>2. Len(Operands(Here)) = 1
    BY <2>1, ReadyType, TopType, OtherOperands DEF Here
  <2>3. PICK v : v = Top.vs[1]
    OBVIOUS
  <2>4. v \in Value(Len(heap))
    BY <2>1, <2>2, <2>3, ReadyType
  <2>5. v.k = "Array" => IntV(Wrap(Len(heap[v.r]))) \in Outcome(Len(heap))
    <3>1. v.k = "Array" => Len(heap[v.r]) \in Int
      BY <2>4, ValueCases, TypeParts
    <3> QED BY <3>1, WrapInInt64, IntIsValue
  <2>6. StringLength(<<v>>) \in Outcome(Len(heap))
    BY <2>4, StringLengthType
  <2>7. PICK o : o = IF Here.name # "length" THEN Panic
                     ELSE IF v.k = "Array" THEN IntV(Wrap(Len(heap[v.r]))) ELSE StringLength(<<v>>)
    OBVIOUS
  <2>8. o \in Outcome(Len(heap))
    BY <2>5, <2>6, <2>7, PanicIsOutcome
  <2> QED BY <1>4, <2>3, <2>7, <2>8 DEF EvalFieldAccess
<1> QED BY <1>1, <1>2, <1>3, <1>4

LEMMA CompoundEnds ==
  ASSUME TypeOK, EvalCompoundAssign
  PROVE  \/ \E o \in Outcome(Len(heap)) : o.k = "Fail" /\ Halt(o.e)
         \/ \E x, v, w : SetVar(x, v, w)
         \/ \E r, i, v, w : SetCell(r, i, v, w)
<1>1. Ready("CompoundAssign") /\ stack # <<>> /\ Here.k = "CompoundAssign"
  BY ReadyType DEF EvalCompoundAssign
<1>2. Done = Len(Operands(Here)) /\ (Done = 2 \/ Done = 4)
  BY <1>1, TopType, CompoundOperands DEF Here, Ready
<1>3. Top.vs[Done - 1] \in Value(Len(heap)) /\ Top.vs[Done] \in Value(Len(heap))
  <2>1. Done - 1 \in 1 .. Len(Operands(Here)) /\ Done \in 1 .. Len(Operands(Here))
    BY <1>2
  <2> QED BY <1>1, <2>1, ReadyType
<1>4. PICK new : new = ApplyBinaryOp(heap, Here.op, Top.vs[Done - 1], Top.vs[Done])
  OBVIOUS
<1>5. new \in Outcome(Len(heap))
  BY <1>3, <1>4, BinaryOpType
<1>6. \/ new.k = "Fail" /\ Halt(new.e)
      \/ SetVar(Nodes[Here.kids[1]].name, new, new)
      \/ SetCell(Top.vs[1].r, Top.vs[2].i, new, new)
  BY <1>4 DEF EvalCompoundAssign
<1> QED BY <1>5, <1>6

LEMMA IncDecEnds ==
  ASSUME TypeOK, EvalIncDec
  PROVE  \/ Halt("panic") \/ Halt("IndexOutOfBounds")
         \/ \E o \in Outcome(Len(heap)) : o.k = "Fail" /\ Halt(o.e)
         \/ \E x, v, w : SetVar(x, v, w)
         \/ \E r, i, v, w : SetCell(r, i, v, w)
<1>1. Ready("IncDec") /\ stack # <<>> /\ Here.k = "IncDec"
  BY ReadyType DEF EvalIncDec
<1>2. PICK x : x = Nodes[Here.kids[1]].name
  OBVIOUS
<1>3. x \in Name
  BY <1>1, <1>2, TopType, TargetType, NodeType DEF Here
<1>4. CASE TargetKind(Here) = "Ident" /\ Owner(Top.env, x) # {}
  <2>1. PICK o \in Owner(Top.env, x) :
          LET old == envs[o].vars[x].v  new == ApplyIncDec(Here.op, old)
          IN  IF new.k = "Fail" THEN Halt(new.e) ELSE SetVar(x, new, IncDecResult(old, new))
    BY <1>2, <1>4 DEF EvalIncDec
  <2>2. envs[o].vars[x].v \in Value(Len(heap))
    BY <1>1, <1>3, TopType, OwnerType
  <2>3. ApplyIncDec(Here.op, envs[o].vars[x].v) \in Outcome(Len(heap))
    BY <2>2, IncDecType
  <2> QED BY <2>1, <2>3
<1>5. CASE TargetKind(Here) = "Index"
  <2>1. PICK a : a = Top.vs[1]
    OBVIOUS
  <2>2. PICK i : i = Top.vs[2]
    OBVIOUS
  <2>3. a \in Value(Len(heap)) /\ i \in Value(Len(heap))
    <3>1. Len(Operands(Here)) = 2
      BY <1>1, <1>5, TopType, IncDecOperands DEF Here
    <3> QED BY <1>1, <2>1, <2>2, <3>1, ReadyType
  <2>4. PICK old : old = heap[a.r][i.i + 1]
    OBVIOUS
  <2>5. PICK new : new = ApplyIncDec(Here.op, old)
    OBVIOUS
  <2>6. \/ Halt("panic") \/ Halt("IndexOutOfBounds")
        \/ /\ a.k = "Array" /\ i.k = "Int" /\ InBounds(i.i, a.r)
           /\ IF new.k = "Fail" THEN Halt(new.e) ELSE SetCell(a.r, i.i, new, IncDecResult(old, new))
    BY <1>5, <2>1, <2>2, <2>4, <2>5 DEF EvalIncDec, OnCell
  <2>7. a.k = "Array" /\ i.k = "Int" /\ InBounds(i.i, a.r) => new \in Outcome(Len(heap))
    BY <2>3, <2>4, <2>5, CellRead, IncDecType
  <2> QED BY <2>6, <2>7
<1>6. CASE TargetKind(Here) # "Index" /\ ~(TargetKind(Here) = "Ident" /\ Owner(Top.env, x) # {})
  BY <1>2, <1>6 DEF EvalIncDec
<1> QED BY <1>4, <1>5, <1>6

\* An activation that is not the only one leaves others behind, or ends the run.
LEMMA NotLast ==
  ASSUME NEW ty, NEW ht, WellRun(ty, ht), EvalExpr \/ ExecStmt, Len(stack) > 1 PROVE GoesOn
<1>1. TypeOK /\ stack # <<>> /\ Len(stack) \in Nat /\ Len(stack) - 1 # 0
  <2>1. TypeOK /\ Len(stack) \in Nat
    BY WellParts, TypeParts
  <2>2. stack # <<>>
    BY StepRuns
  <2>3. Len(stack) - 1 # 0
    BY <2>1
  <2> QED BY <2>1, <2>2, <2>3
<1>2. ASSUME NEW n, NEW e, stack' = Push(n, e) PROVE GoesOn
  BY <1>1, <1>2 DEF Push, GoesOn
<1>3. ASSUME NEW v, stack' = Popped(v) PROVE GoesOn
  <2>1. Len(stack') = Len(stack) - 1
    BY <1>1, <1>3, Answered
  <2> QED BY <1>1, <2>1 DEF GoesOn
<1>4. ASSUME NEW vs, stack' = SetTop(vs) PROVE GoesOn
  <2>1. Len(stack') = Len(stack)
    BY <1>1, <1>4, Changed
  <2> QED BY <1>1, <2>1 DEF GoesOn
<1>5. ASSUME stack' = SubSeq(stack, 1, Len(stack) - 1) PROVE GoesOn
  <2>1. Len(stack') = Len(stack) - 1
    BY <1>1, <1>5, Cut
  <2> QED BY <1>1, <2>1 DEF GoesOn
<1>6. /\ \A n : Eval(n) => GoesOn
      /\ \A v : Keep(v) \/ Yield(v) => GoesOn
      /\ \A r, i, v, w : SetCell(r, i, v, w) => GoesOn
      /\ \A vs : Again(vs) => GoesOn
  BY <1>2, <1>3, <1>4 DEF Eval, Keep, Yield, SetCell, Again
<1>7. \A x, v, w : SetVar(x, v, w) => GoesOn
  BY <1>3, HaltGoesOn DEF SetVar
<1>8. \A n, e : Exec(n, e) => GoesOn
  BY <1>2 DEF Exec
<1>9. \A n : ExecScoped(n) => GoesOn
  BY <1>2, <1>8 DEF ExecScoped
<1>10. \A m : \A o \in Outcome(m) : Finish(o) => GoesOn
  BY <1>6, HaltGoesOn DEF Finish
<1>11. EvalBinary \/ EvalUnary \/ EvalFieldAccess \/ EvalBuiltin => GoesOn
  BY <1>1, <1>10, Finishes
<1>12. EvalCompoundAssign => GoesOn
  <2>1. EvalCompoundAssign => \/ \E o \in Outcome(Len(heap)) : o.k = "Fail" /\ Halt(o.e)
                              \/ \E x, v, w : SetVar(x, v, w)
                              \/ \E r, i, v, w : SetCell(r, i, v, w)
    BY <1>1, CompoundEnds
  <2> QED BY <1>6, <1>7, <2>1, HaltGoesOn
<1>13. EvalIncDec => GoesOn
  <2>1. EvalIncDec => \/ Halt("panic") \/ Halt("IndexOutOfBounds")
                      \/ \E o \in Outcome(Len(heap)) : o.k = "Fail" /\ Halt(o.e)
                      \/ \E x, v, w : SetVar(x, v, w)
                      \/ \E r, i, v, w : SetCell(r, i, v, w)
    BY <1>1, IncDecEnds
  <2> QED BY <1>6, <1>7, <2>1, HaltGoesOn
<1>14. CASE EvalExpr
  <2>1. EvalOperand \/ EvalLiteral \/ EvalIdent => GoesOn
    BY <1>6, HaltGoesOn DEF EvalOperand, EvalLiteral, EvalIdent
  <2>2. EvalShortCircuit \/ EvalTernary => GoesOn
    BY <1>6, HaltGoesOn DEF EvalShortCircuit, EvalTernary, Branch
  <2>3. EvalAssign => GoesOn
    BY <1>6, <1>7, HaltGoesOn DEF EvalAssign, OnCell
  <2>4. LoadSlot => GoesOn
    BY <1>6, HaltGoesOn DEF LoadSlot, OnCell
  <2>5. EvalIndex => GoesOn
    BY <1>6, HaltGoesOn DEF EvalIndex, OnCell
  <2>6. EvalArrayLiteral \/ EvalArrayCreation => GoesOn
    BY <1>3, HaltGoesOn DEF EvalArrayLiteral, EvalArrayCreation
  <2>7. EvalPrint \/ EndCall => GoesOn
    BY <1>3, <1>6, HaltGoesOn DEF EvalPrint, EndCall
  <2>8. EvalCall => GoesOn
    BY <1>2, HaltGoesOn DEF EvalCall, CallFunction, Push
  <2> QED
    BY <1>11, <1>12, <1>13, <1>14, <2>1, <2>2, <2>3, <2>4, <2>5, <2>6, <2>7, <2>8 DEF EvalExpr
<1>15. CASE ExecStmt
  <2>1. ExecExpr \/ ExecVarDecl \/ ExecReturn \/ Unwind => GoesOn
    BY <1>3, <1>5, <1>6 DEF ExecExpr, ExecVarDecl, ExecReturn, Unwind
  <2>2. ExecBlock => GoesOn
    BY <1>6, <1>8 DEF ExecBlock
  <2>3. ExecIf => GoesOn
    BY <1>6, <1>9, HaltGoesOn DEF ExecIf, Branch
  <2>4. ExecWhile => GoesOn
    BY <1>6, <1>9, HaltGoesOn DEF ExecWhile, Branch
  <2>5. ExecFor => GoesOn
    BY <1>6, <1>8, <1>9, HaltGoesOn DEF ExecFor, Branch
  <2> QED BY <1>15, <2>1, <2>2, <2>3, <2>4, <2>5 DEF ExecStmt
<1> QED BY <1>14, <1>15

\* A declaration's activation ends by defining its variable.
LEMMA DeclaredLast ==
  ASSUME NEW ty, NEW ht, WellRun(ty, ht), EvalExpr \/ ExecStmt, status' = "run", stack # <<>>, stack' = <<>>,
         NEW i \in 1 .. Len(prog), stack[1].n = prog[i], Nodes[prog[i]].k = "VarDecl"
  PROVE  envs'[Globals].vars[Nodes[prog[i]].name].d # 0
<1>1. TypeOK /\ prog[i] \in NodeId /\ prog[i] # 0 /\ Nodes[prog[i]].name \in Name
  BY WellParts, ProgramNodes, AstAssumption, NodeType
<1>2. Len(stack) = 1 /\ Top = stack[1]
  <2>1. Len(stack) \in Nat \ {0}
    BY <1>1, TypeParts
  <2>2. ~(Len(stack) > 1)
    BY NotLast DEF GoesOn
  <2> QED BY <2>1, <2>2 DEF Top
<1>3. Top.n = prog[i] /\ Here.k = "VarDecl" /\ Here = Nodes[Top.n] /\ Top.env = Globals
  <2>1. Based(prog, stack)
    BY WellParts DEF StackOf
  <2> QED BY <1>2, <2>1 DEF Based, Here
<1>4. ExecVarDecl
  <2>1. flow = Normal
    BY <1>3, WellParts DEF FlowT, Top, Returns2, Here
  <2>2. ~EvalOperand
    <3>1. ASSUME NEW n, Eval(n) PROVE FALSE
      <4>1. Len(stack') = Len(stack) + 1 /\ Len(stack') = 0
        BY <1>1, <3>1, Pushed DEF Eval
      <4> QED BY <1>2, <4>1
    <3> QED BY <3>1 DEF EvalOperand
  <2>3. ~UNCHANGED vars
    BY DEF vars
  <2> QED BY <1>3, <2>1, <2>2, <2>3, AtVarDecl DEF Next
<1>5. PICK v : envs' = Define(Top.env, Top.n, v)
  BY <1>4 DEF ExecVarDecl
<1> QED BY <1>1, <1>3, <1>5, DefineScope

\* Every step keeps the account of what is defined.
LEMMA DefinedKept ==
  ASSUME NEW ty, NEW ht, WellRun(ty, ht), Next PROVE GlobalsDefined'
<1>1. SUFFICES ASSUME status' = "run" PROVE GlobalsDefined'
  BY DEF GlobalsDefined
<1>2. CASE Run
  BY <1>1, <1>2, RunDefined
<1>3. CASE UNCHANGED vars
  BY <1>3 DEF vars, WellRun, GlobalsDefined
<1>4. CASE (EvalExpr \/ ExecStmt) /\ Moves
  <2>1. status = "run" /\ decl' = decl /\ prog' = prog /\ stack # <<>> /\ GlobalsDefined
    <3>1. status = "run" /\ stack # <<>>
      BY <1>4, StepRuns
    <3> QED BY <1>4, <3>1, SameDecl, SameProgram DEF WellRun, Next
  <2>2. \A i \in 1 .. Len(prog) : Nodes[prog[i]].name \in Name
    BY WellParts, ProgramNodes, NodeType
  <2>3. ASSUME NEW i \in 1 .. Len(prog), i < decl, Nodes[prog[i]].k = "VarDecl",
               stack' # <<>> => stack'[1].n # prog[i]
        PROVE  envs'[Globals].vars[Nodes[prog[i]].name].d # 0
    <3>1. CASE stack[1].n = prog[i]
      <4>1. stack' = <<>>
        BY <1>4, <2>1, <2>3, <3>1, WellParts, SameBase
      <4> QED BY <1>1, <1>4, <2>1, <2>3, <3>1, <4>1, DeclaredLast
    <3>2. CASE stack[1].n # prog[i]
      <4>1. envs[Globals].vars[Nodes[prog[i]].name].d # 0
        BY <2>1, <2>3, <3>2 DEF GlobalsDefined
      <4>2. PICK x : x = Nodes[prog[i]].name
        OBVIOUS
      <4>3. x \in Name
        BY <2>2, <4>2
      <4>4. envs'[Globals].vars[x].d # 0
        BY <1>4, <4>1, <4>2, <4>3, StillDefined
      <4> QED BY <4>2, <4>4
    <3> QED BY <3>1, <3>2
  <2>4. stack' # <<>> /\ Nodes[stack'[1].n].k = "Func" => decl = Len(prog) + 2
    BY <1>4, <2>1, WellParts, SameBase DEF GlobalsDefined
  <2> QED BY <2>1, <2>3, <2>4 DEF GlobalsDefined
<1> QED BY <1>2, <1>3, <1>4, WellParts, StepMoves DEF Next, Halted
-----------------------------------------------------------------------------
(***************************************************************************)
(* No activation has more values than it asks for.                         *)
(***************************************************************************)
\* The nodes whose activations keep the values of their operands and nothing else: not
\* that of a branch, or of a callee.
Simple == Evaluated \ {"Call", "Ternary"}
Full(f) == Nodes[f.n].k \in Simple => Len(f.vs) <= Len(Operands(Nodes[f.n]))
More(f) == Nodes[f.n].k \in Simple => Len(f.vs) < Len(Operands(Nodes[f.n]))
Counted(st) == /\ \A j \in 1 .. Len(st) : Full(st[j])
               /\ \A j \in 1 .. Len(st) - 1 : More(st[j])

LEMMA NewFull == ASSUME NEW n \in NodeId, NEW e PROVE Full(Frame(n, e))
<1>1. Frame(n, e).vs = <<>>
  BY FrameParts
<1>2. Len(Operands(Nodes[n])) \in Nat
  BY OperandsType
<1>3. Len(Frame(n, e).vs) = 0 /\ Frame(n, e).n = n
  BY <1>1, FrameParts
<1> QED BY <1>2, <1>3 DEF Full

LEMMA OneMoreFull ==
  ASSUME NEW m, NEW ev, NEW f \in Frames(m, ev), More(f), NEW v, NEW g, g.n = f.n, g.vs = Append(f.vs, v)
  PROVE  Full(g)
<1>1. f.n \in NodeId /\ f.vs \in Seq(Value(m)) /\ Len(f.vs) \in Nat
  BY DEF Frames
<1>2. Len(g.vs) = Len(f.vs) + 1
  BY <1>1
<1>3. Len(Operands(Nodes[f.n])) \in Nat
  BY <1>1, OperandsType
<1> QED BY <1>1, <1>2, <1>3 DEF More, Full

LEMMA MorePushed ==
  ASSUME TypeOK, Counted(stack), NEW n \in NodeId, NEW e, stack' = Push(n, e), stack # <<>> => More(Top)
  PROVE  Counted(stack')
<1>1. /\ Len(stack) \in Nat /\ Len(stack') = Len(stack) + 1 /\ stack'[Len(stack) + 1] = Frame(n, e)
      /\ \A j \in 1 .. Len(stack) : stack'[j] = stack[j]
  BY Pushed
<1>2. ASSUME NEW j \in 1 .. Len(stack') PROVE Full(stack'[j])
  <2>1. CASE j = Len(stack) + 1
    BY <2>1, <1>1, NewFull
  <2>2. CASE j # Len(stack) + 1
    BY <2>2, <1>1, <1>2 DEF Counted
  <2> QED BY <2>1, <2>2
<1>3. ASSUME NEW j \in 1 .. Len(stack') - 1 PROVE More(stack'[j])
  <2>1. CASE j = Len(stack)
    <3>1. stack # <<>> /\ stack'[j] = Top
      BY <2>1, <1>1, <1>3 DEF Top
    <3> QED BY <3>1
  <2>2. CASE j # Len(stack)
    <3>1. j \in 1 .. Len(stack) - 1 /\ stack'[j] = stack[j]
      BY <2>2, <1>1, <1>3
    <3> QED BY <3>1 DEF Counted
  <2> QED BY <2>1, <2>2
<1> QED BY <1>2, <1>3 DEF Counted

LEMMA CountedPopped ==
  ASSUME TypeOK, Counted(stack), stack # <<>>, NEW v, stack' = Popped(v) PROVE Counted(stack')
<1> DEFINE L == Len(stack)
<1>1. /\ L \in Nat \ {0} /\ Len(stack') = L - 1 /\ \A j \in 1 .. L - 2 : stack'[j] = stack[j]
      /\ \A j \in 1 .. L - 1 : stack'[j].n = stack[j].n
      /\ L > 1 => stack'[L - 1].vs = Append(stack[L - 1].vs, v)
  BY Answered
<1>2. ASSUME NEW j \in 1 .. Len(stack') PROVE Full(stack'[j])
  <2>1. CASE j = L - 1
    <3>1. stack[j] \in Frames(Len(heap), Len(envs)) /\ L > 1 /\ j \in 1 .. L - 1
      BY <2>1, <1>1, <1>2, StackAt
    <3>2. More(stack[j])
      BY <3>1 DEF Counted
    <3>3. stack'[j].n = stack[j].n /\ stack'[j].vs = Append(stack[j].vs, v)
      BY <3>1, <2>1, <1>1
    <3> QED BY <3>1, <3>2, <3>3, OneMoreFull
  <2>2. CASE j # L - 1
    <3>1. j \in 1 .. L - 2 /\ j \in 1 .. L
      BY <2>2, <1>1, <1>2
    <3> QED BY <3>1, <1>1 DEF Counted
  <2> QED BY <2>1, <2>2
<1>3. ASSUME NEW j \in 1 .. Len(stack') - 1 PROVE More(stack'[j])
  <2>1. j \in 1 .. L - 2 /\ j \in 1 .. L - 1
    BY <1>1, <1>3
  <2> QED BY <2>1, <1>1 DEF Counted
<1> QED BY <1>2, <1>3 DEF Counted

LEMMA CountedSet ==
  ASSUME TypeOK, Counted(stack), stack # <<>>, NEW vs, stack' = SetTop(vs),
         NEW g, g = [Top EXCEPT !.vs = vs], Full(g)
  PROVE  Counted(stack')
<1> DEFINE L == Len(stack)
<1>1. /\ L \in Nat \ {0} /\ Len(stack') = L /\ \A j \in 1 .. L - 1 : stack'[j] = stack[j]
      /\ stack'[L] = g
  BY Changed
<1>2. ASSUME NEW j \in 1 .. Len(stack') PROVE Full(stack'[j])
  <2>1. CASE j = L
    BY <2>1, <1>1
  <2>2. CASE j # L
    BY <2>2, <1>1, <1>2 DEF Counted
  <2> QED BY <2>1, <2>2
<1>3. ASSUME NEW j \in 1 .. Len(stack') - 1 PROVE More(stack'[j])
  BY <1>1, <1>3 DEF Counted
<1> QED BY <1>2, <1>3 DEF Counted

LEMMA CountedCut ==
  ASSUME TypeOK, Counted(stack), stack # <<>>, stack' = SubSeq(stack, 1, Len(stack) - 1) PROVE Counted(stack')
<1>1. /\ Len(stack) \in Nat \ {0} /\ Len(stack') = Len(stack) - 1
      /\ \A j \in 1 .. Len(stack) - 1 : stack'[j] = stack[j]
  BY Cut
<1> QED BY <1>1 DEF Counted

\* A step at such a node asks for an operand that is wanted, loads the one that is a
\* Slot, or answers, or leaves.
Room == Done < Len(Operands(Here))
AtSimple == \/ Room /\ \E n \in NodeId : stack' = Push(n, Top.env)
            \/ Room /\ \E v : stack' = SetTop(Append(Top.vs, v))
            \/ stack' = <<>> \/ (\E v : stack' = Popped(v))
            \/ stack' = SubSeq(stack, 1, Len(stack) - 1)

LEMMA SetVarSimple == ASSUME NEW x, NEW v, NEW r, SetVar(x, v, r) PROVE AtSimple
  BY DEF SetVar, Halt, AtSimple

LEMMA SetCellSimple == ASSUME NEW r, NEW i, NEW v, NEW w, SetCell(r, i, v, w) PROVE AtSimple
  BY DEF SetCell, AtSimple

LEMMA HaltSimple == ASSUME NEW s, Halt(s) PROVE AtSimple
  BY DEF Halt, AtSimple

LEMMA YieldSimple == ASSUME NEW v, Yield(v) PROVE AtSimple
  BY DEF Yield, AtSimple

LEMMA FinishSimple == ASSUME NEW o, Finish(o) PROVE AtSimple
  BY HaltSimple, YieldSimple DEF Finish

LEMMA EvalSimple == ASSUME NEW n \in NodeId, Room, Eval(n) PROVE AtSimple
  BY DEF Eval, AtSimple

LEMMA KeepSimple == ASSUME NEW v, Room, Keep(v) PROVE AtSimple
  BY DEF Keep, AtSimple

LEMMA AsksSimple == ASSUME TypeOK, EvalOperand PROVE AtSimple
<1> DEFINE ops == Operands(Here)
<1>1. stack # <<>> /\ Done < Len(ops) /\ ops[Done + 1] # Slot /\ Eval(ops[Done + 1])
  BY DEF EvalOperand, Running
<1>2. Done \in Nat
  BY <1>1, TopType DEF Done
<1>3. ops \in Seq(NodeId \cup {Slot})
  BY <1>1, TopType, OperandsType DEF Here
<1>4. ops[Done + 1] \in NodeId
  <2> HIDE DEF ops
  <2> QED BY <1>1, <1>2, <1>3
<1> QED BY <1>1, <1>4, EvalSimple DEF Room

LEMMA LazySimple == ASSUME TypeOK, EvalShortCircuit PROVE AtSimple
<1>1. stack # <<>> /\ Here.k = "Binary" /\ Here = Nodes[Top.n] /\ Top.n \in NodeId
  BY At2, TopType DEF EvalShortCircuit, Here
<1>2. Here.kids \in Seq(NodeId) /\ Len(Here.kids) = 2 /\ Operands(Here) = Here.kids
  BY <1>1, TopType, KidCounts DEF Operands
<1>3. Here.kids[1] \in NodeId /\ Here.kids[2] \in NodeId
  BY <1>2
<1>4. CASE Done = 0
  <2>1. Len(Operands(Here)) = 2
    BY <1>2
  <2>4. Room
    BY <2>1, <1>4 DEF Room
  <2>2. Eval(Here.kids[1])
    BY <1>4 DEF EvalShortCircuit
  <2> QED BY <1>3, <2>4, <2>2, EvalSimple
<1>5. CASE Done = 1
  <2>1. Len(Operands(Here)) = 2
    BY <1>2
  <2>4. Room
    BY <2>1, <1>5 DEF Room
  <2>2. (\E s : Halt(s)) \/ Eval(Here.kids[2]) \/ (\E v : Yield(v))
    BY <1>5 DEF EvalShortCircuit, Branch
  <2> QED BY <1>3, <2>4, <2>2, EvalSimple, HaltSimple, YieldSimple
<1>6. CASE Done # 0 /\ Done # 1
  <2>1. (\E s : Halt(s)) \/ (\E v : Yield(v))
    BY <1>6 DEF EvalShortCircuit, Branch
  <2> QED BY <2>1, HaltSimple, YieldSimple
<1> QED BY <1>4, <1>5, <1>6

LEMMA AssignSimple == ASSUME EvalAssign \/ EvalCompoundAssign \/ EvalIncDec PROVE AtSimple
<1>1. CASE EvalAssign
  <2>1. (\E s : Halt(s)) \/ (\E x, v, r : SetVar(x, v, r)) \/ (\E r, i, v, w : SetCell(r, i, v, w))
    BY <1>1 DEF EvalAssign, OnCell
  <2> QED BY <2>1, HaltSimple, SetVarSimple, SetCellSimple
<1>2. CASE EvalCompoundAssign
  <2>1. (\E s : Halt(s)) \/ (\E x, v, r : SetVar(x, v, r)) \/ (\E r, i, v, w : SetCell(r, i, v, w))
    BY <1>2 DEF EvalCompoundAssign
  <2> QED BY <2>1, HaltSimple, SetVarSimple, SetCellSimple
<1>3. CASE EvalIncDec
  <2>1. (\E s : Halt(s)) \/ (\E x, v, r : SetVar(x, v, r)) \/ (\E r, i, v, w : SetCell(r, i, v, w))
    BY <1>3 DEF EvalIncDec, OnCell
  <2> QED BY <2>1, HaltSimple, SetVarSimple, SetCellSimple
<1> QED BY <1>1, <1>2, <1>3

LEMMA OtherSimple ==
  ASSUME \/ EvalLiteral \/ EvalIdent \/ EvalBinary \/ EvalUnary \/ EvalIndex \/ EvalFieldAccess
         \/ EvalArrayLiteral \/ EvalArrayCreation \/ LoadSlot \/ ExecExpr \/ ExecVarDecl \/ ExecReturn \/ Unwind
  PROVE  AtSimple
<1>1. CASE EvalLiteral \/ EvalIdent \/ ExecExpr
  <2>1. (\E s : Halt(s)) \/ (\E v : Yield(v))
    BY <1>1 DEF EvalLiteral, EvalIdent, ExecExpr
  <2> QED BY <2>1, HaltSimple, YieldSimple
<1>2. CASE EvalBinary \/ EvalUnary \/ EvalFieldAccess
  <2>1. \E o : Finish(o)
    BY <1>2 DEF EvalBinary, EvalUnary, EvalFieldAccess
  <2> QED BY <2>1, FinishSimple
<1>3. CASE EvalIndex
  <2>1. (\E s : Halt(s)) \/ (\E v : Yield(v))
    BY <1>3 DEF EvalIndex, OnCell
  <2> QED BY <2>1, HaltSimple, YieldSimple
<1>4. CASE EvalArrayLiteral \/ EvalArrayCreation
  <2>1. (\E s : Halt(s)) \/ (\E v : stack' = Popped(v))
    BY <1>4 DEF EvalArrayLiteral, EvalArrayCreation
  <2> QED BY <2>1, HaltSimple DEF AtSimple
<1>5. CASE LoadSlot
  <2>1. Room
    BY <1>5 DEF LoadSlot, Room
  <2>2. (\E s : Halt(s)) \/ (\E v : Keep(v))
    BY <1>5 DEF LoadSlot, OnCell
  <2> QED BY <2>1, <2>2, HaltSimple, KeepSimple
<1>6. CASE ExecVarDecl
  BY <1>6 DEF ExecVarDecl, AtSimple
<1>7. CASE ExecReturn
  BY <1>7 DEF ExecReturn, AtSimple
<1>8. CASE Unwind
  BY <1>8 DEF Unwind, AtSimple
<1> QED BY <1>1, <1>2, <1>3, <1>4, <1>5, <1>6, <1>7, <1>8

LEMMA SimpleSteps == ASSUME TypeOK, EvalExpr \/ ExecStmt, Here.k \in Simple PROVE AtSimple
<1>1. /\ ~EvalTernary /\ ~EvalPrint /\ ~EvalBuiltin /\ ~EvalCall /\ ~EndCall
      /\ ~ExecBlock /\ ~ExecIf /\ ~ExecWhile /\ ~ExecFor
  BY DEF Simple, Evaluated, ExprKind, EvalTernary, EvalPrint, EvalBuiltin, EvalCall, EndCall, ExecBlock, ExecIf,
     ExecWhile, ExecFor, Ready, At
<1> QED
  BY <1>1, AsksSimple, LazySimple, AssignSimple, OtherSimple DEF EvalExpr, ExecStmt

LEMMA MovesPush ==
  ASSUME TypeOK, Asks \/ Runs \/ Invokes \/ Starts PROVE \E n \in NodeId : \E e : stack' = Push(n, e)
<1>1. CASE Asks
  BY <1>1 DEF Asks, ExprNode
<1>2. CASE Runs
  <2>1. PICK i \in 1 .. Len(Here.kids) : \E e : stack' = Push(Here.kids[i], e)
    BY <1>2 DEF Runs
  <2>2. Here.kids \in Seq(NodeId)
    BY <1>2, TopType DEF Runs
  <2> QED BY <2>1, <2>2
<1>3. CASE Invokes \/ Starts
  <2>1. \A i \in 1 .. Len(prog) : prog[i] \in NodeId
    BY ProgramNodes DEF TypeOK
  <2>2. CASE Invokes
    BY <2>1, <2>2 DEF Invokes
  <2>3. CASE Starts
    <3>1. PICK i \in 1 .. Len(prog) : stack' = <<Frame(prog[i], Globals)>> /\ stack = <<>>
      BY <2>3 DEF Starts
    <3>2. stack' = Push(prog[i], Globals)
      BY <3>1 DEF Push
    <3> QED BY <2>1, <3>2
  <2> QED BY <1>3, <2>2, <2>3
<1> QED BY <1>1, <1>2, <1>3

LEMMA CountedStep ==
  ASSUME TypeOK, StackOf(prog, stack), Counted(stack), [Next]_vars PROVE Counted(stack')
<1>1. ASSUME stack' = <<>> PROVE Counted(stack')
  <2>1. Len(stack') = 0
    BY <1>1
  <2> QED BY <2>1 DEF Counted
<1>2. CASE UNCHANGED vars
  BY <1>2 DEF vars
<1>3. CASE (EvalExpr \/ ExecStmt) /\ Here.k \in Simple
  <2>1. stack # <<>> /\ AtSimple
    BY <1>3, StepRuns, SimpleSteps
  <2>2. Room => More(Top)
    BY DEF Room, More, Done, Here
  <2>3. CASE Room /\ \E n \in NodeId : stack' = Push(n, Top.env)
    BY <2>2, <2>3, MorePushed
  <2>4. CASE Room /\ \E v : stack' = SetTop(Append(Top.vs, v))
    <3>1. PICK v : stack' = SetTop(Append(Top.vs, v))
      BY <2>4
    <3>2. PICK vs : vs = Append(Top.vs, v)
      OBVIOUS
    <3>3. PICK g : g = [Top EXCEPT !.vs = vs]
      OBVIOUS
    <3>4. Top \in Frames(Len(heap), Len(envs))
      BY <2>1, TopType
    <3>5. g.n = Top.n /\ g.vs = Append(Top.vs, v)
      BY <3>2, <3>3, <3>4 DEF Frames
    <3>6. Full(g)
      BY <2>2, <2>4, <3>4, <3>5, OneMoreFull
    <3> QED BY <2>1, <3>1, <3>2, <3>3, <3>6, CountedSet
  <2> QED BY <1>1, <2>1, <2>3, <2>4, CountedPopped, CountedCut DEF AtSimple
<1>4. CASE ~((EvalExpr \/ ExecStmt) /\ Here.k \in Simple) /\ Next
  <2>1. Moves \/ UNCHANGED vars
    BY <1>4, StepMoves
  <2>2. stack # <<>> => Here.k \notin Simple \/ stack' = stack
    BY <1>4 DEF Next, Run, RunDecl, RunMain, RunEnd, AtRun, Halted, vars
  <2>3. CASE stack # <<>> /\ Here.k \notin Simple
    <3>1. More(Top) /\ \A g : g.n = Top.n => Full(g)
      BY <2>3 DEF More, Full, Here
    <3>2. CASE Asks \/ Runs \/ Invokes
      <4>1. PICK n, e : stack' = Push(n, e) /\ n \in NodeId
        BY <2>3, <3>2, MovesPush
      <4> QED BY <3>1, <4>1, MorePushed
    <3>3. CASE Yields \/ Binds \/ Ends
      BY <2>3, <3>3, CountedPopped DEF Yields, Binds, Ends
    <3>4. CASE Resets
      <4>1. PICK vs : stack' = SetTop(vs)
        BY <3>4 DEF Resets
      <4>2. PICK g : g = [Top EXCEPT !.vs = vs]
        OBVIOUS
      <4>3. Top \in Frames(Len(heap), Len(envs))
        BY <2>3, TopType
      <4>4. g.n = Top.n
        BY <4>2, <4>3 DEF Frames
      <4> QED BY <2>3, <3>1, <4>1, <4>2, <4>4, CountedSet
    <3>5. CASE Leaves
      BY <3>5, CountedCut DEF Leaves
    <3>6. ~Starts
      BY <2>3 DEF Starts
    <3> QED BY <1>1, <1>2, <2>1, <3>2, <3>3, <3>4, <3>5, <3>6 DEF Moves, Stops
  <2>4. CASE stack = <<>>
    <3>1. stack' = <<>> \/ stack' = stack \/ \E n \in NodeId : \E e : stack' = Push(n, e)
      BY <2>1, <2>4, MovesPush DEF Moves, Stops, Yields, Binds, Resets, Leaves, Ends, vars
    <3> QED BY <1>1, <2>4, <3>1, MorePushed
  <2> QED BY <2>2, <2>3, <2>4
<1> QED BY <1>2, <1>3, <1>4 DEF Next
LEMMA PartIn ==
  ASSUME prog \in Programs, NEW n \in NodesOf(prog), NEW m, PartOf(n, m) PROVE m \in NodesOf(prog)
<1>1. n \in NodeId /\ \A k \in NodesOf(prog) : \A i \in 1 .. Len(Nodes[k].kids) : Nodes[k].kids[i] \in NodesOf(prog)
  BY ProgramNodes
<1>2. CASE \E i \in 1 .. Len(Nodes[n].kids) : m = Nodes[n].kids[i]
  BY <1>1, <1>2
<1>3. CASE /\ Nodes[n].k \in {"Assign", "CompoundAssign", "IncDec"}
           /\ \E i \in 1 .. Len(Nodes[Nodes[n].kids[1]].kids) : m = Nodes[Nodes[n].kids[1]].kids[i]
  <2>1. 1 \in 1 .. Len(Nodes[n].kids)
    <3>1. Nodes[n].k = "IncDec" => Len(Nodes[n].kids) = 1
      BY <1>1, KidCounts
    <3>2. Nodes[n].k \in {"Assign", "CompoundAssign"} => Len(Nodes[n].kids) = 2
      BY <1>1, KidCounts
    <3> QED BY <1>3, <3>1, <3>2
  <2> QED BY <1>1, <1>3, <2>1
<1> QED BY <1>2, <1>3 DEF PartOf
\* So every value that it has is that of an expression of the program.
LEMMA NoNode == 0 \notin NodeId
  BY AstAssumption DEF NodeId

LEMMA OperandPlace ==
  ASSUME prog \in Programs, NEW n \in NodesOf(prog), NEW ops, ops = Operands(Nodes[n]), NEW i \in 1 .. Len(ops),
         Nodes[n].k \in Evaluated, NEW e, e = IF ops[i] = Slot THEN Nodes[n].kids[1] ELSE ops[i]
  PROVE  e \in NodesOf(prog) /\ e \in NodeId /\ Nodes[e].k \in ExprKind
<1>1. /\ n \in NodeId /\ \A j \in 1 .. Len(Nodes[n].kids) : Nodes[n].kids[j] \in NodesOf(prog)
      /\ Nodes[n].kids \in Seq(ExprNode)
  BY ProgramNodes, ExprKids DEF Evaluated
<1>2. \A j \in 1 .. Len(Nodes[n].kids) : Nodes[Nodes[n].kids[j]].k \in ExprKind
  BY <1>1 DEF ExprNode
<1>3. CASE ~Strict(Nodes[n])
  <2>1. Nodes[n].k \in {"Ternary", "Binary"}
    BY <1>3 DEF Strict, IsLazy, Evaluated
  <2>3. ops = Nodes[n].kids
    BY <2>1 DEF Operands
  <2>2. ops[i] # Slot
    BY <1>1, <2>3, NoNode DEF Slot, ExprNode
  <2> QED BY <1>1, <1>2, <2>2, <2>3 DEF ExprNode
<1>4. CASE Strict(Nodes[n]) /\ ops[i] # Slot
  <2>1. PartOf(n, e)
    BY <1>1, <1>4, OperandParts
  <2>2. ops \in Seq(ExprNode \cup {Slot})
    BY <1>1, <1>4, OperandKinds
  <2>3. e \in ExprNode
    BY <1>4, <2>2
  <2>4. e \in NodesOf(prog)
    BY <1>1, <2>1, PartIn
  <2> QED BY <2>3, <2>4 DEF ExprNode
<1>5. CASE Strict(Nodes[n]) /\ ops[i] = Slot
  <2>1. Nodes[n].k = "CompoundAssign"
    <3>1. SUFFICES ASSUME Nodes[n].k # "CompoundAssign" PROVE FALSE
      OBVIOUS
    <3>2. ops \in Seq(NodeId)
      BY <1>1, <3>1, AssignOperands, IncDecOperands, OtherOperands
    <3>3. ops[i] \in NodeId
      BY <3>2
    <3> QED BY <1>5, <3>3, NoNode DEF Slot
  <2>2. Len(Nodes[n].kids) = 2
    BY <1>1, <2>1, KidCounts
  <2>3. e = Nodes[n].kids[1] /\ 1 \in 1 .. Len(Nodes[n].kids)
    BY <1>5, <2>2
  <2> QED BY <1>1, <1>2, <2>3 DEF ExprNode
<1> QED BY <1>3, <1>4, <1>5

LEMMA ValuePlace ==
  ASSUME prog \in Programs, NEW f, f.n \in NodesOf(prog), Nodes[f.n].k \in Evaluated, Full(f),
         NEW i \in 1 .. Len(f.vs), Len(f.vs) \in Nat, NEW e, e = ExprOf(f.n, i)
  PROVE  e \in NodesOf(prog) /\ e # 0 /\ Nodes[e].k \in ExprKind
<1>1. PICK n : n = f.n
  OBVIOUS
<1>2. PICK ops : ops = Operands(Nodes[n])
  OBVIOUS
<1>3. n \in NodeId /\ n \in NodesOf(prog) /\ Nodes[n].k \in Evaluated
  BY <1>1, ProgramNodes
<1>4. Len(ops) \in Nat
  BY <1>2, <1>3, OperandsType
<1>5. e = IF (Nodes[n].k = "Ternary" /\ i > 1) \/ (Nodes[n].k = "Call" /\ i > Len(ops)) THEN n
          ELSE IF ops[i] = Slot THEN Nodes[n].kids[1] ELSE ops[i]
  BY <1>1, <1>2, <1>3, ExprOfs
<1>6. CASE (Nodes[n].k = "Ternary" /\ i > 1) \/ (Nodes[n].k = "Call" /\ i > Len(ops))
  <2>1. e = n /\ Nodes[n].k \in ExprKind
    BY <1>5, <1>6 DEF ExprKind
  <2> QED BY <1>3, <2>1, NoNode
<1>7. CASE ~((Nodes[n].k = "Ternary" /\ i > 1) \/ (Nodes[n].k = "Call" /\ i > Len(ops)))
  <2>1. i \in 1 .. Len(ops)
    <3>1. CASE Nodes[n].k = "Ternary"
      <4>1. i = 1
        BY <1>7, <3>1
      <4>2. Len(ops) = 3
        BY <1>2, <1>3, <3>1, KidCounts DEF Operands
      <4> QED BY <4>1, <4>2
    <3>2. CASE Nodes[n].k = "Call"
      BY <1>4, <1>7, <3>2
    <3>3. CASE Nodes[n].k \in Simple
      <4>1. Len(f.vs) <= Len(ops)
        BY <1>1, <1>2, <3>3 DEF Full
      <4> QED BY <1>4, <4>1
    <3> QED BY <1>3, <3>1, <3>2, <3>3 DEF Simple
  <2>2. e = IF ops[i] = Slot THEN Nodes[n].kids[1] ELSE ops[i]
    BY <1>5, <1>7
  <2>3. e \in NodesOf(prog) /\ e \in NodeId /\ Nodes[e].k \in ExprKind
    BY <1>2, <1>3, <2>1, <2>2, OperandPlace
  <2> QED BY <2>3, NoNode
<1> QED BY <1>6, <1>7

\* What an activation has is of the type that its expression was given.
LEMMA FrameValues ==
  ASSUME TypeOK, SoundInv, NEW ty, NEW ht, WellTyped(ty, prog), TypedBy(ty, ht), Counted(stack),
         NEW j \in 1 .. Len(stack), NEW f, f = stack[j], Nodes[f.n].k \in Evaluated,
         NEW i \in 1 .. Len(f.vs), NEW e, e = ExprOf(f.n, i)
  PROVE  /\ f.vs[i] \in Value(Len(heap)) /\ e \in NodesOf(prog) /\ Nodes[e].k \in ExprKind
         /\ ty[e] \in Type /\ VT(ht, f.vs[i], ty[e])
<1>1. f \in Frames(Len(heap), Len(envs)) /\ prog \in Programs
  BY StackAt DEF TypeOK
<1>2. f.n \in NodesOf(prog) /\ Full(f) /\ FrameT(ht, ty, f)
  BY DEF SoundInv, StackOf, InProgram, Counted, TypedBy, FramesT
<1>3. f.vs \in Seq(Value(Len(heap))) /\ Len(f.vs) \in Nat
  BY <1>1 DEF Frames
<1>4. e \in NodesOf(prog) /\ e # 0 /\ Nodes[e].k \in ExprKind
  BY <1>1, <1>2, <1>3, ValuePlace
<1>5. ty[e] \in Type
  BY <1>4 DEF WellTyped, Judged
<1>6. VT(ht, f.vs[i], ty[e])
  BY <1>2, <1>4 DEF FrameT
<1> QED BY <1>3, <1>4, <1>5, <1>6

-----------------------------------------------------------------------------
(***************************************************************************)
(* The invariant, and what follows from it.                                *)
(***************************************************************************)
TypesInv(ty) == TypedInv(ty) /\ GlobalsDefined /\ AtRest /\ Counted(stack)

LEMMA TypesInit == ASSUME Init, NEW ty PROVE TypesInv(ty)
<1>1. heap = <<>> /\ stack = <<>> /\ flow = Normal /\ decl = 1 /\ Len(envs) = 1 /\ envs[1].vars = Empty
  BY DEF Init
<1>2. EnvsT(<<>>, envs)
  BY <1>1 DEF EnvsT, Empty, Unbound
<1>3. FramesT(<<>>, ty, stack) /\ HeapT(<<>>, heap) /\ FlowT(<<>>, prog, stack, flow)
  BY <1>1 DEF FramesT, HeapT, FlowT
<1>4. TypedInv(ty)
  BY <1>2, <1>3 DEF TypedInv, TypedBy, HeapT
<1>5. GlobalsDefined /\ AtRest /\ Counted(stack)
  BY <1>1 DEF GlobalsDefined, AtRest, Counted
<1> QED BY <1>4, <1>5 DEF TypesInv

LEMMA TypesStutter == ASSUME UNCHANGED vars, NEW ty, TypesInv(ty) PROVE TypesInv(ty)'
  BY DEF vars, TypesInv, TypedInv, TypedBy, GlobalsDefined, AtRest, Counted

\* A panic is one of an activation's.
LEMMA PanicsInAction ==
  ASSUME NEW ty, NEW ht, WellRun(ty, ht), Next, status = "run", status' = "panic"
  PROVE  stack # <<>>
<1>1. ~RunDecl /\ ~RunEnd /\ ~Halted
  BY DEF RunDecl, RunEnd, Halt, Halted, vars
<1>2. CASE RunMain
  <2>1. PICK i \in 1 .. Len(prog) : Nodes[prog[i]].k = "Func" /\ Nodes[prog[i]].name = "main"
    BY WellParts, ProgramNodes DEF WellTyped, HasMain
  <2>2. PICK f : f = "main"
    OBVIOUS
  <2>3. Functions(f) # {}
    BY <2>1, <2>2, OneFunction
  <2>4. CallFunction(f, <<>>, <<>>)
    BY <1>2, <2>2, <2>3 DEF RunMain
  <2>5. status' = status
    BY <2>3, <2>4 DEF CallFunction
  <2> QED BY <2>5
<1> QED BY <1>1, <1>2, StepRuns DEF Next, Run

LEMMA TypesStep ==
  ASSUME TypeOK, SoundInv, NEW ty, WellTyped(ty, prog), TypesInv(ty), [Next]_vars
  PROVE  /\ TypesInv(ty)'
         /\ status = "run" /\ status' = "panic" => stack # <<>> /\ (RemainderOfFloats \/ GlobalNotYetDefined)
<1>1. CASE UNCHANGED vars
  <2>1. TypesInv(ty)'
    BY <1>1, TypesStutter
  <2> QED BY <1>1, <2>1 DEF vars
<1>2. CASE Next /\ status = "run"
  <2>1. PICK ht \in Seq(Type) : TypedBy(ty, ht)
    BY DEF TypesInv, TypedInv
  <2>2. WellRun(ty, ht)
    BY <2>1 DEF WellRun, TypesInv
  <2>3. Fine(ty) /\ GlobalsDefined' /\ AtRest'
    BY <1>2, <2>2, StepFine, DefinedKept, RestKept
  <2>4. status' = "panic" => stack # <<>>
    BY <1>2, <2>2, PanicsInAction
  <2>5. Counted(stack')
    BY CountedStep DEF SoundInv, TypesInv
  <2> QED BY <2>3, <2>4, <2>5 DEF Fine, TypesInv
<1>3. CASE Next /\ status # "run"
  <2>1. ~EvalExpr /\ ~ExecStmt
    BY <1>3, StepRuns
  <2>2. UNCHANGED vars
    BY <1>3, <2>1 DEF Next, Run, RunDecl, RunMain, RunEnd, AtRun, Halted
  <2> QED BY <1>1, <2>2
<1> QED BY <1>1, <1>2, <1>3

\* While a well typed program runs, everything it holds - the value of a variable, a cell
\* of an array, an operand that waits for others, a Return on its way up - is of the type
\* that the program gives its place.
THEOREM WellTypedKeepsTypes ==
  Spec /\ (\E ty : WellTyped(ty, prog)) => [](\E ty : WellTyped(ty, prog) /\ TypedInv(ty))
<1> DEFINE Typed == \E ty : WellTyped(ty, prog)
           I == SoundInv /\ \E ty : WellTyped(ty, prog) /\ TypesInv(ty)
<1>1. Init /\ Typed => I
  BY SoundInit, TypesInit
<1>2. TypeOK /\ I /\ [Next]_vars => I'
  <2>1. SUFFICES ASSUME TypeOK, I, [Next]_vars PROVE I'
    OBVIOUS
  <2>2. PICK ty : WellTyped(ty, prog) /\ TypesInv(ty)
    BY <2>1
  <2>3. SoundInv' /\ prog' = prog
    BY <2>1, <2>2, SoundStep
  <2>4. TypesInv(ty)'
    BY <2>1, <2>2, TypesStep
  <2>5. WellTyped(ty, prog')
    BY <2>2, <2>3
  <2> QED BY <2>3, <2>4, <2>5
<1>3. I => \E ty : WellTyped(ty, prog) /\ TypedInv(ty)
  BY DEF TypesInv
<1> HIDE DEF I
<1>4. Spec /\ Typed => []I
  BY <1>1, <1>2, TypeCorrect, PTL DEF Spec
<1> QED BY <1>3, <1>4, PTL

\* A step that panics.
PanicIsKnown == status = "run" /\ status' = "panic" => RemainderOfFloats \/ GlobalNotYetDefined

\* A well typed program panics in two places only: at the remainder of two floats, which
\* the interpreter does not have, and at a global that is used before it is defined.
THEOREM WellTypedPanics ==
  Spec /\ (\E ty : WellTyped(ty, prog)) => [][PanicIsKnown]_vars
<1> DEFINE Typed == \E ty : WellTyped(ty, prog)
           I == SoundInv /\ \E ty : WellTyped(ty, prog) /\ TypesInv(ty)
<1>1. Init /\ Typed => I
  BY SoundInit, TypesInit
<1>2. TypeOK /\ I /\ [Next]_vars => I' /\ [PanicIsKnown]_vars
  <2>1. SUFFICES ASSUME TypeOK, I, [Next]_vars PROVE I' /\ PanicIsKnown
    OBVIOUS
  <2>2. PICK ty : WellTyped(ty, prog) /\ TypesInv(ty)
    BY <2>1
  <2>3. SoundInv' /\ prog' = prog
    BY <2>1, <2>2, SoundStep
  <2>4. TypesInv(ty)' /\ PanicIsKnown
    BY <2>1, <2>2, TypesStep DEF PanicIsKnown
  <2>5. WellTyped(ty, prog')
    BY <2>2, <2>3
  <2> QED BY <2>3, <2>4, <2>5
<1> HIDE DEF I
<1> QED
  BY <1>1, <1>2, TypeCorrect, PTL DEF Spec
===============================================================================
