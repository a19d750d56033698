------------------------------- MODULE AnxTyping -------------------------------
(***************************************************************************)
(* What it is for a program to be well typed, node by node and without an  *)
(* order of checking: the rules of the language that the checker (AnxSema) *)
(* enforces, and that the interpreter (AnxInterp) relies on.               *)
(*                                                                         *)
(* The scopes that a node is in, the type its returns are of and whether a *)
(* statement returns follow from the program alone; `ty` is a table of the *)
(* types of its expressions.                                               *)
(***************************************************************************)
EXTENDS AnxAst

(***************************************************************************)
(* Scopes.                                                                 *)
(***************************************************************************)
NoDecl  == 0
NoDecls == [x \in Name |-> NoDecl]

\* The last of the declarations ds[i], i \in I, that are of name x; 0 if none is.
LastOf(ds, I, x) ==
  LET named == {i \in I : Nodes[ds[i]].name = x}
  IN  IF named = {} THEN NoDecl ELSE ds[CHOOSE i \in named : \A j \in named : j <= i]

\* Children of a statement that have a scope of their own around them.
Scoped(nd, i) == CASE nd.k = "If" -> i > 1 [] nd.k = "While" -> i = 2 [] nd.k = "For" -> i = 4
                   [] OTHER -> FALSE
\* The children among the first k that declare a name in the scope of nd.
Binders(nd, k) == {i \in DOMAIN nd.kids : i <= k /\ Nodes[nd.kids[i]].k = "VarDecl" /\ ~Scoped(nd, i)}
With(s, nd, k) == [x \in Name |-> LET d == LastOf(nd.kids, Binders(nd, k), x)
                                  IN  IF d = NoDecl THEN s[x] ELSE d]
\* The scopes ss of nd when its first k children are done.
After(ss, nd, k) == [ss EXCEPT ![Len(ss)] = With(ss[Len(ss)], nd, k)]

\* How many scopes child i is in that nd is not.
NewScopes(nd, i) ==
  LET k == Nodes[nd.kids[i]].k
  IN  (IF k \in {"Block", "For"} THEN 1 ELSE 0) + (IF Scoped(nd, i) /\ k # "Block" THEN 1 ELSE 0)
Inside(ss, nd, i) == After(ss, nd, i - 1) \o [s \in 1 .. NewScopes(nd, i) |-> NoDecls]

\* What a name means: its declaration in the innermost scope that has one.
Means(ss, x) ==
  LET found == {s \in DOMAIN ss : ss[s][x] # NoDecl}
  IN  IF found = {} THEN NoDecl ELSE ss[CHOOSE s \in found : \A s2 \in found : s2 <= s][x]

\* The globals in scope at declaration i of a program.
Vars(p, i)       == {j \in DOMAIN p : j < i /\ Nodes[p[j]].k = "VarDecl"}
GlobalsAt(p, i)  == [x \in Name |-> LastOf(p, Vars(p, i), x)]
ParamScope(nd)   == [x \in Name |-> LastOf(nd.params, DOMAIN nd.params, x)]

DeclScopes(p, i)  == IF Nodes[p[i]].k = "Func" THEN <<GlobalsAt(p, i), ParamScope(Nodes[p[i]])>>
                     ELSE <<GlobalsAt(p, i)>>

\* The scopes that each node of a program is in.
ScopesOf(p) ==
  LET nodes == NodesOf(p)
      above(m) == CHOOSE n \in nodes : \E i \in DOMAIN Nodes[n].kids : Nodes[n].kids[i] = m
      place(n, m) == CHOOSE i \in DOMAIN Nodes[n].kids : Nodes[n].kids[i] = m
      in[m \in nodes] ==
        IF \E i \in DOMAIN p : p[i] = m THEN DeclScopes(p, CHOOSE i \in DOMAIN p : p[i] = m)
        ELSE Inside(in[above(m)], Nodes[above(m)], place(above(m), m))
  IN  in

\* What a return in n has to return: the type of the function that n is in.
RetOf(p, n) == Nodes[p[CHOOSE i \in DOMAIN p : n \in Below(p[i])]].ty

\* A statement that returns on every path.
MustReturn(n) ==
  LET does[m \in NodeId] ==
        LET nd == Nodes[m]
        IN  \/ nd.k = "Return"
            \/ nd.k \in {"Block", "Func"} /\ \E i \in DOMAIN nd.kids : does[nd.kids[i]]
            \/ nd.k = "If" /\ Len(nd.kids) = 3 /\ does[nd.kids[2]] /\ does[nd.kids[3]]
  IN  does[n]

(***************************************************************************)
(* Types.                                                                  *)
(***************************************************************************)
Numeric == {TInt, TFloat}
LitType(k) == Ty(LitKind[k])
Place(n) == Nodes[n].k \in {"Ident", "Index"}

\* t is the type of an operator's result on two operands of type o.
BinaryRule(op, o, t) ==
  \/ op \in Arith /\ o \in Numeric /\ t = o
  \/ op = "Add" /\ o = TStr /\ t = o
  \/ op \in Bitwise /\ o = TInt /\ t = TInt
  \/ op \in Compare /\ o \in Numeric /\ t = TBool
  \/ op \in Equality /\ t = TBool
  \/ op \in Lazy /\ o = TBool /\ t = TBool

UnaryRule(op, t) == \/ op = "Neg" /\ t \in Numeric
                    \/ op = "Not" /\ t = TBool
                    \/ op = "BitNot" /\ t = TInt

BuiltinParams == [length |-> <<TStr>>, charAt |-> <<TStr, TInt>>, substring |-> <<TStr, TInt, TInt>>]
BuiltinRet(f) == IF f = "length" THEN TInt ELSE TStr

\* The arguments of a call have the types ts, one for one.
Takes(ty, nd, ts) == Len(nd.kids) = Len(ts) /\ \A i \in DOMAIN ts : ty[nd.kids[i]] = ts[i]
ParamTypes(f)     == [i \in DOMAIN Nodes[f].params |-> Nodes[Nodes[f].params[i]].ty]

CallRule(ty, p, nd, t) ==
  \/ nd.name = "print" /\ Len(nd.kids) = 1 /\ t = TVoid
  \/ nd.name \in DOMAIN BuiltinParams /\ Takes(ty, nd, BuiltinParams[nd.name]) /\ t = BuiltinRet(nd.name)
  \/ /\ nd.name \notin DOMAIN BuiltinParams \cup {"print"}
     /\ \E i \in DOMAIN p : /\ Nodes[p[i]].k = "Func" /\ Nodes[p[i]].name = nd.name
                            /\ Takes(ty, nd, ParamTypes(p[i])) /\ t = Nodes[p[i]].ty

\* The type t of the expression n follows from its children's types ty and its scopes.
ExprRule(ty, p, ss, n) ==
  LET nd == Nodes[n]  t == ty[n]  kid(i) == ty[nd.kids[i]]
  IN  /\ nd.k \in DOMAIN LitKind => t = LitType(nd.k)
      /\ nd.k = "Ident" => Means(ss, nd.name) # NoDecl /\ t = Nodes[Means(ss, nd.name)].ty
      /\ nd.k \in {"Assign", "CompoundAssign", "IncDec"} => Place(nd.kids[1])
      /\ nd.k = "Assign" => kid(1) = t /\ kid(2) = t
      /\ nd.k \in {"Binary", "CompoundAssign"} => kid(1) = kid(2) /\ BinaryRule(nd.op, kid(1), t)
      /\ nd.k = "IncDec" => t \in Numeric /\ kid(1) = t
      /\ nd.k = "Unary" => UnaryRule(nd.op, t) /\ kid(1) = t
      /\ nd.k = "Ternary" => kid(1) = TBool /\ kid(2) = t /\ kid(3) = t /\ t # TVoid
      /\ nd.k = "Call" => CallRule(ty, p, nd, t)
      /\ nd.k = "Index" => IsArray(kid(1)) /\ kid(2) = TInt /\ t = ElemOf(kid(1))
      /\ nd.k = "FieldAccess" => nd.name = "length" /\ (IsArray(kid(1)) \/ kid(1) = TStr) /\ t = TInt
      /\ nd.k = "ArrayLiteral" => IsArray(t) /\ \A i \in DOMAIN nd.kids : kid(i) = ElemOf(t)
      /\ nd.k = "ArrayCreation" => kid(1) = TInt /\ t = ArrayOf(nd.ty)

StmtRule(ty, ret, n) ==
  LET nd == Nodes[n]
  IN  /\ nd.k = "VarDecl" => \A i \in DOMAIN nd.kids : ty[nd.kids[i]] = nd.ty
      /\ nd.k = "Return" => /\ nd.kids = <<>> <=> ret = TVoid
                            /\ \A i \in DOMAIN nd.kids : ty[nd.kids[i]] = ret
      /\ nd.k \in {"If", "While"} => ty[nd.kids[1]] = TBool
      /\ nd.k = "For" => ty[nd.kids[2]] = TBool

Judged(ty, p, n) ==
  /\ Nodes[n].k \in ExprKind => n \in DOMAIN ty /\ ty[n] \in Type /\ ExprRule(ty, p, ScopesOf(p)[n], n)
  /\ StmtRule(ty, RetOf(p, n), n)

(***************************************************************************)
(* Programs.                                                               *)
(***************************************************************************)
OneEach(p, k) == \A i, j \in DOMAIN p :
  Nodes[p[i]].k = k /\ Nodes[p[j]].k = k /\ Nodes[p[i]].name = Nodes[p[j]].name => i = j
HasMain(p) == \E i \in DOMAIN p : /\ Nodes[p[i]].k = "Func" /\ Nodes[p[i]].name = "main"
                                  /\ Nodes[p[i]].params = <<>> /\ Nodes[p[i]].ty = TVoid
Returning(p) == \A i \in DOMAIN p :
  Nodes[p[i]].k = "Func" /\ Nodes[p[i]].ty # TVoid => MustReturn(p[i])

WellTyped(ty, p) == /\ OneEach(p, "VarDecl") /\ OneEach(p, "Func") /\ HasMain(p) /\ Returning(p)
                    /\ \A n \in NodesOf(p) : Judged(ty, p, n)
===============================================================================
