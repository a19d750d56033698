------------------------------- MODULE AnxSema --------------------------------
(***************************************************************************)
(* The checker (sema/mod.rs, sema/symtab.rs, sema/types.rs).  An           *)
(* activation of check_expr, check_expr_against, check_stmt or check_func  *)
(* is a frame of `calls`; `rs` holds what the checks of its children have  *)
(* returned so far: for an expression its type, or None; for a statement   *)
(* Returns when it returns on every path, or None.                         *)
(*                                                                         *)
(* An error is its kind and the node it is about; its text is left out.    *)
(***************************************************************************)
EXTENDS AnxTyping

VARIABLES
  prog,       \* the program: its declarations, in source order
  pass,       \* 1: hoist the signatures, 2: walk the bodies, 3: done
  item,       \* the declaration the pass is at
  calls,      \* the activations, the innermost last
  scopes,     \* SymbolTable.scopes, the innermost last
  functions,  \* SymbolTable.functions
  declared,   \* the declaration of symbol id i is declared[i + 1]: a history of
              \* declare_var, whose length is next_symbol_id
  types,      \* SemaResult.types: the type of each node that has one
  var_refs,   \* SemaResult.var_refs: the symbol id of each identifier that has one
  errors      \* the errors, in the order they are reported

vars == <<prog, pass, item, calls, scopes, functions, declared, types, var_refs, errors>>

None     == Ty("None")
Returns  == Ty("Returns")
NoSymbol == -1

ErrorKind == {"UndeclaredIdentifier", "UndeclaredFunction", "DuplicateDeclaration",
              "TypeMismatch", "NonBoolCondition", "NotIndexable", "ArityMismatch",
              "InvalidAssignTarget", "MissingReturn", "UnknownField", "MissingMain"}

(***************************************************************************)
(* The symbol table.                                                       *)
(***************************************************************************)
Unknown == [id |-> NoSymbol, ty |-> None]
NoNames == [x \in Name |-> Unknown]
NoSig   == [params |-> <<>>, ret |-> None]

Scope == scopes[Len(scopes)]
\* A slip: the outermost scope that has the name is taken.
ResolveOutermost(x) ==
  LET found == {s \in DOMAIN scopes : scopes[s][x] # Unknown}
  IN  IF found = {} THEN Unknown
      ELSE scopes[CHOOSE s \in found : \A s2 \in found : s <= s2][x]

\* resolve_var: the innermost scope that has the name.
Resolve(x) ==
  LET found == {s \in DOMAIN scopes : scopes[s][x] # Unknown}
  IN  IF found = {} THEN Unknown
      ELSE scopes[CHOOSE s \in found : \A s2 \in found : s2 <= s][x]

\* declare_var of the declarations ds, one after the other, in scope s.
Declare(s, ds) == [x \in Name |->
  LET named == {i \in DOMAIN ds : Nodes[ds[i]].name = x}
  IN  IF named = {} THEN s[x]
      ELSE LET i == CHOOSE i \in named : \A j \in named : j <= i
           IN  [id |-> Len(declared) + i - 1, ty |-> Nodes[ds[i]].ty]]

BuiltinFuncs == [x \in Name |->
  CASE x = "length"    -> [params |-> <<TStr>>, ret |-> TInt]
    [] x = "charAt"    -> [params |-> <<TStr, TInt>>, ret |-> TStr]
    [] x = "substring" -> [params |-> <<TStr, TInt, TInt>>, ret |-> TStr]
    [] OTHER           -> NoSig]

Signature(nd) == [params |-> [i \in DOMAIN nd.params |-> Nodes[nd.params[i]].ty], ret |-> nd.ty]

(***************************************************************************)
(* Activations.  `exp` is the type check_expr_against checks against, or   *)
(* a statement's return_ty; `owned` is how many scopes end with it.        *)
(***************************************************************************)
Frame(n, exp, owned) == [n |-> n, exp |-> exp, owned |-> owned, rs |-> <<>>]

Top  == calls[Len(calls)]
Here == Nodes[Top.n]
Done == Len(Top.rs)
Walking == pass = 2 /\ calls # <<>>

Popped(r) == [i \in 1 .. Len(calls) - 1 |->
                IF i = Len(calls) - 1 THEN [calls[i] EXCEPT !.rs = Append(@, r)] ELSE calls[i]]

AnyOf(rs, r) == \E i \in DOMAIN rs : rs[i] = r

(***************************************************************************)
(* The rules (types.rs): the type an expression has once its children are  *)
(* checked, or None.                                                       *)
(***************************************************************************)
\* is_lvalue.  A slip: a field too.
IsPlace(n)  == Nodes[n].k \in {"Ident", "Index", "FieldAccess"}
IsLvalue(n) == Nodes[n].k \in {"Ident", "Index"}
HasTarget(nd) == nd.k \in {"Assign", "CompoundAssign", "IncDec"}
BadTarget(nd) == HasTarget(nd) /\ ~IsLvalue(nd.kids[1])

CombineBinaryTypes(op, l, r) ==
  IF l # r THEN None
  ELSE CASE op \in Arith -> IF l \in {TInt, TFloat} \/ (op = "Add" /\ l = TStr) THEN l ELSE None
         [] op \in Bitwise  -> IF l = TInt THEN TInt ELSE None
         [] op \in Compare  -> IF l \in {TInt, TFloat} THEN TBool ELSE None
         [] op \in Equality -> TBool
         [] OTHER           -> IF l = TBool THEN TBool ELSE None

UnaryAccepts(op) == CASE op = "Neg" -> {TInt, TFloat} [] op = "Not" -> {TBool} [] OTHER -> {TInt}

\* A slip: a function is not looked up.
ArityError(nd) ==
  LET arity == IF nd.name = "print" THEN 1 ELSE Len(functions[nd.name].params)
  IN  IF Len(nd.kids) # arity THEN <<"ArityMismatch">> ELSE <<>>

\* What check_call finds wrong with a call before it looks at the arguments.
CallError(nd) ==
  LET arity == IF nd.name = "print" THEN 1 ELSE Len(functions[nd.name].params)
  IN  IF nd.name # "print" /\ functions[nd.name] = NoSig THEN <<"UndeclaredFunction">>
      ELSE IF Len(nd.kids) # arity THEN <<"ArityMismatch">> ELSE <<>>

CallType(f, nd) == IF CallError(nd) # <<>> THEN None
                   ELSE IF nd.name = "print" THEN TVoid
                   ELSE IF AnyOf(f.rs, None) THEN None ELSE functions[nd.name].ret

ArrayLiteralType(f, nd) ==
  IF AnyOf(f.rs, None) THEN None
  ELSE IF f.exp # None THEN IF IsArray(f.exp) THEN f.exp ELSE None
  ELSE IF nd.kids = <<>> THEN None ELSE ArrayOf(f.rs[1])

LiteralType(k) == CASE k = "IntLiteral"    -> TInt  [] k = "FloatLiteral"  -> TFloat
                    [] k = "BoolLiteral"   -> TBool [] k = "StringLiteral" -> TStr
                    [] OTHER -> TVoid

TypeFrom(f) ==
  LET nd == Nodes[f.n]  rs == f.rs
      both == Len(rs) = 2 /\ ~AnyOf(rs, None)
  IN  IF BadTarget(nd) THEN None
      ELSE
      CASE nd.k = "Ident" -> Resolve(nd.name).ty
        [] nd.k = "Assign" -> IF Len(rs) = 2 THEN rs[2] ELSE None
        [] nd.k \in {"Binary", "CompoundAssign"} ->
             IF both THEN CombineBinaryTypes(nd.op, rs[1], rs[2]) ELSE None
        [] nd.k = "IncDec" -> IF rs[1] \in {TInt, TFloat} THEN rs[1] ELSE None
        [] nd.k = "Unary" -> IF rs[1] \in UnaryAccepts(nd.op) THEN rs[1] ELSE None
        [] nd.k = "Ternary" -> IF rs[2] = rs[3] /\ rs[2] # TVoid THEN rs[2] ELSE None
        [] nd.k = "Call" -> CallType(f, nd)
        [] nd.k = "Index" -> IF IsArray(rs[1]) /\ rs[2] = TInt THEN ElemOf(rs[1]) ELSE None
        [] nd.k = "FieldAccess" ->
             IF nd.name = "length" /\ (IsArray(rs[1]) \/ rs[1] = TStr) THEN TInt ELSE None
        [] nd.k = "ArrayLiteral" -> ArrayLiteralType(f, nd)
        [] nd.k = "ArrayCreation" -> IF rs[1] = TInt THEN ArrayOf(nd.ty) ELSE None
        [] OTHER -> LiteralType(nd.k)

\* A slip: whatever was found will do.
AsFound(f, t) == t

\* check_expr_against: None unless the type is the expected one.
Against(f, t) == IF f.exp # None /\ t # f.exp THEN None ELSE t

\* A slip: one branch that returns is enough.
ReturnsOnSomePath(f) ==
  LET nd == Nodes[f.n]
  IN  \/ nd.k = "Return"
      \/ nd.k \in {"Block", "Func", "If"} /\ AnyOf(f.rs, Returns)

\* What check_stmt and check_block_stmts answer.
ReturnsOnAllPaths(f) ==
  LET nd == Nodes[f.n]
  IN  \/ nd.k = "Return"
      \/ nd.k \in {"Block", "Func"} /\ AnyOf(f.rs, Returns)
      \/ nd.k = "If" /\ Len(f.rs) = 3 /\ f.rs[2] = Returns /\ f.rs[3] = Returns

(***************************************************************************)
(* Which child an activation checks next, and against what.                *)
(***************************************************************************)
\* A slip: a literal is looked into whatever it is checked against.
GivesUpOnNone(f) ==
  LET nd == Nodes[f.n]
      first == Len(f.rs) = 1 /\ f.rs[1] = None
  IN  \/ nd.k \in {"Assign", "CompoundAssign"} /\ ~BadTarget(nd) /\ first
      \/ nd.k = "ArrayLiteral" /\ f.exp = None /\ first

\* The `?` and early returns: the rest of the children is not looked at.
GivesUp(f) ==
  LET nd == Nodes[f.n]
      first == Len(f.rs) = 1 /\ f.rs[1] = None
  IN  \/ nd.k \in {"Assign", "CompoundAssign"} /\ ~BadTarget(nd) /\ first
      \/ nd.k = "ArrayLiteral" /\ f.exp = None /\ first
      \/ nd.k = "ArrayLiteral" /\ f.exp # None /\ ~IsArray(f.exp)

\* A slip: print takes anything, so its argument is not looked at.
CompleteForPrint(f) == \/ Len(f.rs) = Len(Nodes[f.n].kids) \/ GivesUp(f)
                       \/ Nodes[f.n].k = "Call" /\ Nodes[f.n].name = "print"
Complete(f) == Len(f.rs) = Len(Nodes[f.n].kids) \/ GivesUp(f)

\* The expectation for child number i.
Expected(f, i) ==
  LET nd == Nodes[f.n]
  IN  CASE nd.k = "Assign" /\ i = 2 /\ ~BadTarget(nd) -> f.rs[1]
        [] nd.k = "Call" /\ nd.name # "print" /\ CallError(nd) = <<>> ->
             functions[nd.name].params[i]
        [] nd.k = "ArrayLiteral" ->
             IF f.exp # None THEN ElemOf(f.exp) ELSE IF i = 1 THEN None ELSE f.rs[1]
        [] nd.k = "VarDecl" -> nd.ty
        [] nd.k = "Return" -> IF f.exp = TVoid THEN None ELSE f.exp
        [] nd.k = "Func" -> nd.ty
        [] OTHER -> IF Nodes[nd.kids[i]].k \in StmtKind THEN f.exp ELSE None

\* A slip: only blocks and for loops have scopes.
NoBody(nd, i) == FALSE

\* check_scoped_stmt opens a scope around a body that is not a block; a block and a
\* for loop open their own.
IsBody(nd, i) == CASE nd.k = "If" -> i > 1 [] nd.k = "While" -> i = 2 [] nd.k = "For" -> i = 4
                   [] OTHER -> FALSE
Opened(nd, i) ==
  LET k == Nodes[nd.kids[i]].k
  IN  (IF k \in {"Block", "For"} THEN 1 ELSE 0) + (IF IsBody(nd, i) /\ k # "Block" THEN 1 ELSE 0)

(***************************************************************************)
(* What an activation reports at the point it has reached: before its next *)
(* child, or as it returns.                                                *)
(***************************************************************************)
Said(c, e) == IF c THEN <<e>> ELSE <<>>

\* Every child whose type the rule looks at has one, and the rule has no answer.
NoRule(f, from) == /\ \A i \in from .. Len(f.rs) : f.rs[i] # None
                   /\ Complete(f) /\ TypeFrom(f) = None

Condition(nd) == CASE nd.k \in {"If", "While", "Ternary"} -> 1 [] nd.k = "For" -> 2 [] OTHER -> 0

ReportExpr(f, nd) ==
  IF BadTarget(nd) THEN Said(f.rs = <<>>, "InvalidAssignTarget")
  ELSE
  CASE nd.k = "Ident" -> Said(Resolve(nd.name) = Unknown, "UndeclaredIdentifier")
    [] nd.k = "Call" -> IF f.rs = <<>> THEN CallError(nd) ELSE <<>>
    [] nd.k \in {"Binary", "Unary", "IncDec", "CompoundAssign", "ArrayCreation"} ->
         Said(NoRule(f, 1), "TypeMismatch")
    [] nd.k = "Ternary" -> Said(Len(f.rs) = 3 /\ NoRule(f, 2), "TypeMismatch")
    [] nd.k = "FieldAccess" -> Said(NoRule(f, 1), "UnknownField")
    [] nd.k = "ArrayLiteral" ->
         Said(IF f.exp = None THEN nd.kids = <<>> ELSE ~IsArray(f.exp), "TypeMismatch")
    [] nd.k = "Index" /\ Len(f.rs) = 2 ->
         Said(f.rs[1] # None /\ ~IsArray(f.rs[1]), "NotIndexable")
         \o Said(f.rs[2] \notin {None, TInt}, "TypeMismatch")
    [] OTHER -> <<>>

ReportStmt(f, nd) ==
  CASE nd.k = "VarDecl" -> Said(f.rs = <<>> /\ Scope[nd.name] # Unknown, "DuplicateDeclaration")
    [] nd.k = "Return" -> Said(Complete(f) /\ (nd.kids = <<>>) # (f.exp = TVoid), "TypeMismatch")
    [] nd.k = "Func" ->
         Said(Complete(f) /\ nd.ty # TVoid /\ ~ReturnsOnAllPaths(f), "MissingReturn")
    [] OTHER -> <<>>

Report(f) ==
  LET nd == Nodes[f.n]
      cond == Condition(nd)
      mismatch == /\ nd.k \in ExprKind \ {"ArrayLiteral"} /\ Complete(f)
                  /\ TypeFrom(f) # None /\ Against(f, TypeFrom(f)) = None
  IN  Said(cond > 0 /\ Len(f.rs) = cond /\ f.rs[cond] \notin {None, TBool}, "NonBoolCondition")
      \o (IF nd.k \in ExprKind THEN ReportExpr(f, nd) ELSE ReportStmt(f, nd))
      \o Said(mismatch, "TypeMismatch")

Log(n, kinds) == errors' = errors \o [i \in DOMAIN kinds |-> [k |-> kinds[i], n |-> n]]

(***************************************************************************)
(* Steps.                                                                  *)
(***************************************************************************)
\* An activation checks its next child.
CheckChild ==
  /\ Walking /\ ~Complete(Top)
  /\ LET i == Done + 1
         opened == Opened(Here, i)
     IN  /\ calls' = Append(calls, Frame(Here.kids[i], Expected(Top, i), opened))
         /\ scopes' = scopes \o [s \in 1 .. opened |-> NoNames]
  /\ Log(Top.n, Report(Top))
  /\ UNCHANGED <<prog, pass, item, functions, declared, types, var_refs>>

Insert(map, n, e) == [m \in DOMAIN map \cup {n} |-> IF m = n THEN e ELSE map[m]]

\* check_expr and check_expr_against return: the type is noted even when it is not
\* the expected one.
CheckExpr ==
  /\ Walking /\ Here.k \in ExprKind /\ Complete(Top)
  /\ LET t == TypeFrom(Top)
     IN  /\ types' = IF t # None THEN Insert(types, Top.n, t) ELSE types
         /\ var_refs' = IF Here.k = "Ident" /\ t # None
                        THEN Insert(var_refs, Top.n, Resolve(Here.name).id) ELSE var_refs
         /\ calls' = Popped(Against(Top, t))
  /\ Log(Top.n, Report(Top))
  /\ UNCHANGED <<prog, pass, item, scopes, functions, declared>>

\* pop_scope, as often as the activation pushed.  A slip: never.
LeaveOpen(ss) == ss
Close(ss) == SubSeq(ss, 1, Len(ss) - Top.owned)

\* declare_local_var returns: the name is in scope from here on, and not in its own
\* initialiser.
DeclareLocalVar ==
  /\ Walking /\ Here.k = "VarDecl" /\ Complete(Top)
  /\ scopes' = Close([scopes EXCEPT ![Len(scopes)] = Declare(Scope, <<Top.n>>)])
  /\ declared' = Append(declared, Top.n)
  /\ calls' = Popped(None)
  /\ Log(Top.n, Report(Top))
  /\ UNCHANGED <<prog, pass, item, functions, types, var_refs>>

\* check_stmt and check_func return.
CheckStmt ==
  /\ Walking /\ Here.k \in (StmtKind \cup {"Func"}) \ {"VarDecl"} /\ Complete(Top)
  /\ scopes' = Close(scopes)
  /\ calls' = Popped(IF ReturnsOnAllPaths(Top) THEN Returns ELSE None)
  /\ Log(Top.n, Report(Top))
  /\ UNCHANGED <<prog, pass, item, functions, declared, types, var_refs>>

(***************************************************************************)
(* run.                                                                    *)
(***************************************************************************)
Decl == Nodes[prog[item]]

\* Pass 1: the first declaration of a name is the one that counts.
HoistFunc ==
  /\ pass = 1 /\ item <= Len(prog)
  /\ LET new == Decl.k = "Func" /\ functions[Decl.name] = NoSig
     IN  /\ functions' = IF new THEN [functions EXCEPT ![Decl.name] = Signature(Decl)]
                         ELSE functions
         /\ Log(prog[item], Said(Decl.k = "Func" /\ ~new, "DuplicateDeclaration"))
  /\ item' = item + 1
  /\ UNCHANGED <<prog, pass, calls, scopes, declared, types, var_refs>>

RequireMain ==
  /\ pass = 1 /\ item > Len(prog)
  /\ Log(0, Said("main" \notin Name \/ functions["main"] # [params |-> <<>>, ret |-> TVoid],
                 "MissingMain"))
  /\ pass' = 2 /\ item' = 1
  /\ UNCHANGED <<prog, calls, scopes, functions, declared, types, var_refs>>

\* Pass 2: a global variable, or the parameters and then the body of a function.
CheckDecl ==
  /\ pass = 2 /\ calls = <<>> /\ item <= Len(prog)
  /\ item' = item + 1
  /\ IF Decl.k = "VarDecl"
     THEN calls' = <<Frame(prog[item], None, 0)>> /\ UNCHANGED <<scopes, declared>>
     ELSE /\ calls' = <<Frame(prog[item], None, 1)>>
          /\ scopes' = Append(scopes, Declare(NoNames, Decl.params))
          /\ declared' = declared \o Decl.params
  /\ UNCHANGED <<prog, pass, functions, types, var_refs, errors>>

Conclude ==
  /\ pass = 2 /\ calls = <<>> /\ item > Len(prog)
  /\ pass' = 3
  /\ UNCHANGED <<prog, item, calls, scopes, functions, declared, types, var_refs, errors>>

Accepted == pass = 3 /\ errors = <<>>

Init ==
  /\ prog \in Programs /\ pass = 1 /\ item = 1 /\ calls = <<>>
  /\ scopes = <<NoNames>> /\ functions = BuiltinFuncs /\ declared = <<>>
  /\ types = <<>> /\ var_refs = <<>>
  /\ errors = <<>>

Step == CheckChild \/ CheckExpr \/ DeclareLocalVar \/ CheckStmt
        \/ HoistFunc \/ RequireMain \/ CheckDecl \/ Conclude
Next == Step \/ (pass = 3 /\ UNCHANGED vars)

Spec == Init /\ [][Next]_vars

-----------------------------------------------------------------------------
(***************************************************************************)
(* Properties.                                                             *)
(***************************************************************************)
Symbol == [id: Nat, ty: Type] \cup {Unknown}
Result == Type \cup {None, Returns}
Frames == [n: NodeId, exp: Type \cup {None}, owned: Nat, rs: Seq(Result)]

\* Every activation checks a node that exists, and the tables hold what they should.
TypeOK ==
  /\ prog \in Programs /\ pass \in 1 .. 3 /\ item \in 1 .. Len(prog) + 1
  /\ calls \in Seq(Frames)
  /\ scopes \in Seq([Name -> Symbol]) /\ scopes # <<>>
  /\ functions \in [Name -> [params: Seq(Type), ret: Type \cup {None}]]
  /\ declared \in Seq(NodeId)
  /\ DOMAIN types \subseteq NodeId /\ types \in [DOMAIN types -> Type]
  /\ DOMAIN var_refs \subseteq NodeId /\ var_refs \in [DOMAIN var_refs -> Nat]
  /\ errors \in Seq([k: ErrorKind, n: NodeId \cup {0}])

\* A check that finds no type has said so, itself or further down: no expression is
\* dropped without an error (the code's None is only ever answered to an error).
NothingIsSilent ==
  \A j \in DOMAIN calls : \A i \in DOMAIN calls[j].rs :
    /\ Nodes[Nodes[calls[j].n].kids[i]].k \in ExprKind
    /\ calls[j].rs[i] = None
    => errors # <<>>

\* What the back end may take for granted: an accepted program has a type for every
\* expression (code generation's resolved_type panics without one) and a symbol for
\* every identifier, and that symbol is a declaration of the identifier's name.
TablesAreTotal ==
  Accepted => \A n \in NodesOf(prog) :
    /\ Nodes[n].k \in ExprKind => n \in DOMAIN types
    /\ Nodes[n].k = "Ident" => /\ n \in DOMAIN var_refs
                               /\ var_refs[n] \in 0 .. Len(declared) - 1
                               /\ Nodes[declared[var_refs[n] + 1]].name = Nodes[n].name

\* What the checker accepts is well typed, whatever the order it checked things in, and
\* each identifier's symbol is the declaration that its scopes give to its name.
AcceptedIsWellTyped ==
  Accepted => /\ WellTyped(types, prog)
              /\ \A n \in NodesOf(prog) : Nodes[n].k = "Ident" =>
                   declared[var_refs[n] + 1] = Means(ScopesOf(prog)[n], Nodes[n].name)

\* Between two declarations the only scope is the global one, and it holds the global
\* variables walked so far: every scope is closed, and none leaks a local.
OnlyGlobalsStay ==
  pass = 2 /\ calls = <<>> =>
    /\ Len(scopes) = 1
    /\ {x \in Name : Scope[x] # Unknown}
         = {Nodes[prog[i]].name : i \in {j \in 1 .. item - 1 : Nodes[prog[j]].k = "VarDecl"}}
===============================================================================
