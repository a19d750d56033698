----------------------------- MODULE AnxSemaProofs -----------------------------
(***************************************************************************)
(* The checker's invariants, for every program the parser can produce:     *)
(* type correctness, that every scope is closed, that nothing is rejected  *)
(* in silence, that the tables of an accepted program are complete, and    *)
(* that what is accepted is well typed.                                    *)
(***************************************************************************)
EXTENDS AnxSema, AnxTypingProofs

(***************************************************************************)
(* The inductive invariant.                                                *)
(***************************************************************************)
\* What the check of node n may answer.
Answer(n) == IF Nodes[n].k \in ExprKind THEN Type \cup {None} ELSE {None, Returns}

\* An activation has at most one answer for each child, each of the child's sort.
Activation(f) ==
  /\ f \in Frames
  /\ Nodes[f.n].k \in ExprKind \cup StmtKind \cup {"Func"}
  /\ Len(f.rs) <= Len(Nodes[f.n].kids)
  /\ \A i \in 1 .. Len(f.rs) : f.rs[i] \in Answer(Nodes[f.n].kids[i])

\* Activation g is about the next child of f.
Awaits(f, g) ==
  LET i == Len(f.rs) + 1
  IN  /\ ~Complete(f) /\ i <= Len(Nodes[f.n].kids)
      /\ g.n = Nodes[f.n].kids[i] /\ g.exp = Expected(f, i) /\ g.owned = Opened(Nodes[f.n], i)

CallsInv == /\ \A j \in 1 .. Len(calls) : Activation(calls[j])
            /\ \A j \in 1 .. Len(calls) - 1 : Awaits(calls[j], calls[j + 1])

\* heights[j]: how many scopes there were before activation j.
Heights(h) == /\ h \in [1 .. Len(calls) + 1 -> Nat \ {0}] /\ h[1] = 1
              /\ \A j \in 1 .. Len(calls) : h[j + 1] = h[j] + calls[j].owned
              /\ Len(scopes) = h[Len(calls) + 1]
ScopesInv == \E h : Heights(h)

\* The outermost activation is that of the last declaration taken up.
PhaseInv == /\ pass # 2 => calls = <<>>
            /\ pass = 1 => scopes = <<NoNames>> /\ declared = <<>>
            /\ calls # <<>> => /\ item > 1
                               /\ calls[1].n = prog[item - 1] /\ calls[1].exp = None
                               /\ calls[1].owned = IF Nodes[calls[1].n].k = "Func" THEN 1 ELSE 0

FunctionsInv == \A x \in Name : functions[x] = NoSig \/ functions[x].ret \in Type

TypeInv == TypeOK /\ CallsInv /\ ScopesInv /\ PhaseInv /\ FunctionsInv

\* A statement is checked inside a function.
StatementsInv == \A j \in 2 .. Len(calls) :
                   Nodes[calls[j].n].k \in StmtKind => Nodes[calls[1].n].k = "Func"

\* The outermost scope has the globals that were walked to their end.
Walked == IF calls = <<>> THEN item - 1 ELSE item - 2
GlobalsInv == pass = 2 =>
  {x \in Name : scopes[1][x] # Unknown} =
    {Nodes[prog[i]].name : i \in {j \in 1 .. Walked : Nodes[prog[j]].k = "VarDecl"}}

ScopeInv == StatementsInv /\ GlobalsInv

\* Whatever an activation reports before its first child has been reported when it is
\* past that.
Begun(j) == j < Len(calls) \/ calls[j].rs # <<>>
ReportsAtOnce(nd) == BadTarget(nd) \/ (nd.k = "Call" /\ CallError(nd) # <<>>)
BegunInv == \A j \in 1 .. Len(calls) :
              Begun(j) /\ ReportsAtOnce(Nodes[calls[j].n]) => errors # <<>>

SilenceInv == BegunInv /\ NothingIsSilent

\* A symbol's id is that of a declaration of its name and type.
Declares(s, x) == /\ s.id \in 0 .. Len(declared) - 1
                  /\ Nodes[declared[s.id + 1]].name = x /\ Nodes[declared[s.id + 1]].ty = s.ty
SymbolsInv == \A s \in 1 .. Len(scopes) : \A x \in Name :
                scopes[s][x] # Unknown => Declares(scopes[s][x], x)

\* The entries that node n should have are there.
HasEntries(n) ==
  /\ Nodes[n].k \in ExprKind => n \in DOMAIN types
  /\ Nodes[n].k = "Ident" => /\ n \in DOMAIN var_refs
                             /\ var_refs[n] \in 0 .. Len(declared) - 1
                             /\ Nodes[declared[var_refs[n] + 1]].name = Nodes[n].name
Covered(n) == \A m \in Below(n) : HasEntries(m)
CoverInv == errors = <<>> =>
  /\ \A j \in 1 .. Len(calls) : \A i \in 1 .. Len(calls[j].rs) :
       Covered(Nodes[calls[j].n].kids[i])
  /\ pass = 2 => \A i \in 1 .. Walked : Covered(prog[i])
  /\ pass = 3 => \A i \in 1 .. Len(prog) : Covered(prog[i])

(***************************************************************************)
(* Nodes and types.                                                        *)
(***************************************************************************)
LEMMA BaseTypes ==
  /\ TInt \in Type /\ TFloat \in Type /\ TBool \in Type /\ TStr \in Type /\ TVoid \in Type
  /\ None \notin Type /\ Returns \notin Type /\ None # Returns
BY DEF TInt, TFloat, TBool, TStr, TVoid, Ty, Type, None, Returns

LEMMA NoneIsNoArray == ~IsArray(None) /\ ~IsArray(Returns)
BY DEF IsArray, None, Returns, Ty

(***************************************************************************)
(* What the innermost activation holds.                                    *)
(***************************************************************************)
LEMMA TypeParts ==
  ASSUME TypeInv
  PROVE  /\ calls \in Seq(Frames) /\ Len(calls) \in Nat
         /\ scopes \in Seq([Name -> Symbol]) /\ Len(scopes) \in Nat \ {0}
         /\ functions \in [Name -> [params: Seq(Type), ret: Type \cup {None}]]
         /\ declared \in Seq(NodeId) /\ Len(declared) \in Nat
         /\ prog \in Seq(NodeId) /\ AllIn(prog, DeclKind) /\ Len(prog) \in Nat
         /\ item \in 1 .. Len(prog) + 1 /\ pass \in 1 .. 3
         /\ errors \in Seq([k: ErrorKind, n: NodeId \cup {0}])
BY ProgramAssumption DEF TypeInv, TypeOK

LEMMA ActivationType ==
  ASSUME NEW f, Activation(f)
  PROVE  /\ f \in Frames /\ f.n \in NodeId /\ f.exp \in Type \cup {None} /\ f.owned \in Nat
         /\ f.rs \in Seq(Result) /\ Len(f.rs) \in Nat
         /\ Len(f.rs) <= Len(Nodes[f.n].kids) /\ Len(Nodes[f.n].kids) \in Nat
         /\ Nodes[f.n].k \in ExprKind \cup StmtKind \cup {"Func"}
         /\ DOMAIN f.rs = 1 .. Len(f.rs)
         /\ \A i \in 1 .. Len(f.rs) : f.rs[i] \in Answer(Nodes[f.n].kids[i])
BY NodeType DEF Activation, Frames

LEMMA TopType ==
  ASSUME TypeInv, calls # <<>>
  PROVE  /\ Len(calls) \in Nat \ {0} /\ Activation(Top) /\ Top.n \in NodeId /\ Here = Nodes[Top.n]
         /\ Done \in Nat /\ Done = Len(Top.rs) /\ pass = 2
         /\ Top \in Frames /\ Top = calls[Len(calls)]
<1>1. Len(calls) \in Nat \ {0}
  BY TypeParts
<1>2. Activation(Top)
  BY <1>1 DEF TypeInv, CallsInv, Top
<1>3. pass = 2
  BY DEF TypeInv, PhaseInv
<1> QED BY <1>1, <1>2, <1>3, ActivationType DEF Here, Done, Top

\* The answers of an expression's children are types, or None.
LEMMA ExprAnswers ==
  ASSUME NEW f, Activation(f), Nodes[f.n].k \in ExprKind \cup {"Expr", "VarDecl", "Return"}
  PROVE  \A i \in 1 .. Len(f.rs) : f.rs[i] \in Type \cup {None}
<1> SUFFICES ASSUME NEW i \in 1 .. Len(f.rs) PROVE f.rs[i] \in Type \cup {None}
  OBVIOUS
<1>1. i \in 1 .. Len(Nodes[f.n].kids) /\ f.n \in NodeId
  BY ActivationType
<1>2. Nodes[Nodes[f.n].kids[i]].k \in ExprKind
  BY <1>1, KidKinds
<1> QED BY <1>2, ActivationType DEF Answer

\* An activation that has not all its answers has a child that is next.
LEMMA NextChild ==
  ASSUME NEW f, Activation(f), ~Complete(f)
  PROVE  /\ Len(f.rs) + 1 \in 1 .. Len(Nodes[f.n].kids)
         /\ Nodes[f.n].kids[Len(f.rs) + 1] \in NodeId
         /\ Nodes[Nodes[f.n].kids[Len(f.rs) + 1]].k \in ExprKind \cup StmtKind
<1>1. Len(f.rs) # Len(Nodes[f.n].kids)
  BY DEF Complete
<1>2. Len(f.rs) + 1 \in 1 .. Len(Nodes[f.n].kids) /\ f.n \in NodeId
  BY <1>1, ActivationType
<1> QED BY <1>2, KidKinds

FunctionsOK == /\ functions \in [Name -> [params: Seq(Type), ret: Type \cup {None}]]
               /\ FunctionsInv

\* A call without an error has a parameter for each argument, and a type.
LEMMA CalleeType ==
  ASSUME FunctionsOK, NEW nd, nd.name \in Name, nd.name # "print", CallError(nd) = <<>>
  PROVE  /\ functions[nd.name].params \in Seq(Type) /\ functions[nd.name].ret \in Type
         /\ Len(functions[nd.name].params) = Len(nd.kids)
BY DEF FunctionsOK, FunctionsInv, CallError

\* What a child is checked against is a type, or nothing.
LEMMA ExpectedType ==
  ASSUME FunctionsOK, NEW f, Activation(f), ~Complete(f)
  PROVE  Expected(f, Len(f.rs) + 1) \in Type \cup {None}
<1> DEFINE nd == Nodes[f.n]  i == Len(f.rs) + 1
<1>1. /\ i \in 1 .. Len(nd.kids) /\ f.n \in NodeId /\ f.exp \in Type \cup {None} /\ Len(f.rs) \in Nat
      /\ nd.name \in Name /\ nd.ty \in Type
  BY NextChild, ActivationType, NodeType
<1>2. CASE nd.k = "Assign" /\ i = 2 /\ ~BadTarget(nd)
  <2>1. f.rs[1] \in Type \cup {None}
    BY <1>1, <1>2, ExprAnswers DEF ExprKind
  <2> QED BY <1>2, <2>1 DEF Expected
<1>3. CASE nd.k = "Call" /\ nd.name # "print" /\ CallError(nd) = <<>>
  <2>1. functions[nd.name].params[i] \in Type
    BY <1>1, <1>3, CalleeType
  <2> QED BY <1>3, <2>1 DEF Expected
<1>4. CASE nd.k = "ArrayLiteral"
  <2>1. f.exp # None => IsArray(f.exp)
    BY <1>4 DEF Complete, GivesUp
  <2>2. f.exp # None => ElemOf(f.exp) \in Type
    BY <1>1, <2>1, ArrayTypes
  <2>3. i # 1 => f.rs[1] \in Type \cup {None}
    BY <1>1, <1>4, ExprAnswers DEF ExprKind
  <2> QED BY <1>4, <2>2, <2>3 DEF Expected
<1>5. CASE nd.k \in {"VarDecl", "Func", "Return"}
  BY <1>1, <1>5, BaseTypes DEF Expected
<1>6. CASE /\ nd.k \notin {"VarDecl", "Func", "Return", "ArrayLiteral"}
           /\ ~(nd.k = "Assign" /\ i = 2 /\ ~BadTarget(nd))
           /\ ~(nd.k = "Call" /\ nd.name # "print" /\ CallError(nd) = <<>>)
  <2>1. Expected(f, i) = IF Nodes[nd.kids[i]].k \in StmtKind THEN f.exp ELSE None
    BY <1>6 DEF Expected
  <2> QED BY <1>1, <2>1
<1> QED BY <1>2, <1>3, <1>4, <1>5, <1>6
(***************************************************************************)
(* The rules give types.                                                   *)
(***************************************************************************)
ScopesOK == scopes \in Seq([Name -> Symbol])

\* A name is unknown, or has a type and an id.
LEMMA ResolveType ==
  ASSUME ScopesOK, NEW x \in Name
  PROVE  /\ Resolve(x) \in Symbol
         /\ Resolve(x) # Unknown =>
              \E s \in 1 .. Len(scopes) : Resolve(x) = scopes[s][x] /\ scopes[s][x] # Unknown
<1> DEFINE found == {s \in DOMAIN scopes : scopes[s][x] # Unknown}
<1>1. CASE found = {}
  BY <1>1 DEF Resolve, Symbol
<1>2. CASE found # {}
  <2>1. DOMAIN scopes = 1 .. Len(scopes) /\ Len(scopes) \in Nat
    BY DEF ScopesOK
  <2>2. \E s \in found : \A s2 \in found : s2 <= s
    BY <1>2, <2>1, Greatest
  <2> DEFINE last == CHOOSE s \in found : \A s2 \in found : s2 <= s
  <2>3. last \in found
    BY <2>2
  <2>4. Resolve(x) = scopes[last][x]
    BY <1>2 DEF Resolve
  <2> HIDE DEF last
  <2>5. scopes[last][x] # Unknown /\ last \in 1 .. Len(scopes)
    BY <2>1, <2>3
  <2>6. scopes[last][x] \in Symbol
    BY <2>5 DEF ScopesOK
  <2> QED BY <2>4, <2>5, <2>6
<1> QED BY <1>1, <1>2

LEMMA SymbolType ==
  ASSUME NEW s \in Symbol
  PROVE  /\ s.ty \in Type \cup {None}
         /\ s = Unknown <=> s.ty = None
         /\ s # Unknown => s.id \in Nat
BY BaseTypes DEF Symbol, Unknown

LEMMA CombineType ==
  ASSUME NEW op, NEW l \in Type, NEW r \in Type
  PROVE  CombineBinaryTypes(op, l, r) \in Type \cup {None}
BY BaseTypes DEF CombineBinaryTypes

\* What the rule says of an expression is a type, or None.
LEMMA RuleType ==
  ASSUME FunctionsOK, ScopesOK, NEW f, Activation(f), Nodes[f.n].k \in ExprKind, Complete(f)
  PROVE  TypeFrom(f) \in Type \cup {None}
<1> DEFINE nd == Nodes[f.n]  rs == f.rs
<1>1. /\ f.n \in NodeId /\ f.exp \in Type \cup {None} /\ Len(f.rs) \in Nat /\ nd.name \in Name
      /\ nd.ty \in Type /\ DOMAIN rs = 1 .. Len(rs)
  BY ActivationType, NodeType
<1>2. \A i \in 1 .. Len(rs) : rs[i] \in Type \cup {None}
  BY ExprAnswers
<1>3. nd.k \in {"Unary", "IncDec", "FieldAccess", "ArrayCreation", "Binary", "Index", "Ternary"} =>
        Len(rs) = Len(nd.kids)
  BY DEF Complete, GivesUp
<1>4. CASE BadTarget(nd)
  BY <1>4 DEF TypeFrom
<1>5. CASE ~BadTarget(nd)
  <2>1. CASE nd.k = "Ident"
    <3>1. TypeFrom(f) = Resolve(nd.name).ty
      BY <1>5, <2>1 DEF TypeFrom
    <3> QED BY <1>1, <3>1, ResolveType, SymbolType
  <2>2. CASE nd.k = "Assign"
    <3>1. TypeFrom(f) = IF Len(rs) = 2 THEN rs[2] ELSE None
      BY <1>5, <2>2 DEF TypeFrom
    <3> QED BY <1>2, <3>1
  <2>3. CASE nd.k \in {"Binary", "CompoundAssign"}
    <3>1. TypeFrom(f) = IF Len(rs) = 2 /\ ~AnyOf(rs, None) THEN CombineBinaryTypes(nd.op, rs[1], rs[2]) ELSE None
      BY <1>5, <2>3 DEF TypeFrom
    <3>2. Len(rs) = 2 /\ ~AnyOf(rs, None) => rs[1] \in Type /\ rs[2] \in Type
      BY <1>1, <1>2 DEF AnyOf
    <3> QED BY <3>1, <3>2, CombineType
  <2>4. CASE nd.k = "IncDec"
    BY <1>5, <2>4, BaseTypes DEF TypeFrom
  <2>5. CASE nd.k = "Unary"
    <3>1. TypeFrom(f) = IF rs[1] \in UnaryAccepts(nd.op) THEN rs[1] ELSE None
      BY <1>5, <2>5 DEF TypeFrom
    <3> QED BY <3>1, BaseTypes DEF UnaryAccepts
  <2>6. CASE nd.k = "Ternary"
    <3>1. TypeFrom(f) = IF rs[2] = rs[3] /\ rs[2] # TVoid THEN rs[2] ELSE None
      BY <1>5, <2>6 DEF TypeFrom
    <3>2. Len(rs) = 3
      BY <1>1, <1>3, <2>6, KidCounts
    <3> QED BY <1>2, <3>1, <3>2
  <2>7. CASE nd.k = "Call"
    <3>1. TypeFrom(f) = CallType(f, nd)
      BY <1>5, <2>7 DEF TypeFrom
    <3> QED BY <1>1, <3>1, CalleeType, BaseTypes DEF CallType
  <2>8. CASE nd.k = "Index"
    <3>1. TypeFrom(f) = IF IsArray(rs[1]) /\ rs[2] = TInt THEN ElemOf(rs[1]) ELSE None
      BY <1>5, <2>8 DEF TypeFrom
    <3>2. Len(rs) = 2
      BY <1>1, <1>3, <2>8, KidCounts
    <3>3. IsArray(rs[1]) => ElemOf(rs[1]) \in Type
      BY <1>2, <3>2, ArrayTypes, NoneIsNoArray
    <3> QED BY <3>1, <3>3
  <2>9. CASE nd.k = "FieldAccess"
    <3>1. TypeFrom(f) = IF nd.name = "length" /\ (IsArray(rs[1]) \/ rs[1] = TStr) THEN TInt ELSE None
      BY <1>5, <2>9 DEF TypeFrom
    <3> QED BY <3>1, BaseTypes
  <2>10. CASE nd.k = "ArrayLiteral"
    <3>1. TypeFrom(f) = ArrayLiteralType(f, nd)
      BY <1>5, <2>10 DEF TypeFrom
    <3>2. ~AnyOf(rs, None) /\ f.exp = None /\ nd.kids # <<>> => ArrayOf(rs[1]) \in Type
      <4> SUFFICES ASSUME ~AnyOf(rs, None), f.exp = None, nd.kids # <<>> PROVE ArrayOf(rs[1]) \in Type
        OBVIOUS
      <4>1. Len(rs) = Len(nd.kids)
        BY <1>1, <2>10 DEF Complete, GivesUp, AnyOf
      <4>2. Len(nd.kids) \in Nat \ {0}
        BY <1>1, NodeType
      <4>3. rs[1] \in Type
        BY <1>1, <1>2, <4>1, <4>2 DEF AnyOf
      <4> QED BY <4>3, ArrayTypes
    <3> QED BY <1>1, <3>1, <3>2 DEF ArrayLiteralType
  <2>11. CASE nd.k = "ArrayCreation"
    <3>1. TypeFrom(f) = IF rs[1] = TInt THEN ArrayOf(nd.ty) ELSE None
      BY <1>5, <2>11 DEF TypeFrom
    <3> QED BY <1>1, <3>1, ArrayTypes
  <2>12. CASE nd.k \in {"IntLiteral", "FloatLiteral", "BoolLiteral", "StringLiteral", "Null"}
    <3>1. TypeFrom(f) = LiteralType(nd.k)
      BY <1>5, <2>12 DEF TypeFrom
    <3> QED BY <3>1, BaseTypes DEF LiteralType
  <2> QED BY <2>1, <2>2, <2>3, <2>4, <2>5, <2>6, <2>7, <2>8, <2>9, <2>10, <2>11, <2>12 DEF ExprKind
<1> QED BY <1>4, <1>5

LEMMA AgainstType ==
  ASSUME NEW f, NEW t PROVE Against(f, t) \in {t, None}
BY DEF Against
(***************************************************************************)
(* The three things a step does to the activations.                        *)
(***************************************************************************)
\* A caller that is answered has one more answer.
LEMMA Answered ==
  ASSUME TypeInv, calls # <<>>, NEW r, calls' = Popped(r)
  PROVE  /\ Len(calls) \in Nat \ {0} /\ Len(calls') = Len(calls) - 1
         /\ calls' = [j \in 1 .. Len(calls) - 1 |-> calls'[j]]
         /\ \A j \in 1 .. Len(calls) - 2 : calls'[j] = calls[j]
         /\ Len(calls) > 1 => /\ calls'[Len(calls) - 1].n = calls[Len(calls) - 1].n
                              /\ calls'[Len(calls) - 1].exp = calls[Len(calls) - 1].exp
                              /\ calls'[Len(calls) - 1].owned = calls[Len(calls) - 1].owned
                              /\ calls'[Len(calls) - 1].rs = Append(calls[Len(calls) - 1].rs, r)
         /\ Len(calls) > 1 =>
              LET f == calls[Len(calls) - 1]
              IN  calls'[Len(calls) - 1] = [n |-> f.n, exp |-> f.exp, owned |-> f.owned, rs |-> Append(f.rs, r)]
<1>1. calls \in Seq(Frames) /\ Len(calls) \in Nat \ {0}
  BY TypeParts
<1> DEFINE k == Len(calls) - 1
           g(j) == IF j = k THEN [calls[j] EXCEPT !.rs = Append(@, r)] ELSE calls[j]
<1>2. calls' = [j \in 1 .. k |-> g(j)]
  BY DEF Popped
<1>3. ASSUME Len(calls) > 1
      PROVE  LET f == calls[k]
             IN  g(k) = [n |-> f.n, exp |-> f.exp, owned |-> f.owned, rs |-> Append(f.rs, r)]
  <2>1. calls[k] \in Frames
    BY <1>1, <1>3
  <2> QED BY <2>1 DEF Frames
<1>4. \A j \in 1 .. Len(calls) - 2 : g(j) = calls[j]
  BY <1>1
<1> HIDE DEF g
<1>5. Len(calls') = k /\ \A j \in 1 .. k : calls'[j] = g(j)
  BY <1>1, <1>2
<1> QED BY <1>1, <1>2, <1>3, <1>4, <1>5

LEMMA SameAwaits ==
  ASSUME functions' = functions, NEW f, NEW g PROVE Awaits(f, g)' <=> Awaits(f, g)
BY DEF Awaits, Expected, CallError

LEMMA PopStep ==
  ASSUME TypeInv, calls # <<>>, NEW r, r \in Answer(Top.n), calls' = Popped(r), functions' = functions
  PROVE  calls' \in Seq(Frames) /\ CallsInv'
<1> DEFINE k == Len(calls) - 1
<1>1. /\ Len(calls) \in Nat \ {0} /\ Len(calls') = k
      /\ \A j \in 1 .. k - 1 : calls'[j] = calls[j]
      /\ calls' = [j \in 1 .. k |-> calls'[j]]
  <2>1. /\ Len(calls) \in Nat \ {0} /\ Len(calls') = k /\ calls' = [j \in 1 .. k |-> calls'[j]]
        /\ \A j \in 1 .. Len(calls) - 2 : calls'[j] = calls[j]
    BY Answered
  <2>2. \A j \in 1 .. k - 1 : j \in 1 .. Len(calls) - 2
    BY <2>1
  <2> QED BY <2>1, <2>2
<1>2. \A j \in 1 .. Len(calls) : Activation(calls[j])
  BY DEF TypeInv, CallsInv
<1>3. \A j \in 1 .. Len(calls) - 1 : Awaits(calls[j], calls[j + 1])
  BY DEF TypeInv, CallsInv
<1>4. CASE k = 0
  <2> DEFINE g(j) == calls'[j]
  <2>1. \A j \in 1 .. k : g(j) \in Frames
    BY <1>4
  <2> HIDE DEF g
  <2>2. [j \in 1 .. k |-> g(j)] \in Seq(Frames)
    BY <1>1, <2>1, IsASeq
  <2>3. calls' \in Seq(Frames)
    BY <1>1, <2>2 DEF g
  <2>4. Len(calls') = 0
    BY <1>1, <1>4
  <2>5. /\ \A j \in 1 .. Len(calls') : FALSE
        /\ \A j \in 1 .. Len(calls') - 1 : FALSE
    BY <2>4
  <2>6. CallsInv'
    BY <2>5 DEF CallsInv
  <2> QED BY <2>3, <2>6
<1>5. CASE k > 0
  <2> DEFINE f == calls[k]  nd == Nodes[f.n]  m == Len(f.rs)
             f2 == [n |-> f.n, exp |-> f.exp, owned |-> f.owned, rs |-> Append(f.rs, r)]
  <2>1. calls'[k] = f2
    BY <1>1, <1>5, Answered
  <2>2. Activation(f) /\ Awaits(f, Top)
    BY <1>1, <1>2, <1>3, <1>5 DEF Top
  <2>3. /\ f \in Frames /\ f.rs \in Seq(Result) /\ m \in Nat /\ f.n \in NodeId
        /\ f.exp \in Type \cup {None} /\ f.owned \in Nat
        /\ m + 1 <= Len(nd.kids) /\ Top.n = nd.kids[m + 1]
    BY <2>2, ActivationType DEF Awaits
  <2>4. r \in Result
    BY DEF Answer, Result
  <2>5. /\ Append(f.rs, r) \in Seq(Result) /\ Len(Append(f.rs, r)) = m + 1
        /\ \A i \in 1 .. m : Append(f.rs, r)[i] = f.rs[i]
        /\ Append(f.rs, r)[m + 1] = r
    BY <2>3, <2>4, AppendProperties
  <2>6. Activation(f2)
    <3>1. f2 \in Frames
      BY <2>3, <2>5 DEF Frames
    <3>2. \A i \in 1 .. m + 1 : Append(f.rs, r)[i] \in Answer(nd.kids[i])
      <4> SUFFICES ASSUME NEW i \in 1 .. m + 1 PROVE Append(f.rs, r)[i] \in Answer(nd.kids[i])
        OBVIOUS
      <4>1. CASE i \in 1 .. m
        BY <2>2, <2>5, <4>1 DEF Activation
      <4>2. CASE i = m + 1
        BY <2>3, <2>5, <4>2
      <4> QED BY <2>3, <4>1, <4>2
    <3> QED BY <2>2, <2>3, <2>5, <3>1, <3>2 DEF Activation
  <2> HIDE DEF f2
  <2>7. \A j \in 1 .. k : Activation(calls'[j])
    <3> SUFFICES ASSUME NEW j \in 1 .. k PROVE Activation(calls'[j])
      OBVIOUS
    <3>1. CASE j = k
      BY <2>1, <2>6, <3>1
    <3>2. CASE j # k
      BY <1>1, <1>2, <3>2
    <3> QED BY <3>1, <3>2
  <2>8. \A j \in 1 .. k : calls'[j] \in Frames
    BY <2>7 DEF Activation
  <2>9. calls' \in Seq(Frames)
    <3> DEFINE g(j) == calls'[j]
    <3>1. \A j \in 1 .. k : g(j) \in Frames
      BY <2>8
    <3> HIDE DEF g
    <3>2. [j \in 1 .. k |-> g(j)] \in Seq(Frames)
      BY <1>1, <3>1, IsASeq
    <3> QED BY <1>1, <3>2 DEF g
  <2>10. \A j \in 1 .. k - 1 : Awaits(calls'[j], calls'[j + 1])
    <3> SUFFICES ASSUME NEW j \in 1 .. k - 1 PROVE Awaits(calls'[j], calls'[j + 1])
      OBVIOUS
    <3>1. calls'[j] = calls[j] /\ Awaits(calls[j], calls[j + 1])
      BY <1>1, <1>3
    <3>2. calls'[j + 1].n = calls[j + 1].n /\ calls'[j + 1].exp = calls[j + 1].exp /\ calls'[j + 1].owned = calls[j + 1].owned
      <4>1. CASE j + 1 = k
        BY <2>1, <4>1 DEF f2
      <4>2. CASE j + 1 # k
        BY <1>1, <4>2
      <4> QED BY <4>1, <4>2
    <3> QED BY <3>1, <3>2 DEF Awaits
  <2> QED BY <1>1, <2>7, <2>9, <2>10, SameAwaits DEF CallsInv
<1> QED BY <1>1, <1>4, <1>5
\* An activation is entered for the next child of the innermost one.
LEMMA PushStep ==
  ASSUME TypeInv, calls # <<>>, NEW g, Activation(g), Awaits(Top, g),
         calls' = Append(calls, g), functions' = functions
  PROVE  calls' \in Seq(Frames) /\ CallsInv'
<1>1. calls \in Seq(Frames) /\ Len(calls) \in Nat \ {0} /\ g \in Frames /\ Top = calls[Len(calls)]
  BY TypeParts, TopType, ActivationType
<1>2. /\ calls' \in Seq(Frames) /\ Len(calls') = Len(calls) + 1
      /\ \A j \in 1 .. Len(calls) : calls'[j] = calls[j]
      /\ calls'[Len(calls) + 1] = g
  BY <1>1, AppendProperties
<1>3. \A j \in 1 .. Len(calls') : Activation(calls'[j])
  BY <1>1, <1>2 DEF TypeInv, CallsInv
<1>4. \A j \in 1 .. Len(calls') - 1 : Awaits(calls'[j], calls'[j + 1])
  <2> SUFFICES ASSUME NEW j \in 1 .. Len(calls') - 1 PROVE Awaits(calls'[j], calls'[j + 1])
    OBVIOUS
  <2>1. CASE j = Len(calls)
    BY <1>1, <1>2, <2>1
  <2>2. CASE j # Len(calls)
    <3>1. j \in 1 .. Len(calls) - 1
      BY <1>1, <1>2, <2>2
    <3>2. Awaits(calls[j], calls[j + 1])
      BY <3>1 DEF TypeInv, CallsInv
    <3> QED BY <1>1, <1>2, <3>1, <3>2
  <2> QED BY <2>1, <2>2
<1> QED BY <1>2, <1>3, <1>4, SameAwaits DEF CallsInv

\* The first activation is one of a declaration.
LEMMA BeginStep ==
  ASSUME NEW g, Activation(g), calls' = <<g>>
  PROVE  calls' \in Seq(Frames) /\ CallsInv' /\ calls' # <<>> /\ Len(calls') = 1 /\ calls'[1] = g
<1>1. g \in Frames
  BY DEF Activation
<1>2. calls' \in Seq(Frames) /\ Len(calls') = 1 /\ calls'[1] = g
  BY <1>1
<1>3. (\A j \in 1 .. Len(calls') : Activation(calls'[j])) /\ (\A j \in 1 .. Len(calls') - 1 : FALSE)
  BY <1>2
<1>4. CallsInv'
  BY <1>3 DEF CallsInv
<1> QED BY <1>2, <1>4

\* The scopes grow and shrink with the activations.
LEMMA HeightsPush ==
  ASSUME TypeInv, NEW g, g \in Frames, calls' = Append(calls, g), Len(scopes') = Len(scopes) + g.owned
  PROVE  ScopesInv'
<1>1. calls \in Seq(Frames) /\ Len(calls) \in Nat /\ Len(scopes) \in Nat /\ g.owned \in Nat
  BY TypeParts DEF Frames
<1>2. PICK h : Heights(h)
  BY DEF TypeInv, ScopesInv
<1> DEFINE k == Len(calls)
<1>h. PICK h2 : h2 = [j \in 1 .. k + 2 |-> IF j = k + 2 THEN Len(scopes) + g.owned ELSE h[j]]
  OBVIOUS
<1>3. /\ Len(calls') = k + 1 /\ \A j \in 1 .. k : calls'[j] = calls[j]
      /\ calls'[k + 1] = g
  BY <1>1, AppendProperties
<1>4. /\ h \in [1 .. k + 1 -> Nat \ {0}] /\ h[1] = 1 /\ Len(scopes) = h[k + 1]
      /\ \A j \in 1 .. k : h[j + 1] = h[j] + calls[j].owned
  BY <1>2 DEF Heights
<1>5. h2 \in [1 .. k + 2 -> Nat \ {0}] /\ h2[1] = 1 /\ Len(scopes') = h2[k + 2]
  BY <1>h, <1>1, <1>4
<1>6. \A j \in 1 .. k + 1 : h2[j + 1] = h2[j] + calls'[j].owned
  <2> SUFFICES ASSUME NEW j \in 1 .. k + 1 PROVE h2[j + 1] = h2[j] + calls'[j].owned
    OBVIOUS
  <2>1. CASE j = k + 1
    BY <1>h, <1>1, <1>3, <1>4, <2>1
  <2>2. CASE j # k + 1
    BY <1>h, <1>1, <1>3, <1>4, <2>2
  <2> QED BY <2>1, <2>2
<1>7. Heights(h2)'
  <2>1. Len(calls') + 1 = k + 2 /\ Len(calls') = k + 1
    BY <1>1, <1>3
  <2>2. h2 \in [1 .. Len(calls') + 1 -> Nat \ {0}] /\ Len(scopes') = h2[Len(calls') + 1]
    BY <1>5, <2>1
  <2>3. \A j \in 1 .. Len(calls') : h2[j + 1] = h2[j] + calls'[j].owned
    BY <1>6, <2>1
  <2> QED BY <1>5, <2>2, <2>3 DEF Heights
<1> QED BY <1>7 DEF ScopesInv

LEMMA HeightsPop ==
  ASSUME TypeInv, calls # <<>>, NEW r, calls' = Popped(r), Len(scopes') = Len(scopes) - Top.owned
  PROVE  /\ ScopesInv' /\ Top.owned \in Nat /\ Len(scopes) - Top.owned \in Nat \ {0}
         /\ Len(calls) = 2 => Len(scopes) = 1 + calls[1].owned + Top.owned
<1>1. calls \in Seq(Frames) /\ Len(calls) \in Nat \ {0} /\ Top = calls[Len(calls)]
  BY TypeParts, TopType
<1>2. PICK h : Heights(h)
  BY DEF TypeInv, ScopesInv
<1> DEFINE k == Len(calls) - 1
<1>h. PICK h2 : h2 = [j \in 1 .. k + 1 |-> h[j]]
  OBVIOUS
<1>3. /\ Len(calls') = k /\ k \in Nat /\ \A j \in 1 .. k : calls'[j].owned = calls[j].owned
  <2>1. /\ Len(calls') = k /\ \A j \in 1 .. Len(calls) - 2 : calls'[j] = calls[j]
        /\ Len(calls) > 1 => calls'[Len(calls) - 1].owned = calls[Len(calls) - 1].owned
    <3> HIDE DEF k
    <3>1. Len(calls') = Len(calls) - 1 /\ \A j \in 1 .. Len(calls) - 2 : calls'[j] = calls[j]
      BY Answered
    <3>2. ASSUME Len(calls) > 1 PROVE calls'[Len(calls) - 1].owned = calls[Len(calls) - 1].owned
      BY <3>2, Answered
    <3> QED BY <3>1, <3>2 DEF k
  <2>2. \A j \in 1 .. k : j \in 1 .. Len(calls) - 2 \/ (j = Len(calls) - 1 /\ Len(calls) > 1)
    BY <1>1
  <2> QED BY <1>1, <2>1, <2>2
<1>4. /\ h \in [1 .. k + 2 -> Nat \ {0}] /\ h[1] = 1 /\ Len(scopes) = h[k + 2]
      /\ \A j \in 1 .. k + 1 : h[j + 1] = h[j] + calls[j].owned
  <2>1. Len(calls) + 1 = k + 2 /\ Len(calls) = k + 1
    BY <1>1
  <2> QED BY <1>2, <2>1 DEF Heights
<1>5. Top.owned \in Nat /\ Len(scopes) = h[k + 1] + Top.owned /\ h[k + 1] \in Nat \ {0}
  <2>1. Top \in Frames
    BY TopType
  <2>2. k + 1 \in 1 .. k + 1 /\ Len(calls) = k + 1
    BY <1>1
  <2> QED BY <1>1, <1>3, <1>4, <2>1, <2>2 DEF Frames
<1>6. h2 \in [1 .. k + 1 -> Nat \ {0}] /\ h2[1] = 1 /\ Len(scopes') = h2[k + 1]
  BY <1>h, <1>3, <1>4, <1>5
<1>7. \A j \in 1 .. k : h2[j + 1] = h2[j] + calls'[j].owned
  BY <1>h, <1>3, <1>4
<1>8. Heights(h2)'
  <2>1. h2 \in [1 .. Len(calls') + 1 -> Nat \ {0}] /\ Len(scopes') = h2[Len(calls') + 1]
    BY <1>3, <1>6
  <2>2. \A j \in 1 .. Len(calls') : h2[j + 1] = h2[j] + calls'[j].owned
    BY <1>3, <1>7
  <2> QED BY <1>6, <2>1, <2>2 DEF Heights
<1>9. Len(calls) = 2 => Len(scopes) = 1 + calls[1].owned + Top.owned
  BY <1>3, <1>4, <1>5
<1> QED BY <1>5, <1>8, <1>9 DEF ScopesInv
(***************************************************************************)
(* What is reported are errors.                                            *)
(***************************************************************************)
Errors == Seq([k: ErrorKind, n: NodeId \cup {0}])

LEMMA SaidType == ASSUME NEW c, NEW e \in ErrorKind PROVE Said(c, e) \in Seq(ErrorKind)
BY DEF Said

LEMMA SaidTypes ==
  \A c : /\ Said(c, "InvalidAssignTarget") \in Seq(ErrorKind)
         /\ Said(c, "UndeclaredIdentifier") \in Seq(ErrorKind)
         /\ Said(c, "TypeMismatch") \in Seq(ErrorKind)
         /\ Said(c, "UnknownField") \in Seq(ErrorKind)
         /\ Said(c, "NotIndexable") \in Seq(ErrorKind)
         /\ Said(c, "DuplicateDeclaration") \in Seq(ErrorKind)
         /\ Said(c, "MissingReturn") \in Seq(ErrorKind)
         /\ Said(c, "NonBoolCondition") \in Seq(ErrorKind)
BY SaidType DEF ErrorKind

LEMMA CallErrorType == ASSUME NEW nd PROVE CallError(nd) \in Seq(ErrorKind)
<1>1. CallError(nd) = <<>> \/ CallError(nd) = <<"UndeclaredFunction">> \/ CallError(nd) = <<"ArityMismatch">>
  BY Zenon DEF CallError
<1>2. "UndeclaredFunction" \in ErrorKind /\ "ArityMismatch" \in ErrorKind
  BY DEF ErrorKind
<1>3. <<>> \in Seq(ErrorKind) /\ <<"UndeclaredFunction">> \in Seq(ErrorKind) /\ <<"ArityMismatch">> \in Seq(ErrorKind)
  BY <1>2
<1> QED BY <1>1, <1>3, Zenon

LEMMA ReportExprType == ASSUME NEW f PROVE ReportExpr(f, Nodes[f.n]) \in Seq(ErrorKind)
<1> DEFINE nd == Nodes[f.n]
<1>2. CASE BadTarget(nd)
  BY SaidTypes, <1>2 DEF ReportExpr
<1>3. CASE ~BadTarget(nd)
  <2>1. CASE nd.k = "Ident"
    BY SaidTypes, <1>3, <2>1 DEF ReportExpr
  <2>2. CASE nd.k = "Call"
    <3>1. ReportExpr(f, nd) = IF f.rs = <<>> THEN CallError(nd) ELSE <<>>
      BY <1>3, <2>2 DEF ReportExpr
    <3> QED BY <3>1, CallErrorType
  <2>3. CASE nd.k \in {"Binary", "Unary", "IncDec", "CompoundAssign", "ArrayCreation"}
    <3>1. ReportExpr(f, nd) = Said(NoRule(f, 1), "TypeMismatch")
      BY <1>3, <2>3 DEF ReportExpr
    <3> QED BY SaidTypes, <3>1
  <2>4. CASE nd.k = "Ternary"
    <3>1. ReportExpr(f, nd) = Said(Len(f.rs) = 3 /\ NoRule(f, 2), "TypeMismatch")
      BY <1>3, <2>4 DEF ReportExpr
    <3> QED BY SaidTypes, <3>1
  <2>5. CASE nd.k = "FieldAccess"
    <3>1. ReportExpr(f, nd) = Said(NoRule(f, 1), "UnknownField")
      BY <1>3, <2>5 DEF ReportExpr
    <3> QED BY SaidTypes, <3>1
  <2>6. CASE nd.k = "ArrayLiteral"
    <3>1. ReportExpr(f, nd) = Said(IF f.exp = None THEN nd.kids = <<>> ELSE ~IsArray(f.exp), "TypeMismatch")
      BY <1>3, <2>6 DEF ReportExpr
    <3> QED BY SaidTypes, <3>1
  <2>7. CASE nd.k = "Index" /\ Len(f.rs) = 2
    <3>1. ReportExpr(f, nd) = Said(f.rs[1] # None /\ ~IsArray(f.rs[1]), "NotIndexable")
                              \o Said(f.rs[2] \notin {None, TInt}, "TypeMismatch")
      BY <1>3, <2>7 DEF ReportExpr
    <3> QED BY SaidTypes, <3>1
  <2>8. CASE nd.k \notin {"Ident", "Call", "Binary", "Unary", "IncDec", "CompoundAssign",
                          "ArrayCreation", "Ternary", "FieldAccess", "ArrayLiteral"}
             /\ ~(nd.k = "Index" /\ Len(f.rs) = 2)
    BY <1>3, <2>8 DEF ReportExpr
  <2> QED BY <2>1, <2>2, <2>3, <2>4, <2>5, <2>6, <2>7, <2>8
<1> QED BY <1>2, <1>3

LEMMA ReportType == ASSUME NEW f PROVE Report(f) \in Seq(ErrorKind)
<1> DEFINE nd == Nodes[f.n]
<1>2. ReportExpr(f, nd) \in Seq(ErrorKind)
  BY ReportExprType
<1>3. ReportStmt(f, nd) \in Seq(ErrorKind)
  <2>1. CASE nd.k = "VarDecl"
    <3>1. ReportStmt(f, nd) = Said(f.rs = <<>> /\ Scope[nd.name] # Unknown, "DuplicateDeclaration")
      BY <2>1 DEF ReportStmt
    <3> QED BY SaidTypes, <3>1
  <2>2. CASE nd.k = "Return"
    <3>1. ReportStmt(f, nd) = Said(Complete(f) /\ (nd.kids = <<>>) # (f.exp = TVoid), "TypeMismatch")
      BY <2>2 DEF ReportStmt
    <3> QED BY SaidTypes, <3>1
  <2>3. CASE nd.k = "Func"
    <3>1. ReportStmt(f, nd) = Said(Complete(f) /\ nd.ty # TVoid /\ ~ReturnsOnAllPaths(f), "MissingReturn")
      BY <2>3 DEF ReportStmt
    <3> QED BY SaidTypes, <3>1
  <2>4. CASE nd.k \notin {"VarDecl", "Return", "Func"}
    BY <2>4 DEF ReportStmt
  <2> QED BY <2>1, <2>2, <2>3, <2>4
<1> DEFINE middle == IF nd.k \in ExprKind THEN ReportExpr(f, nd) ELSE ReportStmt(f, nd)
<1>4. middle \in Seq(ErrorKind)
  BY <1>2, <1>3
<1>5. PICK b, c : Report(f) = Said(b, "NonBoolCondition") \o middle \o Said(c, "TypeMismatch")
  BY Zenon DEF Report
<1> HIDE DEF middle
<1> QED BY SaidTypes, <1>4, <1>5

LEMMA LogType ==
  ASSUME errors \in Errors, NEW n \in NodeId \cup {0}, NEW kinds \in Seq(ErrorKind), Log(n, kinds)
  PROVE  /\ errors' \in Errors
         /\ errors' = <<>> => errors = <<>> /\ kinds = <<>>
         /\ kinds = <<>> => errors' = errors
<1> DEFINE E == [k: ErrorKind, n: NodeId \cup {0}]
           e(i) == [k |-> kinds[i], n |-> n]
           more == [i \in 1 .. Len(kinds) |-> e(i)]
<1>1. \A i \in 1 .. Len(kinds) : e(i) \in E
  OBVIOUS
<1> HIDE DEF e
<1>2. Len(kinds) \in Nat /\ DOMAIN kinds = 1 .. Len(kinds)
  OBVIOUS
<1>3. more \in Seq(E)
  BY <1>1, <1>2, IsASeq
<1>4. Len(more) = Len(kinds)
  BY <1>2
<1>5. errors' = errors \o more
  BY <1>2 DEF Log, e
<1> HIDE DEF more, E
<1>6. errors \in Seq(E)
  BY DEF Errors, E
<1>7. errors \o more \in Seq(E) /\ Len(errors \o more) = Len(errors) + Len(more)
  BY <1>3, <1>6, ConcatProperties
<1>8. errors' = <<>> => Len(errors) = 0 /\ Len(more) = 0
  BY <1>3, <1>5, <1>6, <1>7
<1>9. kinds = <<>> => more = <<>>
  BY <1>3, <1>4
<1> QED BY <1>3, <1>4, <1>5, <1>6, <1>7, <1>8, <1>9 DEF Errors, E
(***************************************************************************)
(* Type correctness, action by action.                                     *)
(***************************************************************************)
LEMMA TypeOKParts ==
  ASSUME TypeOK
  PROVE  /\ prog \in Programs /\ pass \in 1 .. 3 /\ item \in 1 .. Len(prog) + 1
         /\ calls \in Seq(Frames) /\ scopes \in Seq([Name -> Symbol]) /\ scopes # <<>>
         /\ functions \in [Name -> [params: Seq(Type), ret: Type \cup {None}]]
         /\ declared \in Seq(NodeId)
         /\ DOMAIN types \subseteq NodeId /\ types \in [DOMAIN types -> Type]
         /\ DOMAIN var_refs \subseteq NodeId /\ var_refs \in [DOMAIN var_refs -> Nat]
         /\ errors \in Errors
BY DEF TypeOK, Errors

LEMMA Okays == ASSUME TypeInv PROVE FunctionsOK /\ ScopesOK
BY TypeParts DEF TypeInv, FunctionsOK, ScopesOK

\* The scopes that a child opens hold no name.
LEMMA OpenedScopes ==
  ASSUME NEW k \in Nat, NEW ss \in Seq([Name -> Symbol])
  PROVE  /\ ss \o [s \in 1 .. k |-> NoNames] \in Seq([Name -> Symbol])
         /\ Len(ss \o [s \in 1 .. k |-> NoNames]) = Len(ss) + k
         /\ \A s \in 1 .. Len(ss) : (ss \o [s2 \in 1 .. k |-> NoNames])[s] = ss[s]
         /\ \A s \in Len(ss) + 1 .. Len(ss) + k : (ss \o [s2 \in 1 .. k |-> NoNames])[s] = NoNames
<1> DEFINE new == [s \in 1 .. k |-> NoNames]
<1>1. NoNames \in [Name -> Symbol]
  BY DEF NoNames, Symbol
<1>2. new \in Seq([Name -> Symbol]) /\ Len(new) = k /\ \A s \in 1 .. k : new[s] = NoNames
  BY <1>1
<1> HIDE DEF new
<1>3. /\ ss \o new \in Seq([Name -> Symbol]) /\ Len(ss \o new) = Len(ss) + Len(new)
      /\ \A i \in 1 .. Len(ss) + Len(new) : (ss \o new)[i] = IF i <= Len(ss) THEN ss[i] ELSE new[i - Len(ss)]
  BY <1>2, ConcatProperties
<1>4. Len(ss) \in Nat
  OBVIOUS
<1>5. \A s \in 1 .. Len(ss) : (ss \o new)[s] = ss[s]
  BY <1>2, <1>3, <1>4
<1>6. \A s \in Len(ss) + 1 .. Len(ss) + k : (ss \o new)[s] = NoNames
  <2> SUFFICES ASSUME NEW s \in Len(ss) + 1 .. Len(ss) + k PROVE (ss \o new)[s] = NoNames
    OBVIOUS
  <2>1. s \in 1 .. Len(ss) + Len(new) /\ ~(s <= Len(ss)) /\ s - Len(ss) \in 1 .. k
    BY <1>2, <1>4
  <2> QED BY <1>2, <1>3, <2>1
<1> QED BY <1>2, <1>3, <1>5, <1>6 DEF new

LEMMA OpenedType == ASSUME NEW nd, NEW i PROVE Opened(nd, i) \in Nat
BY DEF Opened

\* The activation of a child.
LEMMA ChildActivation ==
  ASSUME TypeInv, calls # <<>>, ~Complete(Top)
  PROVE  LET g == Frame(Here.kids[Done + 1], Expected(Top, Done + 1), Opened(Here, Done + 1))
         IN  Activation(g) /\ Awaits(Top, g) /\ g.owned = Opened(Here, Done + 1) /\ g.rs = <<>>
                /\ g.n = Here.kids[Done + 1]
<1> DEFINE g == Frame(Here.kids[Done + 1], Expected(Top, Done + 1), Opened(Here, Done + 1))
<1>1. Activation(Top) /\ Here = Nodes[Top.n] /\ Done = Len(Top.rs) /\ Done \in Nat
  BY TopType
<1>2. /\ Done + 1 \in 1 .. Len(Here.kids) /\ Here.kids[Done + 1] \in NodeId
      /\ Nodes[Here.kids[Done + 1]].k \in ExprKind \cup StmtKind
  BY <1>1, NextChild
<1>3. Expected(Top, Done + 1) \in Type \cup {None}
  BY <1>1, Okays, ExpectedType
<1>4. Opened(Here, Done + 1) \in Nat
  BY OpenedType
<1>5. g = [n |-> Here.kids[Done + 1], exp |-> Expected(Top, Done + 1), owned |-> Opened(Here, Done + 1), rs |-> <<>>]
  BY DEF Frame
<1>6. g \in Frames /\ g.n = Here.kids[Done + 1] /\ g.rs = <<>> /\ g.exp = Expected(Top, Done + 1)
      /\ g.owned = Opened(Here, Done + 1)
  <2> DEFINE n == Here.kids[Done + 1]  e == Expected(Top, Done + 1)  o == Opened(Here, Done + 1)
  <2>1. n \in NodeId /\ e \in Type \cup {None} /\ o \in Nat
    BY <1>2, <1>3, <1>4
  <2> HIDE DEF n, e, o
  <2>2. [n |-> n, exp |-> e, owned |-> o, rs |-> <<>>] \in Frames
    BY <2>1 DEF Frames
  <2> QED BY <1>5, <2>2 DEF n, e, o
<1> HIDE DEF g
<1>7. Len(Nodes[g.n].kids) \in Nat /\ Len(g.rs) = 0
  BY <1>2, <1>6, NodeType
<1>8. Activation(g)
  BY <1>2, <1>6, <1>7 DEF Activation
<1>9. Awaits(Top, g)
  BY <1>1, <1>2, <1>6 DEF Awaits
<1> QED BY <1>6, <1>8, <1>9 DEF g

LEMMA CheckChildType == ASSUME TypeInv, CheckChild PROVE TypeInv'
<1>1. calls # <<>> /\ ~Complete(Top) /\ pass = 2
  BY DEF CheckChild, Walking
<1>2. PICK g : g = Frame(Here.kids[Done + 1], Expected(Top, Done + 1), Opened(Here, Done + 1))
  OBVIOUS
<1>3. Activation(g) /\ Awaits(Top, g) /\ g.owned = Opened(Here, Done + 1) /\ g \in Frames
  BY <1>1, <1>2, ChildActivation DEF Activation
<1>4. /\ calls' = Append(calls, g) /\ scopes' = scopes \o [s \in 1 .. g.owned |-> NoNames]
      /\ Log(Top.n, Report(Top))
      /\ UNCHANGED <<prog, pass, item, functions, declared, types, var_refs>>
  BY <1>2, <1>3, Zenon DEF CheckChild
<1>5. g.owned \in Nat /\ scopes \in Seq([Name -> Symbol]) /\ Len(scopes) \in Nat \ {0}
  BY <1>3, TypeParts DEF Frames
<1>6. /\ scopes' \in Seq([Name -> Symbol]) /\ Len(scopes') = Len(scopes) + g.owned
  BY <1>4, <1>5, OpenedScopes
<1>7. calls' \in Seq(Frames) /\ CallsInv'
  BY <1>1, <1>3, <1>4, PushStep
<1>8. ScopesInv'
  BY <1>3, <1>4, <1>6, HeightsPush
<1>9. errors' \in Errors
  BY <1>1, <1>4, TopType, ReportType, LogType, TypeOKParts DEF TypeInv
<1>10. TypeOK'
  BY <1>4, <1>5, <1>6, <1>7, <1>9, TypeOKParts DEF TypeInv, TypeOK, Errors
<1>11. PhaseInv'
  <2>1. calls \in Seq(Frames) /\ Len(calls) \in Nat \ {0}
    BY <1>1, TypeParts
  <2>2. calls'[1] = calls[1]
    BY <1>3, <1>4, <2>1, AppendProperties
  <2> QED BY <1>1, <1>4, <2>2 DEF TypeInv, PhaseInv
<1>12. FunctionsInv'
  BY <1>4 DEF TypeInv, FunctionsInv
<1> QED BY <1>7, <1>8, <1>10, <1>11, <1>12 DEF TypeInv
\* An expression opens no scope.
LEMMA BodyIsStatement ==
  ASSUME NEW n \in NodeId, NEW i \in 1 .. Len(Nodes[n].kids), IsBody(Nodes[n], i)
  PROVE  Nodes[Nodes[n].kids[i]].k \in StmtKind
<1> DEFINE nd == Nodes[n]
<1>1. nd.kids \in Seq(NodeId) /\ Shape(nd)
  BY NodeType
<1>2. CASE nd.k = "If"
  <2>1. AllIn(Tail(nd.kids), StmtKind) /\ i > 1 /\ Len(nd.kids) \in {2, 3}
    BY <1>1, <1>2 DEF Shape, IsBody
  <2>2. i - 1 \in 1 .. Len(Tail(nd.kids)) /\ Tail(nd.kids)[i - 1] = nd.kids[i] /\ i - 1 \in DOMAIN Tail(nd.kids)
    BY <1>1, <2>1
  <2> QED BY <2>1, <2>2 DEF AllIn
<1>3. CASE nd.k = "While"
  BY <1>1, <1>3 DEF Shape, IsBody
<1>4. CASE nd.k = "For"
  BY <1>1, <1>4 DEF Shape, IsBody
<1> QED BY <1>2, <1>3, <1>4 DEF IsBody

LEMMA OuterActivation ==
  ASSUME TypeInv, calls # <<>>
  PROVE  /\ item - 1 \in 1 .. Len(prog) /\ calls[1].n = prog[item - 1]
         /\ Nodes[calls[1].n].k \in {"VarDecl", "Func"} /\ calls[1].exp = None
         /\ calls[1].owned = IF Nodes[calls[1].n].k = "Func" THEN 1 ELSE 0
         /\ Activation(calls[1])
<1>1. /\ item > 1 /\ calls[1].n = prog[item - 1] /\ calls[1].exp = None
      /\ calls[1].owned = IF Nodes[calls[1].n].k = "Func" THEN 1 ELSE 0
  BY DEF TypeInv, PhaseInv
<1>2. item - 1 \in 1 .. Len(prog) /\ DOMAIN prog = 1 .. Len(prog) /\ AllIn(prog, DeclKind)
  BY <1>1, TypeParts
<1>3. Nodes[prog[item - 1]].k \in DeclKind
  BY <1>2 DEF AllIn
<1>4. Activation(calls[1])
  BY TypeParts DEF TypeInv, CallsInv
<1> QED BY <1>1, <1>2, <1>3, <1>4 DEF DeclKind

LEMMA ExprOwnsNone ==
  ASSUME TypeInv, calls # <<>>, Here.k \in ExprKind
  PROVE  Top.owned = 0 /\ Len(calls) > 1
<1>1. Len(calls) \in Nat \ {0} /\ Here = Nodes[Top.n] /\ Top = calls[Len(calls)]
  BY TopType
<1>2. Len(calls) # 1
  BY <1>1, OuterActivation DEF ExprKind
<1>0. Len(calls) \in Nat /\ Len(calls) > 1
  <2> DEFINE m == Len(calls)
  <2>1. m \in Nat \ {0} /\ m # 1
    BY <1>2, TopType
  <2> HIDE DEF m
  <2>2. m \in Nat /\ m > 1
    BY <2>1
  <2> QED BY <2>2 DEF m
<1> DEFINE f == calls[Len(calls) - 1]  i == Len(f.rs) + 1
<1>3. Activation(f) /\ Awaits(f, Top)
  <2>1. Len(calls) - 1 \in 1 .. Len(calls) - 1 /\ Len(calls) - 1 \in 1 .. Len(calls)
        /\ Len(calls) - 1 + 1 = Len(calls)
    BY <1>0
  <2> QED BY <1>1, <2>1 DEF TypeInv, CallsInv
<1>4. /\ f.n \in NodeId /\ i \in 1 .. Len(Nodes[f.n].kids) /\ Top.n = Nodes[f.n].kids[i]
      /\ Top.owned = Opened(Nodes[f.n], i)
  BY <1>3, ActivationType DEF Awaits
<1>5. ~IsBody(Nodes[f.n], i)
  BY <1>1, <1>4, BodyIsStatement DEF StmtKind, ExprKind
<1>6. Here.k \notin {"Block", "For"}
  BY DEF ExprKind
<1>7. Nodes[Nodes[f.n].kids[i]].k = Here.k
  BY <1>1, <1>4
<1>8. Opened(Nodes[f.n], i) = 0
  BY <1>5, <1>6, <1>7 DEF Opened
<1> QED BY <1>0, <1>4, <1>8

\* An activation returns.
LEMMA ReturnStep ==
  ASSUME TypeInv, calls # <<>>, NEW r, r \in Answer(Top.n), calls' = Popped(r),
         UNCHANGED <<prog, pass, item, functions>>, Len(scopes') = Len(scopes) - Top.owned
  PROVE  /\ calls' \in Seq(Frames) /\ CallsInv' /\ ScopesInv' /\ PhaseInv'
         /\ FunctionsInv'
<1>1. calls' \in Seq(Frames) /\ CallsInv'
  BY PopStep
<1>2. ScopesInv'
  BY HeightsPop
<1>3. PhaseInv'
  <2>1. pass' = 2 /\ Len(calls) \in Nat \ {0} /\ Len(calls') = Len(calls) - 1
    BY TopType, Answered
  <2>2. CASE Len(calls) = 1
    <3>1. calls' = <<>>
      BY <1>1, <2>1, <2>2
    <3> QED BY <2>1, <3>1 DEF PhaseInv
  <2>3. CASE Len(calls) # 1
    <3>1. calls'[1].n = calls[1].n /\ calls'[1].exp = calls[1].exp /\ calls'[1].owned = calls[1].owned
      <4>1. CASE Len(calls) = 2
        <5>1. Len(calls) > 1 /\ Len(calls) - 1 = 1
          BY <4>1
        <5>2. /\ calls'[Len(calls) - 1].n = calls[Len(calls) - 1].n
              /\ calls'[Len(calls) - 1].exp = calls[Len(calls) - 1].exp
              /\ calls'[Len(calls) - 1].owned = calls[Len(calls) - 1].owned
          BY <5>1, Answered
        <5> QED BY <5>1, <5>2
      <4>2. CASE Len(calls) # 2
        <5>1. 1 \in 1 .. Len(calls) - 2
          BY <2>1, <2>3, <4>2
        <5>2. calls'[1] = calls[1]
          BY <5>1, Answered
        <5> QED BY <5>2
      <4> QED BY <4>1, <4>2
    <3> QED BY <2>1, <3>1 DEF TypeInv, PhaseInv
  <2> QED BY <2>2, <2>3
<1>4. FunctionsInv'
  BY DEF TypeInv, FunctionsInv
<1> QED BY <1>1, <1>2, <1>3, <1>4

LEMMA InsertType ==
  ASSUME NEW map, NEW S, NEW n, NEW e, map \in [DOMAIN map -> S], e \in S
  PROVE  /\ DOMAIN Insert(map, n, e) = DOMAIN map \cup {n}
         /\ Insert(map, n, e) \in [DOMAIN Insert(map, n, e) -> S]
         /\ Insert(map, n, e)[n] = e
         /\ \A m \in DOMAIN map : m # n => Insert(map, n, e)[m] = map[m]
BY DEF Insert

LEMMA CheckExprType == ASSUME TypeInv, CheckExpr PROVE TypeInv'
<1> DEFINE t == TypeFrom(Top)
<1>1. /\ calls # <<>> /\ Complete(Top) /\ Here.k \in ExprKind
      /\ types' = IF t # None THEN Insert(types, Top.n, t) ELSE types
      /\ var_refs' = IF Here.k = "Ident" /\ t # None
                     THEN Insert(var_refs, Top.n, Resolve(Here.name).id) ELSE var_refs
      /\ calls' = Popped(Against(Top, t))
      /\ Log(Top.n, Report(Top))
      /\ UNCHANGED <<prog, pass, item, scopes, functions, declared>>
  BY DEF CheckExpr, Walking
<1>2. /\ Activation(Top) /\ Top.n \in NodeId /\ Here = Nodes[Top.n] /\ Here.name \in Name
      /\ FunctionsOK /\ ScopesOK
  BY <1>1, TopType, Okays, NodeType
<1>3. t \in Type \cup {None}
  BY <1>1, <1>2, RuleType
<1>4. Against(Top, t) \in Type \cup {None}
  BY <1>3, AgainstType
<1>5. Against(Top, t) \in Answer(Top.n)
  BY <1>1, <1>2, <1>4 DEF Answer
<1>6. Top.owned = 0 /\ Len(scopes) \in Nat
  BY <1>1, ExprOwnsNone, TypeParts
<1>7. calls' \in Seq(Frames) /\ CallsInv' /\ ScopesInv' /\ PhaseInv' /\ FunctionsInv'
  <2> DEFINE r == Against(Top, t)
  <2>1. r \in Answer(Top.n) /\ calls' = Popped(r)
    BY <1>1, <1>5
  <2> HIDE DEF r
  <2> QED BY <1>1, <1>6, <2>1, ReturnStep
<1>8. errors' \in Errors
  BY <1>1, <1>2, ReportType, LogType, TypeOKParts DEF TypeInv
<1> HIDE DEF t
<1>9. DOMAIN types' \subseteq NodeId /\ types' \in [DOMAIN types' -> Type]
  <2>1. DOMAIN types \subseteq NodeId /\ types \in [DOMAIN types -> Type]
    BY TypeOKParts DEF TypeInv
  <2>2. CASE t # None
    <3>1. types' = Insert(types, Top.n, t) /\ t \in Type
      BY <1>1, <1>3, <2>2
    <3>2. /\ DOMAIN Insert(types, Top.n, t) = DOMAIN types \cup {Top.n}
          /\ Insert(types, Top.n, t) \in [DOMAIN Insert(types, Top.n, t) -> Type]
      BY <2>1, <3>1 DEF Insert
    <3> QED BY <1>2, <2>1, <3>1, <3>2
  <2>3. CASE t = None
    BY <1>1, <2>1, <2>3
  <2> QED BY <2>2, <2>3
<1>10. DOMAIN var_refs' \subseteq NodeId /\ var_refs' \in [DOMAIN var_refs' -> Nat]
  <2>1. DOMAIN var_refs \subseteq NodeId /\ var_refs \in [DOMAIN var_refs -> Nat]
    BY TypeOKParts DEF TypeInv
  <2>2. CASE Here.k = "Ident" /\ t # None
    <3>1. t = Resolve(Here.name).ty
      <4>1. ~BadTarget(Here)
        BY <2>2 DEF BadTarget, HasTarget
      <4> QED BY <1>2, <2>2, <4>1 DEF t, TypeFrom
    <3>2. Resolve(Here.name).id \in Nat
      BY <1>2, <2>2, <3>1, ResolveType, SymbolType
    <3>3. var_refs' = Insert(var_refs, Top.n, Resolve(Here.name).id)
      BY <1>1, <2>2
    <3> DEFINE id == Resolve(Here.name).id
    <3> HIDE DEF id
    <3>4. /\ DOMAIN Insert(var_refs, Top.n, id) = DOMAIN var_refs \cup {Top.n}
          /\ Insert(var_refs, Top.n, id) \in [DOMAIN Insert(var_refs, Top.n, id) -> Nat]
      BY <2>1, <3>2 DEF id, Insert
    <3> QED BY <1>2, <2>1, <3>3, <3>4 DEF id
  <2>3. CASE ~(Here.k = "Ident" /\ t # None)
    BY <1>1, <2>1, <2>3
  <2> QED BY <2>2, <2>3
<1> QED BY <1>1, <1>7, <1>8, <1>9, <1>10, TypeOKParts DEF TypeInv, TypeOK, Errors
\* What a statement, or a function, answers.
LEMMA StmtAnswer ==
  ASSUME NEW n, Nodes[n].k \notin ExprKind PROVE None \in Answer(n) /\ Returns \in Answer(n)
BY DEF Answer

\* The innermost activation's own scopes are there, and the global one besides.
LEMMA OwnedScopes ==
  ASSUME TypeInv, calls # <<>>
  PROVE  Top.owned \in Nat /\ Len(scopes) - Top.owned \in Nat \ {0}
<1>1. Top \in Frames /\ Top = calls[Len(calls)]
  BY TopType
<1>2. PICK h : Heights(h)
  BY DEF TypeInv, ScopesInv
<1>3. Len(calls) \in Nat \ {0} /\ Top.owned \in Nat
  BY <1>1, TopType DEF Frames
<1>4. Len(scopes) = h[Len(calls)] + Top.owned /\ h[Len(calls)] \in Nat \ {0}
  <2> DEFINE m == Len(calls)
  <2>1. m \in 1 .. m /\ m \in 1 .. m + 1
    BY <1>3
  <2>2. h \in [1 .. m + 1 -> Nat \ {0}] /\ Len(scopes) = h[m + 1] /\ h[m + 1] = h[m] + calls[m].owned
    BY <1>2, <2>1 DEF Heights
  <2> HIDE DEF m
  <2> QED BY <1>1, <2>1, <2>2 DEF m
<1> QED BY <1>3, <1>4

\* A scope that a statement leaves is one it opened.
LEMMA CloseType ==
  ASSUME NEW k \in Nat, NEW ss \in Seq([Name -> Symbol]), Len(ss) - k \in Nat \ {0}
  PROVE  /\ SubSeq(ss, 1, Len(ss) - k) \in Seq([Name -> Symbol])
         /\ Len(SubSeq(ss, 1, Len(ss) - k)) = Len(ss) - k
         /\ \A s \in 1 .. Len(ss) - k : SubSeq(ss, 1, Len(ss) - k)[s] = ss[s]
<1> DEFINE m == Len(ss) - k
<1>1. m \in Nat \ {0} /\ Len(ss) \in Nat /\ m <= Len(ss)
  OBVIOUS
<1>2. \A s \in 1 .. m : ss[s] \in [Name -> Symbol]
  BY <1>1
<1> HIDE DEF m
<1>3. /\ SubSeq(ss, 1, m) \in Seq([Name -> Symbol])
      /\ Len(SubSeq(ss, 1, m)) = IF 1 <= m THEN m - 1 + 1 ELSE 0
      /\ \A s \in 1 .. m - 1 + 1 : SubSeq(ss, 1, m)[s] = ss[1 + s - 1]
  BY <1>1, <1>2, SubSeqProperties
<1>4. Len(SubSeq(ss, 1, m)) = m /\ \A s \in 1 .. m : SubSeq(ss, 1, m)[s] = ss[s]
  BY <1>1, <1>3
<1> QED BY <1>3, <1>4 DEF m

LEMMA CheckStmtType == ASSUME TypeInv, CheckStmt PROVE TypeInv'
<1> DEFINE r == IF ReturnsOnAllPaths(Top) THEN Returns ELSE None
<1>1. /\ calls # <<>> /\ Here.k \in (StmtKind \cup {"Func"}) \ {"VarDecl"}
      /\ scopes' = Close(scopes) /\ calls' = Popped(r) /\ Log(Top.n, Report(Top))
      /\ UNCHANGED <<prog, pass, item, functions, declared, types, var_refs>>
  BY DEF CheckStmt, Walking
<1>2. Top.n \in NodeId /\ Here = Nodes[Top.n] /\ scopes \in Seq([Name -> Symbol])
  BY <1>1, TopType, TypeParts
<1>3. r \in Answer(Top.n)
  BY <1>1, <1>2, StmtAnswer, KindsApart
<1> HIDE DEF r
<1>4. Top.owned \in Nat /\ Len(scopes) - Top.owned \in Nat \ {0}
  BY <1>1, OwnedScopes
<1>5. scopes' \in Seq([Name -> Symbol]) /\ Len(scopes') = Len(scopes) - Top.owned
  BY <1>1, <1>2, <1>4, CloseType DEF Close
<1>6. calls' \in Seq(Frames) /\ CallsInv' /\ ScopesInv' /\ PhaseInv' /\ FunctionsInv'
  BY <1>1, <1>3, <1>5, ReturnStep
<1>7. errors' \in Errors
  BY <1>1, <1>2, ReportType, LogType, TypeOKParts DEF TypeInv
<1>8. scopes' # <<>>
  BY <1>4, <1>5
<1> QED BY <1>1, <1>5, <1>6, <1>7, <1>8, TypeOKParts DEF TypeInv, TypeOK, Errors

\* Declaring gives the names of declarations a symbol, and leaves the others.
LEMMA DeclareSymbols ==
  ASSUME declared \in Seq(NodeId), NEW s \in [Name -> Symbol], NEW ds \in Seq(NodeId), NEW x \in Name
  PROVE  \/ Declare(s, ds)[x] = s[x]
         \/ \E i \in 1 .. Len(ds) : /\ Nodes[ds[i]].name = x
                                   /\ Declare(s, ds)[x] = [id |-> Len(declared) + i - 1, ty |-> Nodes[ds[i]].ty]
<1> DEFINE named == {i \in DOMAIN ds : Nodes[ds[i]].name = x}
           last == CHOOSE i \in named : \A j \in named : j <= i
<1>1. Declare(s, ds)[x] = IF named = {} THEN s[x]
                          ELSE [id |-> Len(declared) + last - 1, ty |-> Nodes[ds[last]].ty]
  BY DEF Declare
<1>2. CASE named = {}
  BY <1>1, <1>2
<1>3. CASE named # {}
  <2>1. named \subseteq 1 .. Len(ds) /\ Len(ds) \in Nat
    OBVIOUS
  <2>2. \E i \in named : \A j \in named : j <= i
    BY <1>3, <2>1, Greatest
  <2>3. last \in named
    BY <2>2
  <2>4. Nodes[ds[last]].name = x /\ last \in 1 .. Len(ds)
    BY <2>1, <2>3
  <2> HIDE DEF last, named
  <2>5. Declare(s, ds)[x] = [id |-> Len(declared) + last - 1, ty |-> Nodes[ds[last]].ty]
    BY <1>1, <1>3
  <2> QED BY <2>4, <2>5, Zenon
<1> QED BY <1>2, <1>3

LEMMA DeclareType ==
  ASSUME declared \in Seq(NodeId), NEW s \in [Name -> Symbol], NEW ds \in Seq(NodeId)
  PROVE  Declare(s, ds) \in [Name -> Symbol]
<1>1. ASSUME NEW x \in Name PROVE Declare(s, ds)[x] \in Symbol
  <2>1. CASE Declare(s, ds)[x] = s[x]
    BY <2>1
  <2>2. ASSUME NEW i \in 1 .. Len(ds),
               Declare(s, ds)[x] = [id |-> Len(declared) + i - 1, ty |-> Nodes[ds[i]].ty]
        PROVE  Declare(s, ds)[x] \in Symbol
    <3>1. ds[i] \in NodeId /\ Len(declared) + i - 1 \in Nat
      OBVIOUS
    <3>2. Nodes[ds[i]].ty \in Type
      BY <3>1, NodeType
    <3> QED BY <2>2, <3>1, <3>2 DEF Symbol
  <2> QED BY <2>1, <2>2, DeclareSymbols
<1>2. Declare(s, ds) = [x \in Name |-> Declare(s, ds)[x]]
  BY DEF Declare
<1> QED BY <1>1, <1>2

\* The innermost scope after a declaration, before the activation's own are closed.
LEMMA DeclaredScopes ==
  ASSUME TypeInv, calls # <<>>, Here.k = "VarDecl"
  PROVE  LET ss == [scopes EXCEPT ![Len(scopes)] = Declare(Scope, <<Top.n>>)]
         IN  /\ ss \in Seq([Name -> Symbol]) /\ Len(ss) = Len(scopes)
             /\ \A i \in 1 .. Len(scopes) : ss[i] = IF i = Len(scopes) THEN Declare(Scope, <<Top.n>>) ELSE scopes[i]
<1>1. /\ scopes \in Seq([Name -> Symbol]) /\ Len(scopes) \in 1 .. Len(scopes) /\ declared \in Seq(NodeId)
      /\ <<Top.n>> \in Seq(NodeId)
  BY TypeParts, TopType
<1>2. Declare(Scope, <<Top.n>>) \in [Name -> Symbol]
  <2>1. Scope \in [Name -> Symbol]
    BY <1>1 DEF Scope
  <2> QED BY <1>1, <2>1, DeclareType
<1> DEFINE d == Declare(Scope, <<Top.n>>)
<1> HIDE DEF d
<1>3. /\ [scopes EXCEPT ![Len(scopes)] = d] \in Seq([Name -> Symbol])
      /\ Len([scopes EXCEPT ![Len(scopes)] = d]) = Len(scopes)
      /\ \A j \in 1 .. Len(scopes) :
           [scopes EXCEPT ![Len(scopes)] = d][j] = IF j = Len(scopes) THEN d ELSE scopes[j]
  BY <1>1, <1>2, ExceptSeq DEF d
<1> QED BY <1>3 DEF d

LEMMA DeclareLocalVarType == ASSUME TypeInv, DeclareLocalVar PROVE TypeInv'
<1> DEFINE ss == [scopes EXCEPT ![Len(scopes)] = Declare(Scope, <<Top.n>>)]
<1>1. /\ calls # <<>> /\ Here.k = "VarDecl" /\ scopes' = Close(ss) /\ calls' = Popped(None)
      /\ declared' = Append(declared, Top.n) /\ Log(Top.n, Report(Top))
      /\ UNCHANGED <<prog, pass, item, functions, types, var_refs>>
  BY DEF DeclareLocalVar, Walking
<1>2. Top.n \in NodeId /\ Here = Nodes[Top.n] /\ declared \in Seq(NodeId)
  BY <1>1, TopType, TypeParts
<1>3. None \in Answer(Top.n)
  BY <1>1, <1>2, StmtAnswer, KindsApart
<1>4. Top.owned \in Nat /\ Len(scopes) - Top.owned \in Nat \ {0}
  BY <1>1, OwnedScopes
<1>5. ss \in Seq([Name -> Symbol]) /\ Len(ss) = Len(scopes)
  BY <1>1, DeclaredScopes
<1> HIDE DEF ss
<1>6. scopes' \in Seq([Name -> Symbol]) /\ Len(scopes') = Len(scopes) - Top.owned
  BY <1>1, <1>4, <1>5, CloseType DEF Close
<1>7. calls' \in Seq(Frames) /\ CallsInv' /\ ScopesInv' /\ PhaseInv' /\ FunctionsInv'
  BY <1>1, <1>3, <1>6, ReturnStep
<1>8. errors' \in Errors
  BY <1>1, <1>2, ReportType, LogType, TypeOKParts DEF TypeInv
<1>9. scopes' # <<>> /\ declared' \in Seq(NodeId)
  BY <1>1, <1>2, <1>4, <1>6, AppendProperties
<1> QED BY <1>1, <1>6, <1>7, <1>8, <1>9, TypeOKParts DEF TypeInv, TypeOK, Errors

\* The phases of run.
LEMMA DeclType ==
  ASSUME TypeInv, item <= Len(prog)
  PROVE  /\ prog[item] \in NodeId /\ Decl = Nodes[prog[item]] /\ Decl.k \in {"VarDecl", "Func"}
         /\ item \in 1 .. Len(prog) /\ item + 1 \in 1 .. Len(prog) + 1
<1>1. prog \in Seq(NodeId) /\ AllIn(prog, DeclKind) /\ item \in 1 .. Len(prog) + 1 /\ Len(prog) \in Nat
  BY TypeParts
<1>2. item \in 1 .. Len(prog) /\ item + 1 \in 1 .. Len(prog) + 1 /\ item \in DOMAIN prog
  BY <1>1
<1>3. Nodes[prog[item]].k \in DeclKind
  BY <1>1, <1>2 DEF AllIn
<1> QED BY <1>1, <1>2, <1>3 DEF Decl, DeclKind

LEMMA SignatureType ==
  ASSUME NEW n \in NodeId
  PROVE  Signature(Nodes[n]) \in [params: Seq(Type), ret: Type] /\ Signature(Nodes[n]).ret \in Type
<1>1. Nodes[n].params \in Seq(NodeId) /\ Nodes[n].ty \in Type
  BY NodeType
<1> DEFINE ps == Nodes[n].params  t(i) == Nodes[ps[i]].ty
<1>2. \A i \in 1 .. Len(ps) : t(i) \in Type
  <2> SUFFICES ASSUME NEW i \in 1 .. Len(ps) PROVE t(i) \in Type
    OBVIOUS
  <2>1. ps[i] \in NodeId
    BY <1>1
  <2> QED BY <2>1, NodeType
<1>3. Len(ps) \in Nat /\ DOMAIN ps = 1 .. Len(ps)
  BY <1>1
<1> HIDE DEF t
<1>4. [i \in 1 .. Len(ps) |-> t(i)] \in Seq(Type)
  BY <1>2, <1>3, IsASeq
<1>5. Signature(Nodes[n]) = [params |-> [i \in 1 .. Len(ps) |-> t(i)], ret |-> Nodes[n].ty]
  BY <1>3 DEF Signature, t
<1> QED BY <1>1, <1>4, <1>5

\* A step between activations keeps their invariants.
LEMMA IdleStep ==
  ASSUME TypeInv, UNCHANGED <<calls, scopes, functions>>
  PROVE  /\ CallsInv' /\ ScopesInv' /\ FunctionsInv'
<1>1. CallsInv'
  BY SameAwaits DEF TypeInv, CallsInv
<1>2. ScopesInv'
  BY DEF TypeInv, ScopesInv, Heights
<1> QED BY <1>1, <1>2 DEF TypeInv, FunctionsInv

LEMMA HoistFuncType == ASSUME TypeInv, HoistFunc PROVE TypeInv'
<1> DEFINE new == Decl.k = "Func" /\ functions[Decl.name] = NoSig
           dup == Said(Decl.k = "Func" /\ ~new, "DuplicateDeclaration")
<1>1. /\ pass = 1 /\ item <= Len(prog) /\ item' = item + 1
      /\ functions' = IF new THEN [functions EXCEPT ![Decl.name] = Signature(Decl)] ELSE functions
      /\ Log(prog[item], dup)
      /\ UNCHANGED <<prog, pass, calls, scopes, declared, types, var_refs>>
  BY DEF HoistFunc
<1>2. calls = <<>> /\ calls' = <<>> /\ scopes' = <<NoNames>> /\ declared' = <<>>
  BY <1>1 DEF TypeInv, PhaseInv
<1>3. /\ prog[item] \in NodeId /\ Decl = Nodes[prog[item]] /\ item' \in 1 .. Len(prog) + 1
      /\ Decl.name \in Name
  BY <1>1, DeclType, NodeType
<1>4. errors' \in Errors
  <2>1. dup \in Seq(ErrorKind)
    BY SaidType DEF ErrorKind
  <2> HIDE DEF dup
  <2> QED BY <1>1, <1>3, <2>1, LogType, TypeOKParts DEF TypeInv
<1>5. /\ functions' \in [Name -> [params: Seq(Type), ret: Type \cup {None}]]
      /\ FunctionsInv'
  <2>1. Signature(Decl) \in [params: Seq(Type), ret: Type] /\ Signature(Decl).ret \in Type
    BY <1>3, SignatureType
  <2>2. Signature(Decl) \in [params: Seq(Type), ret: Type \cup {None}]
    BY <2>1
  <2>3. functions \in [Name -> [params: Seq(Type), ret: Type \cup {None}]]
    BY TypeParts
  <2> QED BY <1>1, <1>3, <2>1, <2>2, <2>3 DEF TypeInv, FunctionsInv
<1>6. CallsInv' /\ (\A j \in 1 .. Len(calls') : FALSE)
  <2>1. Len(calls') = 0
    BY <1>2
  <2>2. (\A j \in 1 .. Len(calls') : FALSE) /\ (\A j \in 1 .. Len(calls') - 1 : FALSE)
    BY <2>1
  <2> QED BY <2>2 DEF CallsInv
<1>7. ScopesInv'
  BY <1>1 DEF TypeInv, ScopesInv, Heights
<1>8. PhaseInv'
  BY <1>1, <1>2 DEF PhaseInv
<1> QED BY <1>1, <1>3, <1>4, <1>5, <1>6, <1>7, <1>8, TypeOKParts DEF TypeInv, TypeOK, Errors

LEMMA RequireMainType == ASSUME TypeInv, RequireMain PROVE TypeInv'
<1>1. /\ pass = 1 /\ pass' = 2 /\ item' = 1
      /\ UNCHANGED <<prog, calls, scopes, functions, declared, types, var_refs>>
  BY DEF RequireMain
<1>2. errors' \in Errors
  <2>1. PICK c : Log(0, Said(c, "MissingMain"))
    BY Zenon DEF RequireMain
  <2>2. Said(c, "MissingMain") \in Seq(ErrorKind)
    BY SaidType DEF ErrorKind
  <2> QED BY <2>1, <2>2, LogType, TypeOKParts DEF TypeInv
<1>3. PhaseInv'
  BY <1>1 DEF TypeInv, PhaseInv
<1>4. item' \in 1 .. Len(prog) + 1
  BY <1>1, TypeParts
<1> QED BY <1>1, <1>2, <1>3, <1>4, IdleStep, TypeOKParts DEF TypeInv, TypeOK, Errors

LEMMA ConcludeType == ASSUME TypeInv, Conclude PROVE TypeInv'
<1>1. /\ calls = <<>> /\ pass = 2 /\ pass' = 3
      /\ UNCHANGED <<prog, item, calls, scopes, functions, declared, types, var_refs, errors>>
  BY DEF Conclude
<1>2. PhaseInv'
  BY <1>1 DEF TypeInv, PhaseInv
<1> QED BY <1>1, <1>2, IdleStep, TypeOKParts DEF TypeInv, TypeOK, Errors
LEMMA OneScope == ASSUME TypeInv, calls = <<>> PROVE Len(scopes) = 1
<1>1. PICK h : Heights(h)
  BY DEF TypeInv, ScopesInv
<1>2. Len(calls) = 0
  OBVIOUS
<1> QED BY <1>1, <1>2 DEF Heights

\* The activation of a declaration.
LEMMA FirstActivation ==
  ASSUME NEW n \in NodeId, Nodes[n].k \in {"VarDecl", "Func"}, NEW k \in Nat
  PROVE  LET g == Frame(n, None, k)
         IN  Activation(g) /\ g \in Frames /\ g.n = n /\ g.exp = None /\ g.owned = k /\ g.rs = <<>>
<1> DEFINE g == Frame(n, None, k)
<1>1. g = [n |-> n, exp |-> None, owned |-> k, rs |-> <<>>]
  BY DEF Frame
<1>2. g \in Frames /\ g.n = n /\ g.exp = None /\ g.owned = k /\ g.rs = <<>>
  BY <1>1 DEF Frames
<1> HIDE DEF g
<1>3. Len(Nodes[g.n].kids) \in Nat /\ Len(g.rs) = 0
  BY <1>2, NodeType
<1>4. Activation(g)
  BY <1>2, <1>3, KindsApart DEF Activation
<1> QED BY <1>2, <1>4 DEF g

LEMMA CheckDeclType == ASSUME TypeInv, CheckDecl PROVE TypeInv'
<1>1. /\ pass = 2 /\ calls = <<>> /\ item <= Len(prog) /\ item' = item + 1
      /\ UNCHANGED <<prog, pass, functions, types, var_refs, errors>>
  BY DEF CheckDecl
<1>2. /\ prog[item] \in NodeId /\ Decl = Nodes[prog[item]] /\ Decl.k \in {"VarDecl", "Func"}
      /\ item' \in 1 .. Len(prog) + 1 /\ item \in 1 .. Len(prog)
  BY <1>1, DeclType
<1>3. /\ scopes \in Seq([Name -> Symbol]) /\ Len(scopes) = 1 /\ declared \in Seq(NodeId)
      /\ Decl.params \in Seq(NodeId)
  BY <1>1, <1>2, OneScope, TypeParts, NodeType
<1>4. PICK g : g = Frame(prog[item], None, IF Decl.k = "Func" THEN 1 ELSE 0)
  OBVIOUS
<1>5. /\ Activation(g) /\ g \in Frames /\ g.n = prog[item] /\ g.exp = None
      /\ g.owned = (IF Decl.k = "Func" THEN 1 ELSE 0)
  BY <1>2, <1>4, FirstActivation
<1>6. calls' = <<g>>
  BY <1>2, <1>4 DEF CheckDecl
<1>7. /\ scopes' \in Seq([Name -> Symbol]) /\ Len(scopes') = Len(scopes) + g.owned
      /\ declared' \in Seq(NodeId)
  <2>1. CASE Decl.k = "VarDecl"
    BY <1>3, <1>5, <2>1 DEF CheckDecl
  <2>2. CASE Decl.k # "VarDecl"
    <3>1. scopes' = Append(scopes, Declare(NoNames, Decl.params)) /\ declared' = declared \o Decl.params
      BY <2>2 DEF CheckDecl
    <3>2. NoNames \in [Name -> Symbol]
      BY DEF NoNames, Symbol
    <3>3. Declare(NoNames, Decl.params) \in [Name -> Symbol]
      BY <1>3, <3>2, DeclareType
    <3>4. scopes' \in Seq([Name -> Symbol]) /\ Len(scopes') = Len(scopes) + 1
      BY <1>3, <3>1, <3>3, AppendProperties
    <3>5. declared' \in Seq(NodeId)
      BY <1>3, <3>1, ConcatProperties
    <3> QED BY <1>2, <1>5, <2>2, <3>4, <3>5
  <2> QED BY <2>1, <2>2
<1>8. calls' \in Seq(Frames) /\ CallsInv' /\ calls' # <<>> /\ calls'[1] = g
  BY <1>5, <1>6, BeginStep
<1>9. ScopesInv'
  <2>1. calls' = Append(calls, g)
    BY <1>1, <1>6
  <2> QED BY <1>5, <1>7, <2>1, HeightsPush
<1>10. PhaseInv'
  <2>1. item' > 1 /\ item' - 1 = item
    BY <1>1, <1>2
  <2> QED BY <1>1, <1>2, <1>5, <1>8, <2>1 DEF PhaseInv
<1>11. FunctionsInv' /\ scopes' # <<>>
  <2>1. FunctionsInv'
    BY <1>1 DEF TypeInv, FunctionsInv
  <2>2. g.owned \in {0, 1}
    BY <1>5
  <2>3. Len(scopes') # 0
    BY <1>3, <1>7, <2>2
  <2> QED BY <2>1, <2>3
<1> QED BY <1>1, <1>2, <1>7, <1>8, <1>9, <1>10, <1>11, TypeOKParts DEF TypeInv, TypeOK, Errors

LEMMA InitType == Init => TypeInv
<1> SUFFICES ASSUME Init PROVE TypeInv
  OBVIOUS
<1>1. /\ prog \in Programs /\ pass = 1 /\ item = 1 /\ calls = <<>> /\ scopes = <<NoNames>>
      /\ functions = BuiltinFuncs /\ declared = <<>> /\ types = <<>> /\ var_refs = <<>> /\ errors = <<>>
  BY DEF Init
<1>2. prog \in Seq(NodeId) /\ 1 \in 1 .. Len(prog) + 1
  BY <1>1, ProgramAssumption
<1>3. scopes \in Seq([Name -> Symbol]) /\ scopes # <<>> /\ Len(scopes) = 1
  <2>1. NoNames \in [Name -> Symbol]
    BY DEF NoNames, Symbol
  <2> QED BY <1>1, <2>1
<1>4. ASSUME NEW x \in Name
      PROVE  /\ BuiltinFuncs[x] \in [params: Seq(Type), ret: Type \cup {None}]
             /\ BuiltinFuncs[x] = NoSig \/ BuiltinFuncs[x].ret \in Type
  <2>1. /\ <<TStr>> \in Seq(Type) /\ <<TStr, TInt>> \in Seq(Type) /\ <<TStr, TInt, TInt>> \in Seq(Type)
        /\ TStr \in Type /\ TInt \in Type
    BY BaseTypes
  <2> QED BY <2>1 DEF BuiltinFuncs, NoSig
<1>5. functions \in [Name -> [params: Seq(Type), ret: Type \cup {None}]] /\ FunctionsInv
  <2>1. functions = [x \in Name |-> BuiltinFuncs[x]]
    BY <1>1 DEF BuiltinFuncs
  <2> QED BY <1>1, <1>4, <2>1 DEF FunctionsInv
<1>6. CallsInv
  <2>1. Len(calls) = 0
    BY <1>1
  <2>2. (\A j \in 1 .. Len(calls) : FALSE) /\ (\A j \in 1 .. Len(calls) - 1 : FALSE)
    BY <2>1
  <2> QED BY <2>2 DEF CallsInv
<1>7. ScopesInv
  <2> DEFINE h == [j \in 1 .. 1 |-> 1]
  <2>1. Len(calls) + 1 = 1 /\ (\A j \in 1 .. Len(calls) : FALSE)
    BY <1>1
  <2>2. h \in [1 .. Len(calls) + 1 -> Nat \ {0}] /\ h[1] = 1 /\ h[Len(calls) + 1] = 1
    BY <2>1
  <2> HIDE DEF h
  <2>3. Heights(h)
    BY <1>3, <2>1, <2>2 DEF Heights
  <2> QED BY <2>3 DEF ScopesInv
<1>8. PhaseInv
  BY <1>1 DEF PhaseInv
<1>9. /\ DOMAIN types \subseteq NodeId /\ types \in [DOMAIN types -> Type]
      /\ DOMAIN var_refs \subseteq NodeId /\ var_refs \in [DOMAIN var_refs -> Nat]
  BY <1>1
<1>10. TypeOK
  BY <1>1, <1>2, <1>3, <1>5, <1>9 DEF TypeOK
<1> QED BY <1>5, <1>6, <1>7, <1>8, <1>10 DEF TypeInv

LEMMA StepType == ASSUME TypeInv, Step PROVE TypeInv'
BY CheckChildType, CheckExprType, DeclareLocalVarType, CheckStmtType, HoistFuncType, RequireMainType,
   CheckDeclType, ConcludeType DEF Step

LEMMA IdleType == ASSUME TypeInv, UNCHANGED vars PROVE TypeInv'
<1>1. UNCHANGED <<prog, pass, item, calls, scopes, functions, declared, types, var_refs, errors>>
  BY DEF vars
<1>2. PhaseInv'
  BY <1>1 DEF TypeInv, PhaseInv
<1> QED BY <1>1, <1>2, IdleStep, TypeOKParts DEF TypeInv, TypeOK, Errors

(***************************************************************************)
(* Every activation checks a node that exists, and the scopes, signatures, *)
(* tables and errors hold what they should, for every program.             *)
(***************************************************************************)
THEOREM TypesHold == Spec => []TypeInv
<1>1. TypeInv /\ [Next]_vars => TypeInv'
  BY StepType, IdleType DEF Next
<1> QED BY <1>1, InitType, PTL DEF Spec

\* In every reachable state of the check of every program, each activation of a check_
\* function is about a node and has answers of the right sort for the children it has
\* checked, and the scopes, tables and errors hold what they should.
THEOREM TypeCorrect == Spec => []TypeOK
<1>1. TypeInv => TypeOK
  BY DEF TypeInv
<1> QED BY <1>1, TypesHold, PTL

(***************************************************************************)
(* Every scope is closed.                                                  *)
(***************************************************************************)
\* The global variables among the first w declarations.
GlobalNames(w) == {Nodes[prog[i]].name : i \in {j \in 1 .. w : Nodes[prog[j]].k = "VarDecl"}}
Names(scope) == {x \in Name : scope[x] # Unknown}

LEMMA GlobalsStep ==
  ASSUME NEW w \in Nat \ {0}
  PROVE  GlobalNames(w) = GlobalNames(w - 1) \cup
           (IF Nodes[prog[w]].k = "VarDecl" THEN {Nodes[prog[w]].name} ELSE {})
<1>1. {j \in 1 .. w : Nodes[prog[j]].k = "VarDecl"} =
        {j \in 1 .. w - 1 : Nodes[prog[j]].k = "VarDecl"} \cup
        (IF Nodes[prog[w]].k = "VarDecl" THEN {w} ELSE {})
  <2>1. 1 .. w = (1 .. w - 1) \cup {w}
    OBVIOUS
  <2> QED BY <2>1
<1>2. CASE Nodes[prog[w]].k = "VarDecl"
  BY <1>1, <1>2 DEF GlobalNames
<1>3. CASE Nodes[prog[w]].k # "VarDecl"
  BY <1>1, <1>3 DEF GlobalNames
<1> QED BY <1>2, <1>3

\* Below the activation of a function there is its scope, and the global one.
LEMMA FuncScopes ==
  ASSUME TypeInv, calls # <<>>
  PROVE  /\ Len(calls) = 1 => Len(scopes) = 1 + Top.owned
         /\ Nodes[calls[1].n].k = "Func" => Len(scopes) > 1
         /\ Len(calls) > 1 /\ Nodes[calls[1].n].k = "Func" => Len(scopes) - Top.owned > 1
<1> DEFINE m == Len(calls)
<1>1. m \in Nat \ {0} /\ Top = calls[m] /\ m \in 1 .. m
  BY TopType
<1>2. PICK h : Heights(h)
  BY DEF TypeInv, ScopesInv
<1>3. /\ h \in [1 .. m + 1 -> Nat \ {0}] /\ h[1] = 1 /\ Len(scopes) = h[m + 1]
      /\ \A j \in 1 .. m : h[j + 1] = h[j] + calls[j].owned
  BY <1>2 DEF Heights
<1>4. \A j \in 1 .. m : calls[j].owned \in Nat
  BY ActivationType DEF TypeInv, CallsInv
<1> HIDE DEF m
<1>5. m = 1 => Len(scopes) = 1 + Top.owned
  BY <1>1, <1>3
<1>6. ASSUME Nodes[calls[1].n].k = "Func" PROVE \A j \in 2 .. m + 1 : h[j] > 1
  <2>1. calls[1].owned = 1
    BY <1>6, OuterActivation
  <2>2. h[2] = 2
    BY <1>1, <1>3, <2>1
  <2> DEFINE low == {j \in 2 .. m + 1 : ~(h[j] > 1)}
  <2>3. ASSUME low # {} PROVE FALSE
    <3>1. PICK j \in low : \A i \in low : j <= i
      <4>1. low \subseteq Nat
        BY <1>1
      <4> QED BY <2>3, <4>1, Least
    <3>2. j \in 3 .. m + 1
      BY <1>1, <2>2
    <3>3. j - 1 \in 2 .. m + 1 /\ j - 1 \in 1 .. m /\ j - 1 + 1 = j
      BY <1>1, <3>2
    <3>4. h[j - 1] > 1
      BY <1>1, <3>1, <3>3
    <3>5. h[j] = h[j - 1] + calls[j - 1].owned
      BY <1>3, <3>3
    <3>6. h[j - 1] \in Nat /\ calls[j - 1].owned \in Nat
      BY <1>1, <1>3, <1>4, <3>3
    <3> QED BY <3>1, <3>4, <3>5, <3>6
  <2> QED BY <2>3
<1>7. Nodes[calls[1].n].k = "Func" => Len(scopes) > 1
  BY <1>1, <1>3, <1>6
<1>8. m > 1 /\ Nodes[calls[1].n].k = "Func" => Len(scopes) - Top.owned > 1
  <2> SUFFICES ASSUME m > 1, Nodes[calls[1].n].k = "Func" PROVE Len(scopes) - Top.owned > 1
    OBVIOUS
  <2>1. h[m] > 1 /\ h[m] \in Nat /\ h[m + 1] = h[m] + Top.owned /\ Top.owned \in Nat
    BY <1>1, <1>3, <1>4, <1>6
  <2> QED BY <1>3, <2>1
<1> QED BY <1>5, <1>7, <1>8 DEF m

\* An activation's answer leaves the nodes of the others.
LEMMA SameNodes ==
  ASSUME TypeInv, calls # <<>>, NEW r, calls' = Popped(r)
  PROVE  /\ Len(calls') = Len(calls) - 1 /\ Len(calls) \in Nat \ {0}
         /\ \A j \in 1 .. Len(calls') : calls'[j].n = calls[j].n
<1>1. Len(calls') = Len(calls) - 1 /\ Len(calls) \in Nat \ {0}
  BY Answered
<1>2. ASSUME NEW j \in 1 .. Len(calls') PROVE calls'[j].n = calls[j].n
  <2>1. CASE j \in 1 .. Len(calls) - 2
    <3>1. calls'[j] = calls[j]
      BY <2>1, Answered
    <3> QED BY <3>1
  <2>2. CASE j = Len(calls) - 1
    <3>1. Len(calls) > 1
      BY <1>1, <2>2
    <3>2. calls'[Len(calls) - 1].n = calls[Len(calls) - 1].n
      BY <3>1, Answered
    <3> QED BY <2>2, <3>2
  <2> QED BY <1>1, <2>1, <2>2
<1> QED BY <1>1, <1>2

\* So the declaration stays the outermost activation until it is answered itself.
LEMMA PopStatements ==
  ASSUME TypeInv, StatementsInv, calls # <<>>, NEW r, calls' = Popped(r), item' = item
  PROVE  /\ StatementsInv' /\ item \in Nat \ {0, 1}
         /\ Len(calls) = 1 => Walked' = Walked + 1 /\ Walked' = item - 1
         /\ Len(calls) # 1 => Walked' = Walked
<1>1. /\ Len(calls') = Len(calls) - 1 /\ Len(calls) \in Nat \ {0}
      /\ \A j \in 1 .. Len(calls') : calls'[j].n = calls[j].n
  BY SameNodes
<1>2. StatementsInv'
  <2> SUFFICES ASSUME NEW j \in 2 .. Len(calls'), Nodes[calls'[j].n].k \in StmtKind
               PROVE  Nodes[calls'[1].n].k = "Func"
    BY DEF StatementsInv
  <2>1. j \in 1 .. Len(calls') /\ 1 \in 1 .. Len(calls') /\ j \in 2 .. Len(calls)
    BY <1>1
  <2> QED BY <1>1, <2>1 DEF StatementsInv
<1>3. item \in Nat \ {0, 1}
  BY OuterActivation, TypeParts
<1>4. Len(calls) = 1 => calls' = <<>>
  <2>1. calls' = [j \in 1 .. Len(calls) - 1 |-> calls'[j]]
    BY Answered
  <2> QED BY <2>1
<1>5. Len(calls) # 1 => calls' # <<>>
  BY <1>1
<1> QED BY <1>2, <1>3, <1>4, <1>5 DEF Walked

\* Where the innermost activation, and its caller's, are.
LEMMA Places ==
  ASSUME TypeInv, calls # <<>>
  PROVE  /\ Len(calls) \in Nat \ {0} /\ Len(calls) \in 1 .. Len(calls)
         /\ Len(calls) # 1 => /\ Len(calls) > 1 /\ Len(calls) \in 2 .. Len(calls)
                              /\ Len(calls) - 1 \in 1 .. Len(calls) - 1
                              /\ Len(calls) - 1 \in 1 .. Len(calls) /\ Len(calls) - 1 + 1 = Len(calls)
<1> DEFINE m == Len(calls)
<1>1. m \in Nat \ {0}
  BY TopType
<1> HIDE DEF m
<1>2. m \in 1 .. m /\ (m # 1 => m > 1 /\ m \in 2 .. m /\ m - 1 \in 1 .. m - 1 /\ m - 1 \in 1 .. m /\ m - 1 + 1 = m)
  BY <1>1
<1> QED BY <1>1, <1>2 DEF m

\* A single declaration gives its own name a symbol.
LEMMA DeclareOne ==
  ASSUME declared \in Seq(NodeId), NEW s \in [Name -> Symbol], NEW n \in NodeId, NEW x \in Name
  PROVE  Declare(s, <<n>>)[x] = IF Nodes[n].name = x THEN [id |-> Len(declared), ty |-> Nodes[n].ty]
                                ELSE s[x]
<1> DEFINE ds == <<n>>
           named == {i \in DOMAIN ds : Nodes[ds[i]].name = x}
           last == CHOOSE i \in named : \A j \in named : j <= i
<1>1. named = IF Nodes[n].name = x THEN {1} ELSE {}
  OBVIOUS
<1>2. Nodes[n].name = x => last = 1
  <2>1. Nodes[n].name = x => named = {1}
    BY <1>1
  <2> HIDE DEF named
  <2>2. \A i : i = 1 => i <= i
    OBVIOUS
  <2> QED BY <2>1, <2>2
<1>3. Declare(s, ds)[x] = IF named = {} THEN s[x]
                          ELSE [id |-> Len(declared) + last - 1, ty |-> Nodes[ds[last]].ty]
  BY DEF Declare
<1> HIDE DEF named, last
<1>4. Len(declared) + 1 - 1 = Len(declared) /\ ds[1] = n
  OBVIOUS
<1> HIDE DEF ds
<1> QED BY <1>1, <1>2, <1>3, <1>4 DEF ds

LEMMA CheckChildScope == ASSUME TypeInv, ScopeInv, CheckChild PROVE ScopeInv'
<1>1. calls # <<>> /\ ~Complete(Top) /\ UNCHANGED <<prog, pass, item>>
  BY DEF CheckChild, Walking
<1>2. PICK g : g = Frame(Here.kids[Done + 1], Expected(Top, Done + 1), Opened(Here, Done + 1))
  OBVIOUS
<1>3. g.n = Here.kids[Done + 1] /\ g.owned = Opened(Here, Done + 1) /\ g \in Frames
  BY <1>1, <1>2, ChildActivation DEF Activation
<1>4. calls' = Append(calls, g) /\ scopes' = scopes \o [s \in 1 .. g.owned |-> NoNames]
  BY <1>2, <1>3, Zenon DEF CheckChild
<1>5. /\ calls \in Seq(Frames) /\ Len(calls) \in Nat \ {0} /\ scopes \in Seq([Name -> Symbol])
      /\ Len(scopes) \in Nat \ {0} /\ g.owned \in Nat
  BY <1>1, <1>3, TypeParts DEF Frames
<1>6. scopes'[1] = scopes[1]
  BY <1>4, <1>5, OpenedScopes
<1>7. /\ Len(calls') = Len(calls) + 1 /\ \A j \in 1 .. Len(calls) : calls'[j] = calls[j]
      /\ calls'[Len(calls) + 1] = g /\ calls' # <<>>
  <2>1. calls \in Seq(Frames) /\ g \in Frames /\ calls' = Append(calls, g)
    BY <1>3, <1>4, <1>5
  <2> QED BY <2>1, OneMore
<1>8. GlobalsInv'
  BY <1>1, <1>6, <1>7 DEF ScopeInv, GlobalsInv, Walked
<1>9. Nodes[g.n].k \in StmtKind => Nodes[calls[1].n].k = "Func"
  <2> SUFFICES ASSUME Nodes[g.n].k \in StmtKind PROVE Nodes[calls[1].n].k = "Func"
    OBVIOUS
  <2>1. /\ Activation(Top) /\ Here = Nodes[Top.n] /\ Top.n \in NodeId /\ Done = Len(Top.rs)
        /\ Top = calls[Len(calls)]
    BY <1>1, TopType
  <2>2. Done + 1 \in 1 .. Len(Here.kids)
    BY <1>1, <2>1, NextChild
  <2>3. Here.k \notin ExprKind \cup {"Expr", "VarDecl", "Return"}
    BY <1>3, <2>1, <2>2, KidKinds, KindsApart
  <2>4. Here.k \in StmtKind \cup {"Func"}
    BY <2>1, <2>3, ActivationType
  <2>5. CASE Len(calls) = 1
    BY <1>1, <2>1, <2>3, <2>5, OuterActivation
  <2>6. CASE Here.k = "Func" /\ Len(calls) # 1
    <3>1. Here.k \in StmtKind
      <4>1. Len(calls) - 1 \in 1 .. Len(calls) - 1 /\ Len(calls) - 1 \in 1 .. Len(calls)
            /\ Len(calls) - 1 + 1 = Len(calls)
        BY <1>1, <2>6, Places
      <4>2. Activation(calls[Len(calls) - 1]) /\ Awaits(calls[Len(calls) - 1], Top)
        BY <2>1, <4>1 DEF TypeInv, CallsInv
      <4>3. Here.k \in ExprKind \cup StmtKind
        BY <2>1, <4>2, NextChild DEF Awaits
      <4> QED BY <2>6, <4>3, KindsApart
    <3> QED BY <2>6, <3>1, KindsApart
  <2>7. CASE Here.k \in StmtKind /\ Len(calls) # 1
    <3>1. Len(calls) \in 2 .. Len(calls)
      BY <1>1, <2>7, Places
    <3> QED BY <2>1, <2>7, <3>1 DEF ScopeInv, StatementsInv
  <2> QED BY <2>4, <2>5, <2>6, <2>7
<1>10. StatementsInv'
  <2> SUFFICES ASSUME NEW j \in 2 .. Len(calls'), Nodes[calls'[j].n].k \in StmtKind
               PROVE  Nodes[calls'[1].n].k = "Func"
    BY DEF StatementsInv
  <2>1. calls'[1] = calls[1]
    BY <1>5, <1>7
  <2>2. CASE j = Len(calls) + 1
    BY <1>7, <1>9, <2>1, <2>2
  <2>3. CASE j # Len(calls) + 1
    <3>1. j \in 2 .. Len(calls) /\ calls'[j] = calls[j]
      BY <1>5, <1>7, <2>3
    <3> QED BY <2>1, <3>1 DEF ScopeInv, StatementsInv
  <2> QED BY <2>2, <2>3
<1> QED BY <1>8, <1>10 DEF ScopeInv

LEMMA CheckExprScope == ASSUME TypeInv, ScopeInv, CheckExpr PROVE ScopeInv'
<1>1. PICK r : calls' = Popped(r)
  BY Zenon DEF CheckExpr
<1>2. calls # <<>> /\ Here.k \in ExprKind /\ UNCHANGED <<prog, pass, item, scopes>>
  BY DEF CheckExpr, Walking
<1>3. Len(calls) # 1
  <2>1. Len(calls) > 1
    BY <1>2, ExprOwnsNone
  <2> DEFINE m == Len(calls)
  <2> HIDE DEF m
  <2>2. m > 1 => m # 1
    OBVIOUS
  <2> QED BY <2>1, <2>2 DEF m
<1>4. StatementsInv' /\ Walked' = Walked
  BY <1>1, <1>2, <1>3, PopStatements DEF ScopeInv
<1> QED BY <1>2, <1>4 DEF ScopeInv, GlobalsInv

LEMMA DeclareLocalVarScope == ASSUME TypeInv, ScopeInv, DeclareLocalVar PROVE ScopeInv'
<1> DEFINE ss == [scopes EXCEPT ![Len(scopes)] = Declare(Scope, <<Top.n>>)]
<1>1. /\ calls # <<>> /\ Here.k = "VarDecl" /\ scopes' = Close(ss) /\ calls' = Popped(None)
      /\ UNCHANGED <<prog, pass, item>>
  BY DEF DeclareLocalVar, Walking
<1>2. /\ Top.n \in NodeId /\ Here = Nodes[Top.n] /\ declared \in Seq(NodeId)
      /\ scopes \in Seq([Name -> Symbol]) /\ Len(scopes) \in Nat \ {0} /\ Top = calls[Len(calls)]
      /\ Here.name \in Name /\ Here.ty \in Type
  BY <1>1, TopType, TypeParts, NodeType
<1>3. Top.owned \in Nat /\ Len(scopes) - Top.owned \in Nat \ {0}
  BY <1>1, OwnedScopes
<1>4. /\ ss \in Seq([Name -> Symbol]) /\ Len(ss) = Len(scopes)
      /\ ss[1] = IF 1 = Len(scopes) THEN Declare(Scope, <<Top.n>>) ELSE scopes[1]
  BY <1>1, <1>2, DeclaredScopes
<1> HIDE DEF ss
<1>5. scopes'[1] = ss[1]
  BY <1>1, <1>3, <1>4, CloseType DEF Close
<1>6. /\ StatementsInv' /\ item \in Nat \ {0, 1}
      /\ Len(calls) = 1 => Walked' = Walked + 1 /\ Walked' = item - 1
      /\ Len(calls) # 1 => Walked' = Walked
  BY <1>1, PopStatements DEF ScopeInv
<1>7. CASE Len(calls) = 1
  <2>1. Top.owned = 0 /\ Len(scopes) = 1 /\ Top.n = prog[item - 1] /\ Nodes[prog[item - 1]].k = "VarDecl"
    <3>1. Top = calls[1]
      BY <1>2, <1>7
    <3>2. Top.n = prog[item - 1] /\ Top.owned = IF Here.k = "Func" THEN 1 ELSE 0
      BY <1>1, <1>2, <3>1, OuterActivation
    <3>3. Len(scopes) = 1 + Top.owned
      BY <1>1, <1>7, FuncScopes
    <3> QED BY <1>1, <1>2, <3>2, <3>3
  <2>2. scopes'[1] = Declare(scopes[1], <<Top.n>>) /\ scopes[1] \in [Name -> Symbol]
    <3>1. Scope = scopes[1]
      BY <2>1 DEF Scope
    <3>2. scopes'[1] = Declare(Scope, <<Top.n>>)
      BY <1>4, <1>5, <2>1
    <3>3. scopes[1] \in [Name -> Symbol]
      <4>1. 1 \in 1 .. Len(scopes)
        BY <2>1
      <4> QED BY <1>2, <4>1
    <3> QED BY <3>1, <3>2, <3>3
  <2>3. ASSUME NEW x \in Name
        PROVE  scopes'[1][x] # Unknown <=> scopes[1][x] # Unknown \/ x = Here.name
    <3>1. scopes'[1][x] = IF Here.name = x THEN [id |-> Len(declared), ty |-> Here.ty] ELSE scopes[1][x]
      <4> DEFINE sc == scopes[1]  n == Top.n
      <4>1. sc \in [Name -> Symbol] /\ n \in NodeId /\ Here = Nodes[n] /\ scopes'[1] = Declare(sc, <<n>>)
        BY <1>2, <2>2
      <4> HIDE DEF sc, n
      <4>2. Declare(sc, <<n>>)[x] = IF Nodes[n].name = x THEN [id |-> Len(declared), ty |-> Nodes[n].ty] ELSE sc[x]
        BY <1>2, <4>1, DeclareOne
      <4> QED BY <4>1, <4>2 DEF sc
    <3>2. [id |-> Len(declared), ty |-> Here.ty] # Unknown
      BY <1>2, BaseTypes DEF Unknown
    <3> QED BY <3>1, <3>2
  <2>4. Names(scopes'[1]) = Names(scopes[1]) \cup {Here.name}
    BY <1>2, <2>3 DEF Names
  <2>5. Walked' \in Nat \ {0} /\ Walked' = item - 1 /\ Walked = Walked' - 1
    BY <1>6, <1>7 DEF Walked
  <2>6. PICK w : w = Walked'
    OBVIOUS
  <2>7. GlobalNames(w) = GlobalNames(w - 1) \cup {Here.name}
    BY <1>2, <2>1, <2>5, <2>6, GlobalsStep
  <2>8. GlobalsInv'
    <3>1. pass = 2 => Names(scopes[1]) = GlobalNames(Walked)
      BY DEF ScopeInv, GlobalsInv, Names, GlobalNames
    <3>2. pass = 2 => Names(scopes'[1]) = GlobalNames(w)
      BY <2>4, <2>5, <2>6, <2>7, <3>1
    <3> QED BY <1>1, <2>6, <3>2 DEF GlobalsInv, Names, GlobalNames
  <2> QED BY <1>6, <2>8 DEF ScopeInv
<1>8. CASE Len(calls) # 1
  <2>1. Len(calls) \in 2 .. Len(calls) /\ Here.k \in StmtKind
    BY <1>1, <1>8, Places, KindsApart
  <2>2. Nodes[calls[1].n].k = "Func"
    BY <1>2, <2>1 DEF ScopeInv, StatementsInv
  <2>3. Len(scopes) > 1
    BY <1>1, <2>2, FuncScopes
  <2>4. scopes'[1] = scopes[1]
    BY <1>2, <1>4, <1>5, <2>3
  <2> QED BY <1>1, <1>6, <1>8, <2>4 DEF ScopeInv, GlobalsInv
<1> QED BY <1>7, <1>8
LEMMA CheckStmtScope == ASSUME TypeInv, ScopeInv, CheckStmt PROVE ScopeInv'
<1>1. PICK r : calls' = Popped(r)
  BY Zenon DEF CheckStmt
<1>2. /\ calls # <<>> /\ Here.k # "VarDecl" /\ scopes' = Close(scopes) /\ UNCHANGED <<prog, pass, item>>
  BY DEF CheckStmt, Walking
<1>3. Top.owned \in Nat /\ Len(scopes) - Top.owned \in Nat \ {0} /\ scopes \in Seq([Name -> Symbol])
  BY <1>2, OwnedScopes, TypeParts
<1>4. scopes'[1] = scopes[1]
  BY <1>2, <1>3, CloseType DEF Close
<1>5. /\ StatementsInv' /\ item \in Nat \ {0, 1}
      /\ Len(calls) = 1 => Walked' = Walked + 1 /\ Walked' = item - 1
      /\ Len(calls) # 1 => Walked' = Walked
  BY <1>1, <1>2, PopStatements DEF ScopeInv
<1>6. CASE Len(calls) = 1
  <2>1. Nodes[prog[item - 1]].k # "VarDecl"
    <3>1. Top = calls[1] /\ Here = Nodes[Top.n]
      BY <1>2, <1>6, TopType
    <3> QED BY <1>2, <3>1, OuterActivation
  <2>2. PICK w : w = Walked'
    OBVIOUS
  <2>3. w \in Nat \ {0} /\ w = item - 1 /\ Walked = w - 1
    BY <1>5, <1>6, <2>2 DEF Walked
  <2>4. GlobalNames(w) = GlobalNames(w - 1)
    BY <2>1, <2>3, GlobalsStep
  <2> QED BY <1>2, <1>4, <1>5, <2>2, <2>3, <2>4 DEF ScopeInv, GlobalsInv, GlobalNames
<1>7. CASE Len(calls) # 1
  BY <1>2, <1>4, <1>5, <1>7 DEF ScopeInv, GlobalsInv
<1> QED BY <1>6, <1>7

LEMMA NoCallsNoStatements == ASSUME calls = <<>> PROVE StatementsInv
<1>1. \A j \in 2 .. Len(calls) : FALSE
  <2>1. Len(calls) = 0
    OBVIOUS
  <2> QED BY <2>1
<1> QED BY <1>1 DEF StatementsInv

LEMMA HoistFuncScope == ASSUME TypeInv, ScopeInv, HoistFunc PROVE ScopeInv'
<1>1. pass = 1 /\ pass' = 1 /\ calls' = calls
  BY DEF HoistFunc
<1>2. calls' = <<>>
  BY <1>1 DEF TypeInv, PhaseInv
<1> QED BY <1>1, <1>2 DEF ScopeInv, StatementsInv, GlobalsInv

LEMMA RequireMainScope == ASSUME TypeInv, ScopeInv, RequireMain PROVE ScopeInv'
<1>1. pass = 1 /\ item' = 1 /\ UNCHANGED <<prog, calls, scopes>>
  BY DEF RequireMain
<1>2. calls' = <<>> /\ scopes' = <<NoNames>>
  BY <1>1 DEF TypeInv, PhaseInv
<1>3. Walked' = 0
  BY <1>1, <1>2 DEF Walked
<1>4. scopes'[1] = NoNames
  BY <1>2
<1>5. \A x \in Name : NoNames[x] = Unknown
  BY DEF NoNames
<1>6. GlobalsInv'
  BY <1>3, <1>4, <1>5 DEF GlobalsInv
<1>7. StatementsInv'
  BY <1>1 DEF ScopeInv, StatementsInv
<1> QED BY <1>6, <1>7 DEF ScopeInv

LEMMA CheckDeclScope == ASSUME TypeInv, ScopeInv, CheckDecl PROVE ScopeInv'
<1>1. /\ calls = <<>> /\ item' = item + 1 /\ UNCHANGED <<prog, pass>> /\ item <= Len(prog)
  BY DEF CheckDecl
<1>2. PICK g : calls' = <<g>>
  BY Zenon DEF CheckDecl
<1>3. Len(calls') = 1 /\ calls' # <<>>
  BY <1>2
<1>4. StatementsInv'
  <2>1. \A j \in 2 .. Len(calls') : FALSE
    BY <1>3
  <2> QED BY <2>1 DEF StatementsInv
<1>5. /\ scopes \in Seq([Name -> Symbol]) /\ Len(scopes) = 1 /\ declared \in Seq(NodeId)
      /\ Decl.params \in Seq(NodeId) /\ item \in Nat
  BY <1>1, OneScope, TypeParts, DeclType, NodeType
<1>6. scopes'[1] = scopes[1]
  <2>1. scopes' = scopes \/ scopes' = Append(scopes, Declare(NoNames, Decl.params))
    BY Zenon DEF CheckDecl
  <2>2. NoNames \in [Name -> Symbol]
    BY DEF NoNames, Symbol
  <2>3. Declare(NoNames, Decl.params) \in [Name -> Symbol]
    BY <1>5, <2>2, DeclareType
  <2> QED BY <1>5, <2>1, <2>3, AppendProperties
<1>7. Walked' = Walked
  BY <1>1, <1>3, <1>5 DEF Walked
<1> QED BY <1>1, <1>4, <1>6, <1>7 DEF ScopeInv, GlobalsInv

LEMMA ConcludeScope == ASSUME TypeInv, ScopeInv, Conclude PROVE ScopeInv'
<1>1. pass' = 3 /\ calls' = calls
  BY DEF Conclude
<1> QED BY <1>1 DEF ScopeInv, StatementsInv, GlobalsInv

LEMMA IdleScope == ASSUME ScopeInv, UNCHANGED vars PROVE ScopeInv'
BY DEF vars, ScopeInv, StatementsInv, GlobalsInv, Walked

LEMMA InitScope == ASSUME Init PROVE ScopeInv
<1>1. pass = 1 /\ calls = <<>>
  BY DEF Init
<1> QED BY <1>1, NoCallsNoStatements DEF ScopeInv, GlobalsInv

LEMMA ScopeMeans == ASSUME TypeInv, ScopeInv PROVE OnlyGlobalsStay
<1> SUFFICES ASSUME pass = 2, calls = <<>> PROVE OnlyGlobalsStay
  BY DEF OnlyGlobalsStay
<1>1. Len(scopes) = 1 /\ Scope = scopes[1]
  BY OneScope DEF Scope
<1>2. Walked = item - 1
  BY DEF Walked
<1> QED BY <1>1, <1>2 DEF ScopeInv, GlobalsInv, OnlyGlobalsStay

(***************************************************************************)
(* Between two declarations the only scope is the global one, and it holds *)
(* the global variables walked so far, for every program: check_scoped_stmt, *)
(* blocks, for loops and functions pop every scope they push.              *)
(***************************************************************************)
THEOREM ScopesClose == Spec => []OnlyGlobalsStay
<1>1. ASSUME TypeInv, ScopeInv, [Next]_vars PROVE ScopeInv'
  BY <1>1, CheckChildScope, CheckExprScope, DeclareLocalVarScope, CheckStmtScope, HoistFuncScope,
     RequireMainScope, CheckDeclScope, ConcludeScope, IdleScope DEF Next, Step
<1>2. TypeInv /\ ScopeInv /\ [Next]_vars => ScopeInv'
  BY <1>1
<1>3. TypeInv /\ ScopeInv => OnlyGlobalsStay
  BY ScopeMeans
<1> QED BY <1>2, <1>3, InitScope, TypesHold, PTL DEF Spec
(***************************************************************************)
(* Nothing is rejected in silence.                                         *)
(***************************************************************************)
\* What an expression has not reported when it has reported nothing.
LEMMA NothingReported ==
  ASSUME NEW f, Report(f) = <<>>, Nodes[f.n].k \in ExprKind
  PROVE  /\ ReportExpr(f, Nodes[f.n]) = <<>>
         /\ ~(/\ Nodes[f.n].k # "ArrayLiteral" /\ Complete(f)
              /\ TypeFrom(f) # None /\ Against(f, TypeFrom(f)) = None)
<1> DEFINE nd == Nodes[f.n]
           c == /\ nd.k \in ExprKind \ {"ArrayLiteral"} /\ Complete(f)
                /\ TypeFrom(f) # None /\ Against(f, TypeFrom(f)) = None
           a == ReportExpr(f, nd)
<1>1. PICK b : Report(f) = Said(b, "NonBoolCondition") \o a \o Said(c, "TypeMismatch")
  BY Zenon DEF Report
<1>2. /\ a \in Seq(ErrorKind) /\ Said(b, "NonBoolCondition") \in Seq(ErrorKind)
      /\ Said(c, "TypeMismatch") \in Seq(ErrorKind)
  BY ReportExprType, SaidTypes
<1> HIDE DEF a, c
<1>3. a = <<>> /\ Said(c, "TypeMismatch") = <<>>
  <2> DEFINE u == Said(b, "NonBoolCondition")  v == Said(c, "TypeMismatch")
  <2>1. u \in Seq(ErrorKind) /\ v \in Seq(ErrorKind) /\ (u \o a) \o v = <<>>
    BY <1>1, <1>2
  <2> HIDE DEF u, v
  <2>2. u \o a \in Seq(ErrorKind)
    BY <1>2, <2>1
  <2>3. u \o a = <<>> /\ v = <<>>
    BY <2>1, <2>2, NothingJoined
  <2>4. a = <<>>
    BY <1>2, <2>1, <2>3, NothingJoined
  <2> QED BY <2>3, <2>4 DEF v
<1>4. ~c
  BY <1>3 DEF Said
<1> QED BY <1>3, <1>4 DEF a, c

LEMMA SaidNothing == ASSUME NEW c, NEW e, Said(c, e) = <<>> PROVE ~c
BY DEF Said

\* An expression that has the types of its children and reports nothing has a type, and
\* the type that is expected of it.
LEMMA SpeaksUp ==
  ASSUME FunctionsOK, ScopesOK, NEW f, Activation(f), Nodes[f.n].k \in ExprKind, Complete(f),
         \A i \in 1 .. Len(f.rs) : f.rs[i] # None,
         f.rs # <<>> => ~ReportsAtOnce(Nodes[f.n]),
         Report(f) = <<>>
  PROVE  Against(f, TypeFrom(f)) # None
<1> DEFINE nd == Nodes[f.n]  rs == f.rs
<1>1. /\ f.n \in NodeId /\ f.exp \in Type \cup {None} /\ Len(f.rs) \in Nat /\ nd.name \in Name
      /\ nd.ty \in Type /\ DOMAIN rs = 1 .. Len(rs) /\ rs \in Seq(Result)
  BY ActivationType, NodeType
<1>2. \A i \in 1 .. Len(rs) : rs[i] \in Type
  BY ExprAnswers
<1>3. /\ ReportExpr(f, nd) = <<>>
      /\ ~(nd.k # "ArrayLiteral" /\ TypeFrom(f) # None /\ Against(f, TypeFrom(f)) = None)
  BY NothingReported
<1>4. ~BadTarget(nd)
  <2>1. BadTarget(nd) => Said(f.rs = <<>>, "InvalidAssignTarget") = <<>>
    BY <1>3 DEF ReportExpr
  <2> QED BY <2>1, SaidNothing DEF ReportsAtOnce
<1>5. ~AnyOf(rs, None)
  BY <1>1, <1>2, BaseTypes DEF AnyOf
<1>6. nd.k \in {"Unary", "IncDec", "FieldAccess", "ArrayCreation", "Binary", "CompoundAssign", "Assign",
                "Index", "Ternary"} => Len(rs) = Len(nd.kids)
  BY <1>1, <1>2, BaseTypes DEF Complete, GivesUp
<1>7. CASE nd.k = "ArrayLiteral"
  <2>1. TypeFrom(f) = ArrayLiteralType(f, nd)
    BY <1>4, <1>7 DEF TypeFrom
  <2>2. Said(IF f.exp = None THEN nd.kids = <<>> ELSE ~IsArray(f.exp), "TypeMismatch") = <<>>
    BY <1>3, <1>4, <1>7 DEF ReportExpr
  <2>3. IF f.exp = None THEN nd.kids # <<>> ELSE IsArray(f.exp)
    BY <2>2, SaidNothing
  <2>4. CASE f.exp # None
    <3>1. TypeFrom(f) = f.exp
      BY <1>5, <2>1, <2>3, <2>4 DEF ArrayLiteralType
    <3> QED BY <2>4, <3>1 DEF Against
  <2>5. CASE f.exp = None
    <3>1. Len(rs) = Len(nd.kids) /\ Len(nd.kids) \in Nat \ {0}
      <4>1. Len(rs) = Len(nd.kids)
        BY <1>1, <1>2, <1>7, <2>5, BaseTypes DEF Complete, GivesUp
      <4>2. nd.kids # <<>> /\ nd.kids \in Seq(NodeId)
        BY <1>1, <2>3, <2>5, NodeType
      <4> QED BY <4>1, <4>2
    <3>2. TypeFrom(f) = ArrayOf(rs[1]) /\ rs[1] \in Type
      BY <1>2, <1>5, <2>1, <2>3, <2>5, <3>1 DEF ArrayLiteralType
    <3>3. TypeFrom(f) \in Type
      BY <3>2, ArrayTypes
    <3> QED BY <2>5, <3>3, BaseTypes DEF Against
  <2> QED BY <2>4, <2>5
<1>8. ASSUME nd.k # "ArrayLiteral" PROVE TypeFrom(f) # None
  <2>1. CASE nd.k = "Ident"
    <3>1. Said(Resolve(nd.name) = Unknown, "UndeclaredIdentifier") = <<>>
      BY <1>3, <1>4, <2>1 DEF ReportExpr
    <3>2. TypeFrom(f) = Resolve(nd.name).ty
      BY <1>4, <2>1 DEF TypeFrom
    <3>3. Resolve(nd.name) # Unknown
      BY <3>1, SaidNothing
    <3> QED BY <1>1, <3>2, <3>3, ResolveType, SymbolType
  <2>2. CASE nd.k = "Assign"
    <3>1. TypeFrom(f) = IF Len(rs) = 2 THEN rs[2] ELSE None
      BY <1>4, <2>2 DEF TypeFrom
    <3>2. Len(rs) = 2
      BY <1>1, <1>6, <2>2, KidCounts
    <3> QED BY <1>2, <3>1, <3>2, BaseTypes
  <2>3. CASE nd.k \in {"Binary", "Unary", "IncDec", "CompoundAssign", "ArrayCreation"}
    <3>1. Said(NoRule(f, 1), "TypeMismatch") = <<>>
      BY <1>3, <1>4, <2>3 DEF ReportExpr
    <3>2. ~NoRule(f, 1)
      BY <3>1, SaidNothing
    <3> QED BY <3>2 DEF NoRule
  <2>4. CASE nd.k = "Ternary"
    <3>1. Said(Len(f.rs) = 3 /\ NoRule(f, 2), "TypeMismatch") = <<>>
      BY <1>3, <1>4, <2>4 DEF ReportExpr
    <3>2. Len(f.rs) = 3
      BY <1>1, <1>6, <2>4, KidCounts
    <3>3. ~NoRule(f, 2)
      BY <3>1, <3>2, SaidNothing
    <3> QED BY <3>2, <3>3 DEF NoRule
  <2>5. CASE nd.k = "FieldAccess"
    <3>1. Said(NoRule(f, 1), "UnknownField") = <<>>
      BY <1>3, <1>4, <2>5 DEF ReportExpr
    <3>2. ~NoRule(f, 1)
      BY <3>1, SaidNothing
    <3> QED BY <3>2 DEF NoRule
  <2>6. CASE nd.k = "Call"
    <3>1. ReportExpr(f, nd) = IF f.rs = <<>> THEN CallError(nd) ELSE <<>>
      BY <1>4, <2>6 DEF ReportExpr
    <3>2. CallError(nd) = <<>>
      BY <1>3, <2>6, <3>1 DEF ReportsAtOnce
    <3>3. TypeFrom(f) = CallType(f, nd)
      BY <1>4, <2>6 DEF TypeFrom
    <3>4. CASE nd.name = "print"
      BY <3>2, <3>3, <3>4, BaseTypes DEF CallType
    <3>5. CASE nd.name # "print"
      <4>1. TypeFrom(f) = functions[nd.name].ret
        BY <1>5, <3>2, <3>3, <3>5 DEF CallType
      <4> QED BY <1>1, <3>2, <3>5, <4>1, CalleeType, BaseTypes
    <3> QED BY <3>4, <3>5
  <2>7. CASE nd.k = "Index"
    <3>1. Len(rs) = 2
      BY <1>1, <1>6, <2>7, KidCounts
    <3>2. ReportExpr(f, nd) = Said(f.rs[1] # None /\ ~IsArray(f.rs[1]), "NotIndexable")
                              \o Said(f.rs[2] \notin {None, TInt}, "TypeMismatch")
      BY <1>4, <2>7, <3>1 DEF ReportExpr
    <3>3. /\ Said(f.rs[1] # None /\ ~IsArray(f.rs[1]), "NotIndexable") = <<>>
          /\ Said(f.rs[2] \notin {None, TInt}, "TypeMismatch") = <<>>
      <4>1. /\ Said(f.rs[1] # None /\ ~IsArray(f.rs[1]), "NotIndexable") \in Seq(ErrorKind)
            /\ Said(f.rs[2] \notin {None, TInt}, "TypeMismatch") \in Seq(ErrorKind)
        BY SaidTypes
      <4> DEFINE u == Said(f.rs[1] # None /\ ~IsArray(f.rs[1]), "NotIndexable")
                 v == Said(f.rs[2] \notin {None, TInt}, "TypeMismatch")
      <4> HIDE DEF u, v
      <4>2. u \in Seq(ErrorKind) /\ v \in Seq(ErrorKind) /\ u \o v = <<>>
        BY <1>3, <3>2, <4>1 DEF u, v
      <4>3. u = <<>> /\ v = <<>>
        BY <4>2
      <4> QED BY <4>3 DEF u, v
    <3>4. IsArray(rs[1]) /\ rs[2] = TInt
      <4>1. ~(f.rs[1] # None /\ ~IsArray(f.rs[1])) /\ ~(f.rs[2] \notin {None, TInt})
        BY <3>3, SaidNothing
      <4> QED BY <1>2, <3>1, <4>1, BaseTypes
    <3>5. TypeFrom(f) = ElemOf(rs[1])
      BY <1>4, <2>7, <3>4 DEF TypeFrom
    <3> QED BY <1>2, <3>1, <3>4, <3>5, ArrayTypes, BaseTypes
  <2>8. CASE nd.k \in {"IntLiteral", "FloatLiteral", "BoolLiteral", "StringLiteral", "Null"}
    <3>1. TypeFrom(f) = LiteralType(nd.k)
      BY <1>4, <2>8 DEF TypeFrom
    <3> QED BY <3>1, BaseTypes DEF LiteralType
  <2> QED BY <1>8, <2>1, <2>2, <2>3, <2>4, <2>5, <2>6, <2>7, <2>8 DEF ExprKind
<1> QED BY <1>3, <1>7, <1>8
\* The activation that waits for the innermost one, and which of its children that is.
LEMMA Caller ==
  ASSUME TypeInv, calls # <<>>, Len(calls) # 1
  PROVE  LET f == calls[Len(calls) - 1]
         IN  /\ Activation(f) /\ Awaits(f, Top) /\ Len(f.rs) \in Nat /\ f.rs \in Seq(Result)
             /\ f.n \in NodeId /\ Len(f.rs) + 1 \in 1 .. Len(Nodes[f.n].kids)
             /\ Nodes[f.n].kids[Len(f.rs) + 1] = Top.n
<1> DEFINE f == calls[Len(calls) - 1]
<1>1. Activation(f) /\ Awaits(f, Top)
  BY Places DEF TypeInv, CallsInv, Top
<1> HIDE DEF f
<1>2. Len(f.rs) \in Nat /\ f.rs \in Seq(Result) /\ f.n \in NodeId
  BY <1>1, ActivationType
<1>3. Len(f.rs) + 1 \in 1 .. Len(Nodes[f.n].kids) /\ Nodes[f.n].kids[Len(f.rs) + 1] = Top.n
  BY <1>1, NextChild DEF Awaits
<1> QED BY <1>1, <1>2, <1>3 DEF f

\* An activation that returns what its caller is told of keeps the caller informed.
LEMMA PopSilence ==
  ASSUME TypeInv, SilenceInv, calls # <<>>, NEW r, r \in Result, calls' = Popped(r),
         functions' = functions, errors' = <<>> => errors = <<>>,
         Here.k \in ExprKind /\ r = None => errors' # <<>>
  PROVE  SilenceInv'
<1> SUFFICES ASSUME errors' = <<>> PROVE SilenceInv'
  BY DEF SilenceInv, BegunInv, NothingIsSilent
<1>1. errors = <<>> /\ ~(Here.k \in ExprKind /\ r = None)
  OBVIOUS
<1>2. /\ Len(calls') = Len(calls) - 1 /\ Len(calls) \in Nat \ {0}
      /\ \A j \in 1 .. Len(calls') : calls'[j].n = calls[j].n
  BY SameNodes
<1>3. \A j \in 1 .. Len(calls) : Begun(j) => ~ReportsAtOnce(Nodes[calls[j].n])
  BY <1>1 DEF SilenceInv, BegunInv
<1>4. \A j \in 1 .. Len(calls') : ~ReportsAtOnce(Nodes[calls'[j].n])
  BY <1>2, <1>3 DEF Begun
<1>5. \A nd : ReportsAtOnce(nd)' <=> ReportsAtOnce(nd)
  BY DEF ReportsAtOnce, CallError
<1>6. BegunInv'
  <2> SUFFICES ASSUME NEW j \in 1 .. Len(calls'), ReportsAtOnce(Nodes[calls[j].n])' PROVE FALSE
    BY DEF BegunInv
  <2> QED BY <1>4, <1>5
<1>7. ASSUME NEW j \in 1 .. Len(calls'), NEW i \in DOMAIN calls'[j].rs,
             Nodes[Nodes[calls'[j].n].kids[i]].k \in ExprKind, calls'[j].rs[i] = None
      PROVE  FALSE
  <2>1. \A j2 \in DOMAIN calls : \A i2 \in DOMAIN calls[j2].rs :
          ~(Nodes[Nodes[calls[j2].n].kids[i2]].k \in ExprKind /\ calls[j2].rs[i2] = None)
    BY <1>1 DEF SilenceInv, NothingIsSilent
  <2>2. DOMAIN calls = 1 .. Len(calls)
    BY TypeParts
  <2>3. CASE j \in 1 .. Len(calls) - 2
    <3>1. calls'[j] = calls[j]
      BY <2>3, Answered
    <3> QED BY <1>2, <1>7, <2>1, <2>2, <3>1
  <2>4. CASE j = Len(calls) - 1
    <3>1. Len(calls) > 1 /\ Len(calls) # 1
      BY <1>2, <2>4
    <3> DEFINE f == calls[Len(calls) - 1]
    <3>2. calls'[j].rs = Append(f.rs, r) /\ calls'[j].n = f.n
      BY <2>4, <3>1, Answered
    <3>3. /\ f.rs \in Seq(Result) /\ Len(f.rs) \in Nat /\ Nodes[f.n].kids[Len(f.rs) + 1] = Top.n
          /\ j \in DOMAIN calls
      BY <1>2, <2>2, <2>4, <3>1, Caller
    <3> HIDE DEF f
    <3>4. /\ DOMAIN Append(f.rs, r) = 1 .. Len(f.rs) + 1 /\ Append(f.rs, r)[Len(f.rs) + 1] = r
          /\ \A i2 \in 1 .. Len(f.rs) : Append(f.rs, r)[i2] = f.rs[i2]
      BY <3>3, AppendProperties
    <3>5. CASE i = Len(f.rs) + 1
      <4>1. Here = Nodes[Top.n]
        BY TopType
      <4> QED BY <1>1, <1>7, <3>2, <3>3, <3>4, <3>5, <4>1
    <3>6. CASE i # Len(f.rs) + 1
      <4>1. i \in 1 .. Len(f.rs) /\ i \in DOMAIN f.rs
        BY <3>2, <3>3, <3>4, <3>6
      <4>2. f.rs[i] = None /\ Nodes[Nodes[f.n].kids[i]].k \in ExprKind
        BY <1>7, <3>2, <3>4, <4>1
      <4> QED BY <2>1, <2>4, <3>3, <4>1, <4>2 DEF f
    <3> QED BY <3>5, <3>6
  <2> QED BY <1>2, <2>3, <2>4
<1>8. NothingIsSilent'
  <2>1. DOMAIN calls' = 1 .. Len(calls')
    <3>1. calls' = [j \in 1 .. Len(calls) - 1 |-> calls'[j]] /\ Len(calls') = Len(calls) - 1
      BY Answered
    <3> QED BY <3>1
  <2> QED BY <1>7, <2>1 DEF NothingIsSilent
<1> QED BY <1>6, <1>8 DEF SilenceInv

\* What a step logs stays.
LEMMA TopLogs ==
  ASSUME TypeInv, calls # <<>>, Log(Top.n, Report(Top))
  PROVE  errors' = <<>> => errors = <<>> /\ Report(Top) = <<>>
<1>1. Top.n \in NodeId \cup {0} /\ errors \in Errors /\ Report(Top) \in Seq(ErrorKind)
  BY TopType, TypeOKParts, ReportType DEF TypeInv
<1> DEFINE kinds == Report(Top)
<1> HIDE DEF kinds
<1>2. errors' = <<>> => errors = <<>> /\ kinds = <<>>
  BY <1>1, LogType DEF kinds
<1> QED BY <1>2 DEF kinds
\* As long as nothing is reported, every expression has its type.
LEMMA TopSpeaks ==
  ASSUME TypeInv, SilenceInv, CheckExpr, errors' = <<>>
  PROVE  /\ errors = <<>> /\ Report(Top) = <<>>
         /\ \A i \in 1 .. Len(Top.rs) : Top.rs[i] # None
         /\ Against(Top, TypeFrom(Top)) # None
<1>1. /\ calls # <<>> /\ Complete(Top) /\ Here.k \in ExprKind /\ Log(Top.n, Report(Top))
  BY DEF CheckExpr, Walking
<1>2. Activation(Top) /\ Here = Nodes[Top.n] /\ FunctionsOK /\ ScopesOK /\ Top = calls[Len(calls)]
  BY <1>1, TopType, Okays
<1>3. errors = <<>> /\ Report(Top) = <<>>
  BY <1>1, TopLogs
<1>4. Len(calls) \in 1 .. Len(calls) /\ DOMAIN calls = 1 .. Len(calls)
  BY <1>1, Places, TypeParts
<1>5. Top.rs # <<>> => ~ReportsAtOnce(Here)
  BY <1>2, <1>3, <1>4 DEF SilenceInv, BegunInv, Begun
<1>6. ASSUME NEW i \in 1 .. Len(Top.rs) PROVE Top.rs[i] # None
  <2>1. i \in 1 .. Len(Here.kids) /\ Top.n \in NodeId /\ i \in DOMAIN Top.rs
    BY <1>2, ActivationType
  <2>2. Nodes[Here.kids[i]].k \in ExprKind
    BY <1>1, <1>2, <2>1, KidKinds
  <2> QED BY <1>2, <1>3, <1>4, <2>1, <2>2 DEF SilenceInv, NothingIsSilent
<1> QED BY <1>1, <1>2, <1>3, <1>5, <1>6, SpeaksUp

LEMMA CheckExprSilence == ASSUME TypeInv, SilenceInv, CheckExpr PROVE SilenceInv'
<1> DEFINE t == TypeFrom(Top)  r == Against(Top, t)
<1>1. /\ calls # <<>> /\ Complete(Top) /\ Here.k \in ExprKind /\ calls' = Popped(r)
      /\ functions' = functions
  BY DEF CheckExpr, Walking
<1>2. Activation(Top) /\ Here = Nodes[Top.n] /\ FunctionsOK /\ ScopesOK
  BY <1>1, TopType, Okays
<1>3. r \in Result
  <2>1. t \in Type \cup {None}
    BY <1>1, <1>2, RuleType
  <2> QED BY <2>1, AgainstType DEF Result
<1>4. errors' = <<>> => errors = <<>> /\ r # None
  BY TopSpeaks
<1> HIDE DEF r
<1> QED BY <1>1, <1>3, <1>4, PopSilence

\* The step of a statement or a function that returns.
LEMMA StmtSilence ==
  ASSUME TypeInv, SilenceInv, calls # <<>>, Here.k \notin ExprKind, NEW r \in {None, Returns},
         calls' = Popped(r), Log(Top.n, Report(Top)), functions' = functions
  PROVE  SilenceInv'
<1>1. r \in Result
  BY DEF Result
<1>2. errors' = <<>> => errors = <<>>
  BY TopLogs
<1> QED BY <1>1, <1>2, PopSilence

LEMMA DeclareLocalVarSilence == ASSUME TypeInv, SilenceInv, DeclareLocalVar PROVE SilenceInv'
<1>1. /\ calls # <<>> /\ Here.k = "VarDecl" /\ calls' = Popped(None)
      /\ Log(Top.n, Report(Top)) /\ functions' = functions
  BY DEF DeclareLocalVar, Walking
<1> QED BY <1>1, StmtSilence, KindsApart

LEMMA CheckStmtSilence == ASSUME TypeInv, SilenceInv, CheckStmt PROVE SilenceInv'
<1> DEFINE r == IF ReturnsOnAllPaths(Top) THEN Returns ELSE None
<1>1. /\ calls # <<>> /\ Here.k \in StmtKind \cup {"Func"} /\ calls' = Popped(r)
      /\ Log(Top.n, Report(Top)) /\ functions' = functions
  BY DEF CheckStmt, Walking
<1>2. r \in {None, Returns}
  OBVIOUS
<1> HIDE DEF r
<1> QED BY <1>1, <1>2, StmtSilence, KindsApart

\* An activation reports what it finds at once, before its first child is taken up.
LEMMA CheckChildSilence == ASSUME TypeInv, SilenceInv, CheckChild PROVE SilenceInv'
<1>1. calls # <<>> /\ ~Complete(Top) /\ Log(Top.n, Report(Top)) /\ functions' = functions
  BY DEF CheckChild, Walking
<1> SUFFICES ASSUME errors' = <<>> PROVE SilenceInv'
  BY DEF SilenceInv, BegunInv, NothingIsSilent
<1>2. errors = <<>> /\ Report(Top) = <<>>
  BY <1>1, TopLogs
<1>3. PICK g : g = Frame(Here.kids[Done + 1], Expected(Top, Done + 1), Opened(Here, Done + 1))
  OBVIOUS
<1>4. calls' = Append(calls, g) /\ g.rs = <<>> /\ g \in Frames
  <2>1. g.rs = <<>> /\ Activation(g)
    BY <1>1, <1>3, ChildActivation
  <2> QED BY <1>3, <2>1, Zenon DEF CheckChild, Activation
<1>5. calls \in Seq(Frames) /\ Len(calls) \in Nat \ {0} /\ DOMAIN calls = 1 .. Len(calls)
  BY <1>1, TypeParts
<1>6. /\ Len(calls') = Len(calls) + 1 /\ \A j \in 1 .. Len(calls) : calls'[j] = calls[j]
      /\ calls'[Len(calls) + 1] = g /\ DOMAIN calls' = 1 .. Len(calls) + 1
  BY <1>4, <1>5, OneMore
<1>7. ~ReportsAtOnce(Here)
  <2>1. Len(calls) \in 1 .. Len(calls) /\ Top = calls[Len(calls)] /\ Here = Nodes[Top.n]
    BY <1>1, Places, TopType
  <2>2. CASE Top.rs # <<>>
    BY <1>2, <2>1, <2>2 DEF SilenceInv, BegunInv, Begun
  <2>3. CASE Top.rs = <<>>
    <3>1. BadTarget(Here) \/ Here.k = "Call" => Here.k \in ExprKind
      BY DEF BadTarget, HasTarget, ExprKind
    <3>2. Here.k \in ExprKind => ReportExpr(Top, Here) = <<>>
      BY <1>2, <2>1, NothingReported
    <3>3. ~BadTarget(Here)
      <4>1. BadTarget(Here) => Said(Top.rs = <<>>, "InvalidAssignTarget") = <<>>
        BY <3>1, <3>2 DEF ReportExpr
      <4> QED BY <2>3, <4>1, SaidNothing
    <3>4. Here.k = "Call" => CallError(Here) = <<>>
      <4>1. Here.k = "Call" => ReportExpr(Top, Here) = IF Top.rs = <<>> THEN CallError(Here) ELSE <<>>
        BY <3>3 DEF ReportExpr
      <4> QED BY <2>3, <3>1, <3>2, <4>1
    <3> QED BY <3>3, <3>4 DEF ReportsAtOnce
  <2> QED BY <2>2, <2>3
<1>8. \A j \in 1 .. Len(calls) : ~ReportsAtOnce(Nodes[calls[j].n])
  <2> SUFFICES ASSUME NEW j \in 1 .. Len(calls) PROVE ~ReportsAtOnce(Nodes[calls[j].n])
    OBVIOUS
  <2>1. CASE j = Len(calls)
    <3>1. Here = Nodes[calls[j].n]
      BY <2>1 DEF Here, Top
    <3> QED BY <1>7, <3>1
  <2>2. CASE j # Len(calls)
    <3> DEFINE m == Len(calls)
    <3> HIDE DEF m
    <3>1. j \in 1 .. m /\ m \in Nat /\ j # m
      BY <1>5, <2>2 DEF m
    <3>2. j < m
      BY <3>1
    <3> QED BY <1>2, <3>2 DEF m, SilenceInv, BegunInv, Begun
  <2> QED BY <2>1, <2>2
<1>9. \A nd : ReportsAtOnce(nd)' <=> ReportsAtOnce(nd)
  BY <1>1 DEF ReportsAtOnce, CallError
<1>10. BegunInv'
  <2> SUFFICES ASSUME NEW j \in 1 .. Len(calls'), Begun(j)', ReportsAtOnce(Nodes[calls[j].n])' PROVE FALSE
    BY DEF BegunInv
  <2>1. ReportsAtOnce(Nodes[calls'[j].n])
    BY <1>9
  <2>2. j = Len(calls) + 1 => calls'[j].rs = <<>> /\ ~(j < Len(calls'))
    BY <1>4, <1>5, <1>6
  <2>3. j # Len(calls) + 1
    BY <2>2 DEF Begun
  <2>4. j \in 1 .. Len(calls) /\ calls'[j] = calls[j]
    BY <1>5, <1>6, <2>3
  <2> QED BY <1>8, <2>1, <2>4
<1>11. NothingIsSilent'
  <2> SUFFICES ASSUME NEW j \in DOMAIN calls', NEW i \in DOMAIN calls'[j].rs,
                      Nodes[Nodes[calls'[j].n].kids[i]].k \in ExprKind, calls'[j].rs[i] = None
               PROVE  FALSE
    BY DEF NothingIsSilent
  <2>1. j # Len(calls) + 1
    BY <1>4, <1>6
  <2>2. j \in DOMAIN calls /\ calls'[j] = calls[j]
    BY <1>5, <1>6, <2>1
  <2> QED BY <1>2, <2>2 DEF SilenceInv, NothingIsSilent
<1> QED BY <1>10, <1>11 DEF SilenceInv

\* Where there are no activations, or one that has no answer yet, there is nothing to say.
LEMMA NoSilence ==
  ASSUME calls = <<>> PROVE SilenceInv
<1>1. Len(calls) = 0 /\ DOMAIN calls = {}
  OBVIOUS
<1>2. (\A j \in 1 .. Len(calls) : FALSE) /\ (\A j \in DOMAIN calls : FALSE)
  BY <1>1
<1> QED BY <1>2 DEF SilenceInv, BegunInv, NothingIsSilent

LEMMA CheckDeclSilence == ASSUME TypeInv, CheckDecl PROVE SilenceInv'
<1>1. PICK n, k : calls' = <<Frame(n, None, k)>>
  BY Zenon DEF CheckDecl
<1>2. Frame(n, None, k).rs = <<>>
  BY DEF Frame
<1>3. Len(calls') = 1 /\ DOMAIN calls' = {1} /\ calls'[1].rs = <<>>
  BY <1>1, <1>2
<1>4. BegunInv'
  <2> SUFFICES ASSUME NEW j \in 1 .. Len(calls'), Begun(j)' PROVE FALSE
    BY DEF BegunInv
  <2>1. j = 1
    BY <1>3
  <2> QED BY <1>3, <2>1 DEF Begun
<1>5. NothingIsSilent'
  BY <1>3 DEF NothingIsSilent
<1> QED BY <1>4, <1>5 DEF SilenceInv

\* The steps between activations.
LEMMA IdleSilence ==
  ASSUME TypeInv, SilenceInv, HoistFunc \/ RequireMain \/ Conclude \/ UNCHANGED vars
  PROVE  SilenceInv'
<1>1. CASE UNCHANGED vars
  BY <1>1 DEF vars, SilenceInv, BegunInv, Begun, ReportsAtOnce, CallError, NothingIsSilent
<1>2. CASE HoistFunc \/ RequireMain \/ Conclude
  <2>1. calls = <<>>
    BY <1>2 DEF TypeInv, PhaseInv, HoistFunc, RequireMain, Conclude
  <2>2. calls' = <<>>
    BY <1>2, <2>1, Zenon DEF HoistFunc, RequireMain, Conclude
  <2>3. Len(calls') = 0 /\ DOMAIN calls' = {}
    BY <2>2
  <2>4. (\A j \in 1 .. Len(calls') : FALSE) /\ (\A j \in DOMAIN calls' : FALSE)
    BY <2>3
  <2> QED BY <2>4 DEF SilenceInv, BegunInv, NothingIsSilent
<1> QED BY <1>1, <1>2

LEMMA SilenceStep == ASSUME TypeInv, SilenceInv, [Next]_vars PROVE SilenceInv'
BY CheckChildSilence, CheckExprSilence, DeclareLocalVarSilence, CheckStmtSilence, CheckDeclSilence,
   IdleSilence DEF Next, Step

LEMMA InitSilence == ASSUME Init PROVE SilenceInv
BY NoSilence DEF Init

(***************************************************************************)
(* A check that finds no type has said so: check_expr answers None only to *)
(* an error, whatever the program.                                         *)
(***************************************************************************)
THEOREM Speaks == Spec => []NothingIsSilent
<1>1. TypeInv /\ SilenceInv /\ [Next]_vars => SilenceInv'
  BY SilenceStep
<1>2. Init => SilenceInv
  BY InitSilence
<1>3. SilenceInv => NothingIsSilent
  BY DEF SilenceInv
<1> QED BY <1>1, <1>2, <1>3, TypesHold, PTL DEF Spec
(***************************************************************************)
(* The tables of an accepted program are complete.                         *)
(***************************************************************************)
\* So a node is covered when it has its own entries and its children are.
LEMMA CoveredStep ==
  ASSUME NEW n \in NodeId
  PROVE  Covered(n) <=> HasEntries(n) /\ \A i \in 1 .. Len(Nodes[n].kids) : Covered(Nodes[n].kids[i])
<1> DEFINE kids == {Nodes[n].kids[i] : i \in DOMAIN Nodes[n].kids}
<1>1. Below(n) = {n} \cup UNION {Below(c) : c \in kids}
  BY BelowStep
<1>2. DOMAIN Nodes[n].kids = 1 .. Len(Nodes[n].kids)
  BY NodeType
<1>3. Covered(n) <=> HasEntries(n) /\ \A c \in kids : Covered(c)
  <2> HIDE DEF kids
  <2> QED BY <1>1 DEF Covered
<1> QED BY <1>2, <1>3

\* The same after a step: what is below a node never changes.
LEMMA CoveredNext ==
  ASSUME NEW n \in NodeId
  PROVE  Covered(n)' <=>
           HasEntries(n)' /\ \A i \in 1 .. Len(Nodes[n].kids) : \A m : m = Nodes[n].kids[i] => Covered(m)'
<1> DEFINE kids == {Nodes[n].kids[i] : i \in DOMAIN Nodes[n].kids}
<1>1. Below(n) = {n} \cup UNION {Below(c) : c \in kids}
  BY BelowStep
<1>2. DOMAIN Nodes[n].kids = 1 .. Len(Nodes[n].kids)
  BY NodeType
<1>3. Covered(n)' <=> HasEntries(n)' /\ \A c \in kids : Covered(c)'
  <2> HIDE DEF kids
  <2> QED BY <1>1 DEF Covered
<1> QED BY <1>2, <1>3

\* The tables only grow: what they have stays as it is, or is entered again.
Entry(n) == /\ n \in DOMAIN var_refs /\ var_refs[n] \in 0 .. Len(declared) - 1
            /\ Nodes[declared[var_refs[n] + 1]].name = Nodes[n].name

LEMMA EntriesStay ==
  ASSUME DOMAIN types \subseteq DOMAIN types',
         \A n : Nodes[n].k = "Ident" /\ Entry(n) => Entry(n)'
  PROVE  \A n : Covered(n) => Covered(n)'
<1>1. ASSUME NEW n, HasEntries(n) PROVE HasEntries(n)'
  BY <1>1 DEF HasEntries, Entry
<1> QED BY <1>1 DEF Covered

\* Declarations keep their ids when others follow.
LEMMA DeclaredStay ==
  ASSUME declared \in Seq(NodeId), NEW ds \in Seq(NodeId), declared' = declared \o ds
  PROVE  /\ Len(declared') = Len(declared) + Len(ds) /\ Len(declared) \in Nat /\ Len(ds) \in Nat
         /\ \A i \in 0 .. Len(declared) - 1 : i \in 0 .. Len(declared') - 1 /\ declared'[i + 1] = declared[i + 1]
         /\ \A i \in 1 .. Len(ds) : declared'[Len(declared) + i] = ds[i]
         /\ \A s, x : Declares(s, x) => Declares(s, x)'
<1>1. /\ Len(declared') = Len(declared) + Len(ds) /\ Len(declared) \in Nat /\ Len(ds) \in Nat
      /\ \A i \in 1 .. Len(declared) + Len(ds) :
           declared'[i] = IF i <= Len(declared) THEN declared[i] ELSE ds[i - Len(declared)]
  BY ConcatProperties
<1>2. \A i \in 0 .. Len(declared) - 1 : i \in 0 .. Len(declared') - 1 /\ declared'[i + 1] = declared[i + 1]
  BY <1>1
<1>3. \A i \in 1 .. Len(ds) : declared'[Len(declared) + i] = ds[i]
  <2> SUFFICES ASSUME NEW i \in 1 .. Len(ds) PROVE declared'[Len(declared) + i] = ds[i]
    OBVIOUS
  <2>1. Len(declared) + i \in 1 .. Len(declared) + Len(ds) /\ ~(Len(declared) + i <= Len(declared))
        /\ Len(declared) + i - Len(declared) = i
    BY <1>1
  <2> QED BY <1>1, <2>1
<1>4. \A s, x : Declares(s, x) => Declares(s, x)'
  BY <1>2 DEF Declares
<1> QED BY <1>1, <1>2, <1>3, <1>4

(***************************************************************************)
(* A symbol's id is that of its declaration.                               *)
(***************************************************************************)
LEMMA CheckChildSymbols == ASSUME TypeInv, SymbolsInv, CheckChild PROVE SymbolsInv'
<1>1. calls # <<>> /\ declared' = declared
  BY DEF CheckChild, Walking
<1>2. PICK k \in Nat : scopes' = scopes \o [s \in 1 .. k |-> NoNames]
  <2>1. Opened(Here, Done + 1) \in Nat
    BY OpenedType
  <2> QED BY <2>1, Zenon DEF CheckChild
<1>3. /\ scopes \in Seq([Name -> Symbol]) /\ Len(scopes) \in Nat
      /\ Len(scopes') = Len(scopes) + k
      /\ \A s \in 1 .. Len(scopes) : scopes'[s] = scopes[s]
      /\ \A s \in Len(scopes) + 1 .. Len(scopes) + k : scopes'[s] = NoNames
  BY <1>2, TypeParts, OpenedScopes
<1>4. SUFFICES ASSUME NEW s \in 1 .. Len(scopes'), NEW x \in Name, scopes'[s][x] # Unknown
               PROVE  Declares(scopes'[s][x], x)
  BY <1>1 DEF SymbolsInv, Declares
<1>5. CASE s \in 1 .. Len(scopes)
  BY <1>3, <1>4, <1>5 DEF SymbolsInv
<1>6. CASE s \notin 1 .. Len(scopes)
  <2>1. s \in Len(scopes) + 1 .. Len(scopes) + k
    BY <1>3, <1>6
  <2>2. scopes'[s] = NoNames
    BY <1>3, <2>1
  <2> QED BY <1>4, <2>2 DEF NoNames
<1> QED BY <1>5, <1>6

LEMMA CloseSymbols == ASSUME TypeInv, SymbolsInv, CheckStmt PROVE SymbolsInv'
<1>1. calls # <<>> /\ declared' = declared /\ scopes' = Close(scopes)
  BY DEF CheckStmt, Walking
<1>2. Top.owned \in Nat /\ Len(scopes) - Top.owned \in Nat \ {0} /\ scopes \in Seq([Name -> Symbol])
  BY <1>1, OwnedScopes, TypeParts
<1>3. Len(scopes') = Len(scopes) - Top.owned /\ \A s \in 1 .. Len(scopes) - Top.owned : scopes'[s] = scopes[s]
  BY <1>1, <1>2, CloseType DEF Close
<1>4. \A s \in 1 .. Len(scopes') : s \in 1 .. Len(scopes) /\ scopes'[s] = scopes[s]
  BY <1>2, <1>3
<1> QED BY <1>1, <1>4 DEF SymbolsInv, Declares

LEMMA DeclareLocalVarSymbols == ASSUME TypeInv, SymbolsInv, DeclareLocalVar PROVE SymbolsInv'
<1> DEFINE ss == [scopes EXCEPT ![Len(scopes)] = Declare(Scope, <<Top.n>>)]
<1>1. /\ calls # <<>> /\ Here.k = "VarDecl" /\ scopes' = Close(ss) /\ declared' = Append(declared, Top.n)
  BY DEF DeclareLocalVar, Walking
<1>2. /\ Top.n \in NodeId /\ Here = Nodes[Top.n] /\ declared \in Seq(NodeId)
      /\ scopes \in Seq([Name -> Symbol]) /\ Len(scopes) \in Nat \ {0}
  BY <1>1, TopType, TypeParts
<1>3. Top.owned \in Nat /\ Len(scopes) - Top.owned \in Nat \ {0}
  BY <1>1, OwnedScopes
<1>4. /\ ss \in Seq([Name -> Symbol]) /\ Len(ss) = Len(scopes)
      /\ \A i \in 1 .. Len(scopes) : ss[i] = IF i = Len(scopes) THEN Declare(Scope, <<Top.n>>) ELSE scopes[i]
  BY <1>1, DeclaredScopes
<1> HIDE DEF ss
<1>5. Len(scopes') = Len(scopes) - Top.owned /\ \A s \in 1 .. Len(scopes) - Top.owned : scopes'[s] = ss[s]
  BY <1>1, <1>3, <1>4, CloseType DEF Close
<1>6. \A s \in 1 .. Len(scopes') : s \in 1 .. Len(scopes) /\ scopes'[s] = ss[s]
  BY <1>2, <1>3, <1>5
<1>7. declared' = declared \o <<Top.n>> /\ <<Top.n>> \in Seq(NodeId) /\ Len(<<Top.n>>) = 1
  BY <1>1, <1>2, AppendOne
<1>8. /\ \A s, x : Declares(s, x) => Declares(s, x)'
      /\ Len(declared') = Len(declared) + 1 /\ Len(declared) \in Nat
      /\ declared'[Len(declared) + 1] = Top.n
  <2> DEFINE ds == <<Top.n>>
  <2>1. declared' = declared \o ds /\ ds \in Seq(NodeId) /\ Len(ds) = 1 /\ ds[1] = Top.n
    BY <1>7
  <2> HIDE DEF ds
  <2>2. /\ \A s, x : Declares(s, x) => Declares(s, x)'
        /\ Len(declared') = Len(declared) + Len(ds) /\ Len(declared) \in Nat
        /\ \A i \in 1 .. Len(ds) : declared'[Len(declared) + i] = ds[i]
    BY <1>2, <2>1, DeclaredStay
  <2>3. 1 \in 1 .. Len(ds)
    BY <2>1
  <2> QED BY <2>1, <2>2, <2>3
<1>9. SUFFICES ASSUME NEW s \in 1 .. Len(scopes'), NEW x \in Name, scopes'[s][x] # Unknown
               PROVE  \A y : y = scopes'[s][x] => Declares(y, x)'
  BY DEF SymbolsInv
<1>10. CASE s = Len(scopes) /\ Here.name = x
  <2>1. scopes'[s] = Declare(Scope, <<Top.n>>) /\ Scope \in [Name -> Symbol]
    BY <1>2, <1>4, <1>6, <1>10 DEF Scope
  <2>2. scopes'[s][x] = [id |-> Len(declared), ty |-> Here.ty]
    <3> DEFINE sc == Scope  n == Top.n
    <3>1. sc \in [Name -> Symbol] /\ n \in NodeId /\ Here = Nodes[n] /\ scopes'[s] = Declare(sc, <<n>>)
      BY <1>2, <2>1
    <3> HIDE DEF sc, n
    <3>2. Declare(sc, <<n>>)[x] = IF Nodes[n].name = x THEN [id |-> Len(declared), ty |-> Nodes[n].ty] ELSE sc[x]
      BY <1>2, <3>1, DeclareOne
    <3> QED BY <1>10, <3>1, <3>2
  <2>3. Len(declared) \in 0 .. Len(declared') - 1
    BY <1>8
  <2> QED BY <1>2, <1>8, <1>10, <2>2, <2>3 DEF Declares
<1>11. CASE ~(s = Len(scopes) /\ Here.name = x)
  <2>1. s \in 1 .. Len(scopes) /\ scopes'[s][x] = scopes[s][x]
    <3>1. CASE s = Len(scopes)
      <4> DEFINE sc == Scope  n == Top.n
      <4>1. /\ sc = scopes[s] /\ sc \in [Name -> Symbol] /\ n \in NodeId /\ Here = Nodes[n]
            /\ scopes'[s] = Declare(sc, <<n>>)
        BY <1>2, <1>4, <1>6, <3>1 DEF Scope
      <4> HIDE DEF sc, n
      <4>2. Declare(sc, <<n>>)[x] = IF Nodes[n].name = x THEN [id |-> Len(declared), ty |-> Nodes[n].ty] ELSE sc[x]
        BY <1>2, <4>1, DeclareOne
      <4> QED BY <1>6, <1>11, <3>1, <4>1, <4>2
    <3>2. CASE s # Len(scopes)
      BY <1>4, <1>6, <3>2
    <3> QED BY <3>1, <3>2
  <2>2. Declares(scopes[s][x], x)
    BY <1>9, <2>1 DEF SymbolsInv
  <2> QED BY <1>8, <2>1, <2>2
<1> QED BY <1>10, <1>11
LEMMA CheckDeclSymbols == ASSUME TypeInv, SymbolsInv, CheckDecl PROVE SymbolsInv'
<1>1. calls = <<>> /\ item <= Len(prog)
  BY DEF CheckDecl
<1> DEFINE ds == Decl.params
<1>2. /\ scopes \in Seq([Name -> Symbol]) /\ Len(scopes) \in Nat /\ declared \in Seq(NodeId)
      /\ ds \in Seq(NodeId) /\ NoNames \in [Name -> Symbol]
  BY <1>1, TypeParts, DeclType, NodeType DEF NoNames, Symbol
<1>3. CASE Decl.k = "VarDecl"
  <2>1. scopes' = scopes /\ declared' = declared
    BY <1>3, Zenon DEF CheckDecl
  <2> QED BY <2>1 DEF SymbolsInv, Declares
<1>4. CASE Decl.k # "VarDecl"
  <2>1. scopes' = Append(scopes, Declare(NoNames, ds)) /\ declared' = declared \o ds
    BY <1>4, Zenon DEF CheckDecl
  <2>2. Declare(NoNames, ds) \in [Name -> Symbol]
    BY <1>2, DeclareType
  <2>3. /\ Len(scopes') = Len(scopes) + 1 /\ \A s \in 1 .. Len(scopes) : scopes'[s] = scopes[s]
        /\ scopes'[Len(scopes) + 1] = Declare(NoNames, ds)
    BY <1>2, <2>1, <2>2, AppendProperties
  <2> HIDE DEF ds
  <2>4. /\ \A s, x : Declares(s, x) => Declares(s, x)'
        /\ Len(declared') = Len(declared) + Len(ds) /\ Len(declared) \in Nat
        /\ \A i \in 1 .. Len(ds) : declared'[Len(declared) + i] = ds[i]
        /\ Len(ds) \in Nat
    BY <1>2, <2>1, DeclaredStay
  <2>5. SUFFICES ASSUME NEW s \in 1 .. Len(scopes'), NEW x \in Name, scopes'[s][x] # Unknown
                 PROVE  \A y : y = scopes'[s][x] => Declares(y, x)'
    BY DEF SymbolsInv
  <2>6. CASE s \in 1 .. Len(scopes)
    <3>1. scopes'[s] = scopes[s] /\ Declares(scopes[s][x], x)
      BY <2>3, <2>5, <2>6 DEF SymbolsInv
    <3> QED BY <2>4, <3>1
  <2>7. CASE s \notin 1 .. Len(scopes)
    <3>1. scopes'[s] = Declare(NoNames, ds)
      <4>1. s = Len(scopes) + 1
        BY <1>2, <2>3, <2>7
      <4> QED BY <2>3, <4>1
    <3>2. scopes'[s][x] # NoNames[x]
      BY <2>5 DEF NoNames
    <3>3. PICK i \in 1 .. Len(ds) : /\ Nodes[ds[i]].name = x
                                    /\ Declare(NoNames, ds)[x] = [id |-> Len(declared) + i - 1, ty |-> Nodes[ds[i]].ty]
      <4> DEFINE none == NoNames
      <4>1. none \in [Name -> Symbol] /\ Declare(none, ds)[x] # none[x]
        BY <1>2, <3>1, <3>2
      <4> HIDE DEF none
      <4>2. \/ Declare(none, ds)[x] = none[x]
            \/ \E i \in 1 .. Len(ds) : /\ Nodes[ds[i]].name = x
                                      /\ Declare(none, ds)[x] = [id |-> Len(declared) + i - 1, ty |-> Nodes[ds[i]].ty]
        BY <1>2, <4>1, DeclareSymbols
      <4> QED BY <4>1, <4>2 DEF none
    <3> DEFINE y == [id |-> Len(declared) + i - 1, ty |-> Nodes[ds[i]].ty]
    <3>5. y.id \in 0 .. Len(declared') - 1 /\ y.id + 1 = Len(declared) + i
      BY <2>4
    <3>6. declared'[y.id + 1] = ds[i]
      BY <2>4, <3>5
    <3>7. scopes'[s][x] = y /\ y.ty = Nodes[ds[i]].ty
      BY <3>1, <3>3
    <3> HIDE DEF y
    <3> QED BY <3>3, <3>5, <3>6, <3>7 DEF Declares
  <2> QED BY <2>6, <2>7
<1> QED BY <1>3, <1>4

LEMMA SymbolsStep == ASSUME TypeInv, SymbolsInv, [Next]_vars PROVE SymbolsInv'
<1>1. CASE UNCHANGED <<scopes, declared>>
  BY <1>1 DEF SymbolsInv, Declares
<1>2. CASE CheckExpr \/ HoistFunc \/ RequireMain \/ Conclude \/ UNCHANGED vars
  BY <1>1, <1>2 DEF CheckExpr, HoistFunc, RequireMain, Conclude, vars
<1> QED BY <1>2, CheckChildSymbols, CloseSymbols, DeclareLocalVarSymbols, CheckDeclSymbols DEF Next, Step

LEMMA InitSymbols == ASSUME Init PROVE SymbolsInv
<1>1. scopes = <<NoNames>>
  BY DEF Init
<1>2. \A s \in 1 .. Len(scopes) : scopes[s] = NoNames
  BY <1>1
<1> QED BY <1>2 DEF SymbolsInv, NoNames

\* What a name resolves to is declared.
LEMMA ResolveDeclares ==
  ASSUME TypeInv, SymbolsInv, NEW x \in Name, Resolve(x) # Unknown PROVE Declares(Resolve(x), x)
BY ResolveType, Okays DEF SymbolsInv

(***************************************************************************)
(* The entries of what has been checked are there.                         *)
(***************************************************************************)
\* As long as nothing is reported an activation that is complete has all its children
\* covered.
LEMMA TopCovered ==
  ASSUME TypeInv, CoverInv, errors = <<>>, calls # <<>>, Complete(Top), ~GivesUp(Top)
  PROVE  \A i \in 1 .. Len(Here.kids) : Covered(Here.kids[i])
<1>1. Len(Top.rs) = Len(Here.kids) /\ Here = Nodes[Top.n] /\ Top = calls[Len(calls)]
  BY TopType DEF Complete
<1>2. Len(calls) \in 1 .. Len(calls)
  BY Places
<1> QED BY <1>1, <1>2 DEF CoverInv

\* An activation that returns hands its node over to its caller, or to run.
LEMMA PopCover ==
  ASSUME TypeInv, CoverInv, calls # <<>>, NEW r \in Result, calls' = Popped(r),
         UNCHANGED <<prog, pass, item>>,
         errors' = <<>> => /\ errors = <<>> /\ (\A n : Covered(n) => Covered(n)')
                           /\ \A n : n = Top.n => Covered(n)'
  PROVE  CoverInv'
<1> SUFFICES ASSUME errors' = <<>> PROVE CoverInv'
  BY DEF CoverInv
<1>1. /\ errors = <<>> /\ (\A n : Covered(n) => Covered(n)')
      /\ \A n : n = Top.n => Covered(n)'
  OBVIOUS
<1>2. pass = 2 /\ pass' = 2 /\ Len(calls) \in Nat \ {0} /\ Top = calls[Len(calls)]
  BY TopType
<1>3. \A j \in 1 .. Len(calls) : \A i \in 1 .. Len(calls[j].rs) : Covered(Nodes[calls[j].n].kids[i])
  BY <1>1 DEF CoverInv
<1>4. \A i \in 1 .. Walked : Covered(prog[i])
  BY <1>1, <1>2 DEF CoverInv
<1>5. Len(calls') = Len(calls) - 1
  BY Answered
<1>6. ASSUME NEW j \in 1 .. Len(calls'), NEW i \in 1 .. Len(calls'[j].rs)
      PROVE  \A n : n = Nodes[calls'[j].n].kids[i] => Covered(n)'
  <2>1. CASE j \in 1 .. Len(calls) - 2
    <3>1. calls'[j] = calls[j]
      BY <2>1, Answered
    <3>2. j \in 1 .. Len(calls)
      BY <1>2, <2>1
    <3> QED BY <1>1, <1>3, <1>6, <3>1, <3>2
  <2>2. CASE j = Len(calls) - 1
    <3>1. Len(calls) > 1 /\ Len(calls) # 1 /\ j \in 1 .. Len(calls)
      BY <1>2, <1>5, <2>2
    <3> DEFINE f == calls[Len(calls) - 1]
    <3>2. calls'[j].rs = Append(f.rs, r) /\ calls'[j].n = f.n
      BY <2>2, <3>1, Answered
    <3>3. f.rs \in Seq(Result) /\ Len(f.rs) \in Nat /\ Nodes[f.n].kids[Len(f.rs) + 1] = Top.n
      BY <3>1, Caller
    <3>4. f = calls[j]
      BY <2>2
    <3> HIDE DEF f
    <3>5. Len(Append(f.rs, r)) = Len(f.rs) + 1
      BY <3>3, AppendProperties
    <3>6. CASE i = Len(f.rs) + 1
      BY <1>1, <3>2, <3>3, <3>6
    <3>7. CASE i # Len(f.rs) + 1
      <4>1. i \in 1 .. Len(f.rs)
        BY <3>2, <3>3, <3>5, <3>7
      <4> QED BY <1>1, <1>3, <3>1, <3>2, <3>4, <4>1
    <3> QED BY <3>6, <3>7
  <2> QED BY <1>2, <1>5, <2>1, <2>2
<1>7. ASSUME NEW i \in 1 .. Walked' PROVE \A n : n = prog[i] => Covered(n)'
  <2>1. item \in Nat \ {0, 1} /\ Top.n \in NodeId
    BY OuterActivation, TypeParts, TopType
  <2>2. CASE Len(calls) = 1
    <3>1. calls' = <<>>
      <4>1. calls' = [j \in 1 .. Len(calls) - 1 |-> calls'[j]]
        BY Answered
      <4> QED BY <2>2, <4>1
    <3>2. Walked' = item - 1 /\ Walked = item - 2
      BY <3>1 DEF Walked
    <3>3. Top.n = prog[item - 1]
      BY <1>2, <2>2, OuterActivation
    <3>4. i = item - 1 \/ i \in 1 .. Walked
      BY <1>7, <2>1, <3>2
    <3> QED BY <1>1, <1>4, <3>3, <3>4
  <2>3. CASE Len(calls) # 1
    <3>1. calls' # <<>>
      BY <1>2, <1>5, <2>3
    <3>2. Walked' = Walked
      BY <3>1 DEF Walked
    <3> QED BY <1>1, <1>4, <1>7, <3>2
  <2> QED BY <2>2, <2>3
<1>8. (\A j \in 1 .. Len(calls) : \A i \in 1 .. Len(calls[j].rs) : Covered(Nodes[calls[j].n].kids[i]))'
  BY <1>6
<1>9. (\A i \in 1 .. Walked : Covered(prog[i]))'
  BY <1>7
<1> QED BY <1>2, <1>8, <1>9 DEF CoverInv
\* What an expression enters as it returns.
LEMMA CheckExprEntries ==
  ASSUME TypeInv, SilenceInv, SymbolsInv, CheckExpr, errors' = <<>>
  PROVE  /\ \A n : Covered(n) => Covered(n)'
         /\ \A n : n = Top.n => HasEntries(n)'
<1> DEFINE t == TypeFrom(Top)  id == Resolve(Here.name).id
<1>1. /\ calls # <<>> /\ Here.k \in ExprKind /\ declared' = declared
      /\ types' = IF t # None THEN Insert(types, Top.n, t) ELSE types
      /\ var_refs' = IF Here.k = "Ident" /\ t # None THEN Insert(var_refs, Top.n, id) ELSE var_refs
  BY DEF CheckExpr, Walking
<1>2. Top.n \in NodeId /\ Here = Nodes[Top.n] /\ Here.name \in Name /\ Activation(Top)
  BY <1>1, TopType, NodeType
<1>3. t # None
  <2>1. Against(Top, t) # None
    BY TopSpeaks
  <2> QED BY <2>1, AgainstType
<1>4. Here.k = "Ident" => Declares(Resolve(Here.name), Here.name)
  <2> SUFFICES ASSUME Here.k = "Ident" PROVE Declares(Resolve(Here.name), Here.name)
    OBVIOUS
  <2>1. t = Resolve(Here.name).ty
    <3>1. ~BadTarget(Here)
      BY DEF BadTarget, HasTarget
    <3> QED BY <1>2, <3>1 DEF TypeFrom
  <2>2. Resolve(Here.name) # Unknown
    BY <1>3, <2>1 DEF Unknown
  <2> QED BY <1>2, <2>2, ResolveDeclares
<1> HIDE DEF t, id
<1>5. DOMAIN types' = DOMAIN types \cup {Top.n}
  BY <1>1, <1>3 DEF Insert
<1>6. Here.k # "Ident" => var_refs' = var_refs
  BY <1>1
<1>7. Here.k = "Ident" => /\ DOMAIN var_refs' = DOMAIN var_refs \cup {Top.n} /\ var_refs'[Top.n] = id
                          /\ \A n \in DOMAIN var_refs : n # Top.n => var_refs'[n] = var_refs[n]
  BY <1>1, <1>3 DEF Insert
<1>8. Here.k = "Ident" => \A n : n = Top.n => Entry(n)'
  BY <1>1, <1>2, <1>4, <1>7 DEF Entry, Declares, id
<1>9. ASSUME NEW n, Nodes[n].k = "Ident", Entry(n) PROVE Entry(n)'
  <2>1. CASE n = Top.n
    BY <1>2, <1>8, <1>9, <2>1
  <2>2. CASE n # Top.n
    BY <1>1, <1>6, <1>7, <1>9, <2>2 DEF Entry
  <2> QED BY <2>1, <2>2
<1>10. \A n : Covered(n) => Covered(n)'
  BY <1>5, <1>9, EntriesStay
<1>11. \A n : n = Top.n => HasEntries(n)'
  BY <1>2, <1>5, <1>8 DEF HasEntries, Entry
<1> QED BY <1>10, <1>11

LEMMA CheckExprCover == ASSUME TypeInv, SilenceInv, SymbolsInv, CoverInv, CheckExpr PROVE CoverInv'
<1> DEFINE r == Against(Top, TypeFrom(Top))
<1>1. /\ calls # <<>> /\ Complete(Top) /\ Here.k \in ExprKind /\ calls' = Popped(r)
      /\ UNCHANGED <<prog, pass, item>>
  BY DEF CheckExpr, Walking
<1>2. Activation(Top) /\ Here = Nodes[Top.n] /\ Top.n \in NodeId /\ FunctionsOK /\ ScopesOK
  BY <1>1, TopType, Okays
<1>3. r \in Result
  <2>1. TypeFrom(Top) \in Type \cup {None}
    BY <1>1, <1>2, RuleType
  <2> QED BY <2>1, AgainstType DEF Result
<1> HIDE DEF r
<1>4. ASSUME errors' = <<>>
      PROVE  /\ errors = <<>> /\ (\A n : Covered(n) => Covered(n)')
             /\ \A n : n = Top.n => Covered(n)'
  <2>1. errors = <<>> /\ Report(Top) = <<>> /\ \A i \in 1 .. Len(Top.rs) : Top.rs[i] # None
    BY <1>4, TopSpeaks
  <2>2. ~GivesUp(Top)
    <3>1. ~(Len(Top.rs) = 1 /\ Top.rs[1] = None)
      BY <2>1
    <3>2. ~(Here.k = "ArrayLiteral" /\ Top.exp # None /\ ~IsArray(Top.exp))
      <4> SUFFICES ASSUME Here.k = "ArrayLiteral" PROVE Top.exp = None \/ IsArray(Top.exp)
        OBVIOUS
      <4>1. ~BadTarget(Here)
        BY DEF BadTarget, HasTarget
      <4>2. ReportExpr(Top, Here) =
              Said(IF Top.exp = None THEN Here.kids = <<>> ELSE ~IsArray(Top.exp), "TypeMismatch")
        BY <4>1 DEF ReportExpr
      <4>3. ReportExpr(Top, Here) = <<>>
        BY <1>1, <1>2, <2>1, NothingReported
      <4> QED BY <4>2, <4>3, SaidNothing
    <3> QED BY <1>2, <3>1, <3>2 DEF GivesUp
  <2>3. \A i \in 1 .. Len(Here.kids) : Covered(Here.kids[i])
    BY <1>1, <2>1, <2>2, TopCovered
  <2>4. (\A n : Covered(n) => Covered(n)') /\ \A n : n = Top.n => HasEntries(n)'
    BY <1>4, CheckExprEntries
  <2>5. \A n : n = Top.n => Covered(n)'
    BY <1>2, <2>3, <2>4, CoveredNext
  <2> QED BY <2>1, <2>4, <2>5
<1> QED BY <1>1, <1>3, <1>4, PopCover
\* A statement, or a function, has no entry of its own.
LEMMA StmtCover ==
  ASSUME TypeInv, CoverInv, calls # <<>>, Here.k \in StmtKind \cup {"Func"}, Complete(Top),
         NEW r \in {None, Returns}, calls' = Popped(r), Log(Top.n, Report(Top)),
         UNCHANGED <<prog, pass, item, types, var_refs>>,
         NEW ds \in Seq(NodeId), declared' = declared \o ds
  PROVE  CoverInv'
<1>1. Here = Nodes[Top.n] /\ Top.n \in NodeId /\ declared \in Seq(NodeId)
  BY TopType, TypeParts
<1>2. r \in Result
  BY DEF Result
<1>3. ASSUME errors' = <<>>
      PROVE  /\ errors = <<>> /\ (\A n : Covered(n) => Covered(n)')
             /\ \A n : n = Top.n => Covered(n)'
  <2>1. errors = <<>>
    BY <1>3, TopLogs
  <2>2. ~GivesUp(Top)
    BY <1>1, KindsApart DEF GivesUp, StmtKind
  <2>3. \A i \in 1 .. Len(Here.kids) : Covered(Here.kids[i])
    BY <2>1, <2>2, TopCovered
  <2>4. \A n : Covered(n) => Covered(n)'
    <3>1. \A i \in 0 .. Len(declared) - 1 : i \in 0 .. Len(declared') - 1 /\ declared'[i + 1] = declared[i + 1]
      BY <1>1, DeclaredStay
    <3>2. \A n : Nodes[n].k = "Ident" /\ Entry(n) => Entry(n)'
      BY <3>1 DEF Entry
    <3> QED BY <3>2, EntriesStay
  <2>5. \A n : n = Top.n => HasEntries(n)'
    <3>1. Here.k \notin ExprKind /\ Here.k # "Ident"
      BY KindsApart DEF StmtKind
    <3> QED BY <1>1, <3>1 DEF HasEntries
  <2>6. \A n : n = Top.n => Covered(n)'
    BY <1>1, <2>3, <2>4, <2>5, CoveredNext
  <2> QED BY <2>1, <2>4, <2>6
<1> QED BY <1>2, <1>3, PopCover

LEMMA DeclareLocalVarCover == ASSUME TypeInv, CoverInv, DeclareLocalVar PROVE CoverInv'
<1>1. /\ calls # <<>> /\ Here.k = "VarDecl" /\ Complete(Top) /\ calls' = Popped(None)
      /\ Log(Top.n, Report(Top)) /\ declared' = Append(declared, Top.n)
      /\ UNCHANGED <<prog, pass, item, types, var_refs>>
  BY DEF DeclareLocalVar, Walking
<1>2. Top.n \in NodeId /\ declared \in Seq(NodeId)
  BY <1>1, TopType, TypeParts
<1>3. PICK ds \in Seq(NodeId) : declared' = declared \o ds
  <2>1. Append(declared, Top.n) = declared \o <<Top.n>> /\ <<Top.n>> \in Seq(NodeId)
    BY <1>2, AppendOne
  <2> QED BY <1>1, <2>1, Zenon
<1>4. Here.k \in StmtKind \cup {"Func"}
  BY <1>1, KindsApart
<1> QED BY <1>1, <1>3, <1>4, StmtCover

LEMMA CheckStmtCover == ASSUME TypeInv, CoverInv, CheckStmt PROVE CoverInv'
<1> DEFINE r == IF ReturnsOnAllPaths(Top) THEN Returns ELSE None
<1>1. /\ calls # <<>> /\ Here.k \in StmtKind \cup {"Func"} /\ Complete(Top) /\ calls' = Popped(r)
      /\ Log(Top.n, Report(Top)) /\ declared' = declared
      /\ UNCHANGED <<prog, pass, item, types, var_refs>>
  BY DEF CheckStmt, Walking
<1>2. PICK ds \in Seq(NodeId) : declared' = declared \o ds
  <2>1. declared = declared \o <<>> /\ <<>> \in Seq(NodeId)
    BY TypeParts
  <2> QED BY <1>1, <2>1
<1>3. r \in {None, Returns}
  OBVIOUS
<1> HIDE DEF r
<1> QED BY <1>1, <1>2, <1>3, StmtCover

LEMMA CheckChildCover == ASSUME TypeInv, CoverInv, CheckChild PROVE CoverInv'
<1>1. /\ calls # <<>> /\ ~Complete(Top) /\ Log(Top.n, Report(Top))
      /\ UNCHANGED <<prog, pass, item, declared, types, var_refs>>
  BY DEF CheckChild, Walking
<1> SUFFICES ASSUME errors' = <<>> PROVE CoverInv'
  BY DEF CoverInv
<1>2. errors = <<>>
  BY <1>1, TopLogs
<1>3. PICK g : g = Frame(Here.kids[Done + 1], Expected(Top, Done + 1), Opened(Here, Done + 1))
  OBVIOUS
<1>4. calls' = Append(calls, g) /\ g.rs = <<>> /\ g \in Frames
  <2>1. g.rs = <<>> /\ Activation(g)
    BY <1>1, <1>3, ChildActivation
  <2> QED BY <1>3, <2>1, Zenon DEF CheckChild, Activation
<1>5. calls \in Seq(Frames) /\ Len(calls) \in Nat \ {0} /\ pass = 2
  BY <1>1, TypeParts, TopType
<1>6. /\ Len(calls') = Len(calls) + 1 /\ \A j \in 1 .. Len(calls) : calls'[j] = calls[j]
      /\ calls'[Len(calls) + 1] = g /\ calls' # <<>>
  BY <1>4, <1>5, OneMore
<1>7. \A n : Covered(n) => Covered(n)'
  BY <1>1, EntriesStay DEF Entry
<1>8. ASSUME NEW j \in 1 .. Len(calls'), NEW i \in 1 .. Len(calls'[j].rs)
      PROVE  \A n : n = Nodes[calls'[j].n].kids[i] => Covered(n)'
  <2>1. j # Len(calls) + 1
    <3>1. j = Len(calls) + 1 => Len(calls'[j].rs) = 0
      BY <1>4, <1>6
    <3> QED BY <3>1
  <2>2. j \in 1 .. Len(calls) /\ calls'[j] = calls[j]
    BY <1>5, <1>6, <2>1
  <2> QED BY <1>2, <1>7, <2>2 DEF CoverInv
<1>9. (\A j \in 1 .. Len(calls) : \A i \in 1 .. Len(calls[j].rs) : Covered(Nodes[calls[j].n].kids[i]))'
  BY <1>8
<1>10. ASSUME NEW i \in 1 .. Walked' PROVE \A n : n = prog[i] => Covered(n)'
  <2>1. Walked' = Walked
    BY <1>1, <1>6 DEF Walked
  <2> QED BY <1>2, <1>5, <1>7, <2>1 DEF CoverInv
<1>11. (\A i \in 1 .. Walked : Covered(prog[i]))'
  BY <1>1, <1>10
<1> QED BY <1>1, <1>5, <1>9, <1>11 DEF CoverInv

LEMMA CheckDeclCover == ASSUME TypeInv, CoverInv, CheckDecl PROVE CoverInv'
<1>1. /\ calls = <<>> /\ item <= Len(prog) /\ pass = 2 /\ item' = item + 1
      /\ UNCHANGED <<prog, pass, types, var_refs, errors>>
  BY DEF CheckDecl
<1> SUFFICES ASSUME errors' = <<>> PROVE CoverInv'
  BY DEF CoverInv
<1>2. PICK n, k : calls' = <<Frame(n, None, k)>>
  BY Zenon DEF CheckDecl
<1>3. calls' # <<>> /\ Len(calls') = 1 /\ Len(calls'[1].rs) = 0
  BY <1>2 DEF Frame
<1>4. \A n2 : Covered(n2) => Covered(n2)'
  <2>1. /\ declared \in Seq(NodeId) /\ Decl.params \in Seq(NodeId)
        /\ declared' = declared \/ declared' = declared \o Decl.params
    <3>1. declared' = declared \/ declared' = declared \o Decl.params
      BY Zenon DEF CheckDecl
    <3> QED BY <1>1, <3>1, TypeParts, DeclType, NodeType
  <2>2. \A i \in 0 .. Len(declared) - 1 : i \in 0 .. Len(declared') - 1 /\ declared'[i + 1] = declared[i + 1]
    <3>1. CASE declared' = declared
      BY <3>1
    <3>2. CASE declared' = declared \o Decl.params
      BY <2>1, <3>2, DeclaredStay
    <3> QED BY <2>1, <3>1, <3>2
  <2>3. \A n2 : Nodes[n2].k = "Ident" /\ Entry(n2) => Entry(n2)'
    BY <1>1, <2>2 DEF Entry
  <2> QED BY <1>1, <2>3, EntriesStay
<1>5. (\A j \in 1 .. Len(calls) : \A i \in 1 .. Len(calls[j].rs) : Covered(Nodes[calls[j].n].kids[i]))'
  BY <1>3
<1>6. ASSUME NEW i \in 1 .. Walked' PROVE \A n2 : n2 = prog[i] => Covered(n2)'
  <2>1. item \in Nat
    BY TypeParts
  <2>2. Walked' = Walked
    BY <1>1, <1>3, <2>1 DEF Walked
  <2> QED BY <1>1, <1>4, <2>2 DEF CoverInv
<1>7. (\A i \in 1 .. Walked : Covered(prog[i]))'
  BY <1>1, <1>6
<1> QED BY <1>1, <1>5, <1>7 DEF CoverInv

LEMMA NoCalls ==
  ASSUME calls' = <<>>
  PROVE  (\A j \in 1 .. Len(calls) : \A i \in 1 .. Len(calls[j].rs) : Covered(Nodes[calls[j].n].kids[i]))'
<1>1. Len(calls') = 0
  OBVIOUS
<1>2. \A j \in 1 .. Len(calls') : FALSE
  BY <1>1
<1> QED BY <1>2

LEMMA HoistFuncCover == ASSUME TypeInv, HoistFunc PROVE CoverInv'
<1>1. calls' = <<>> /\ pass' = 1
  BY DEF HoistFunc, TypeInv, PhaseInv
<1> QED BY <1>1, NoCalls DEF CoverInv

LEMMA RequireMainCover == ASSUME TypeInv, RequireMain PROVE CoverInv'
<1>1. calls' = <<>> /\ pass' = 2 /\ item' = 1
  BY DEF RequireMain, TypeInv, PhaseInv
<1>2. Walked' = 0
  BY <1>1 DEF Walked
<1>3. (\A i \in 1 .. Walked : Covered(prog[i]))'
  <2>1. \A i \in 1 .. Walked' : FALSE
    BY <1>2
  <2> QED BY <2>1
<1> QED BY <1>1, <1>3, NoCalls DEF CoverInv

LEMMA ConcludeCover == ASSUME TypeInv, CoverInv, Conclude PROVE CoverInv'
<1>1. /\ calls = <<>> /\ calls' = <<>> /\ pass = 2 /\ pass' = 3 /\ item > Len(prog)
      /\ UNCHANGED <<prog, declared, types, var_refs, errors>>
  BY DEF Conclude
<1> SUFFICES ASSUME errors' = <<>> PROVE CoverInv'
  BY DEF CoverInv
<1>2. Walked = Len(prog)
  BY <1>1, TypeParts DEF Walked
<1>3. \A n : Covered(n) => Covered(n)'
  BY <1>1, EntriesStay DEF Entry
<1>4. \A i \in 1 .. Len(prog) : Covered(prog[i])
  BY <1>1, <1>2 DEF CoverInv
<1>5. (\A i \in 1 .. Len(prog) : Covered(prog[i]))'
  BY <1>1, <1>3, <1>4
<1> QED BY <1>1, <1>5, NoCalls DEF CoverInv

LEMMA IdleCover == ASSUME CoverInv, UNCHANGED vars PROVE CoverInv'
BY DEF vars, CoverInv, Covered, HasEntries, Walked

LEMMA CoverMeans == ASSUME TypeInv, CoverInv PROVE TablesAreTotal
<1> SUFFICES ASSUME Accepted PROVE TablesAreTotal
  BY DEF TablesAreTotal
<1> SUFFICES ASSUME NEW n \in NodesOf(prog) PROVE HasEntries(n)
  BY DEF TablesAreTotal, HasEntries
<1>1. PICK i \in DOMAIN prog : n \in Below(prog[i])
  BY DEF NodesOf
<1>2. i \in 1 .. Len(prog) /\ pass = 3 /\ errors = <<>>
  BY TypeParts DEF Accepted
<1>3. Covered(prog[i])
  BY <1>2 DEF CoverInv
<1> QED BY <1>1, <1>3 DEF Covered

LEMMA CoverStep ==
  ASSUME TypeInv, SilenceInv, SymbolsInv, CoverInv, [Next]_vars PROVE CoverInv'
BY CheckChildCover, CheckExprCover, DeclareLocalVarCover, CheckStmtCover, HoistFuncCover,
   RequireMainCover, CheckDeclCover, ConcludeCover, IdleCover DEF Next, Step

LEMMA InitCover == ASSUME Init PROVE CoverInv
<1>1. pass = 1 /\ calls = <<>> /\ Len(calls) = 0
  BY DEF Init
<1>2. \A j \in 1 .. Len(calls) : FALSE
  BY <1>1
<1> QED BY <1>1, <1>2 DEF CoverInv

(***************************************************************************)
(* An accepted program has a type for every expression and a declaration   *)
(* of its name for every identifier, for every program: what the           *)
(* interpreter and code generation look up in SemaResult is there.         *)
(***************************************************************************)
THEOREM TablesComplete == Spec => []TablesAreTotal
<1>1. /\ TypeInv /\ SilenceInv /\ [Next]_vars => SilenceInv'
      /\ TypeInv /\ SymbolsInv /\ [Next]_vars => SymbolsInv'
      /\ TypeInv /\ SilenceInv /\ SymbolsInv /\ CoverInv /\ [Next]_vars => CoverInv'
  BY SilenceStep, SymbolsStep, CoverStep
<1>2. Init => SilenceInv /\ SymbolsInv /\ CoverInv
  BY InitSilence, InitSymbols, InitCover
<1>3. TypeInv /\ CoverInv => TablesAreTotal
  BY CoverMeans
<1> QED BY <1>1, <1>2, <1>3, TypesHold, PTL DEF Spec
-----------------------------------------------------------------------------
(***************************************************************************)
(* What the checker accepts is well typed (AnxTyping), for every program   *)
(* the parser can produce: SemaResult.types follows the rules at every     *)
(* node, and SemaResult.var_refs gives each identifier the declaration     *)
(* that it means by the scopes of the program's text.                      *)
(*                                                                         *)
(* AnxTyping says what the scopes, the return type and the paths of a node *)
(* are without an order of checking.  The invariant says that the checker, *)
(* wherever it stands, has what they are there, and has judged all that it *)
(* is done with.                                                           *)
(***************************************************************************)
(***************************************************************************)
(* The invariant.                                                          *)
(***************************************************************************)
Sc(n) == ScopesOf(prog)[n]

\* The symbol tables ss hold what the scopes G say.
DeclOf(symbol)    == IF symbol = Unknown THEN NoDecl ELSE declared[symbol.id + 1]
SameScopes(ss, G) == /\ Len(ss) = Len(G)
                     /\ \A s \in 1 .. Len(ss) : \A x \in Name : DeclOf(ss[s][x]) = G[s][x]

\* An activation is about a node below those that the activations around it are about.
NestInv == \A j, k \in 1 .. Len(calls) : j <= k => calls[k].n \in Below(calls[j].n)

ScopingInv ==
  /\ \A j \in 1 .. Len(calls) : Sc(calls[j].n) \in Seq(Decls) \ {<<>>}
  /\ calls # <<>> => SameScopes(scopes, After(Sc(Top.n), Here, Done))
  /\ pass = 2 /\ calls = <<>> => SameScopes(scopes, <<GlobalsAt(prog, item)>>)

\* A statement's return type is that of the function around it.
RetInv == \A j \in 2 .. Len(calls) :
            Nodes[calls[j].n].k \in StmtKind => calls[j].exp = Nodes[calls[1].n].ty

\* The functions known are the builtin ones and those of the declarations hoisted.
Hoisted == IF pass = 1 THEN item - 1 ELSE Len(prog)
IsFunc(i) == Nodes[prog[i]].k = "Func"
HoistInv == errors = <<>> =>
  /\ \A i \in 1 .. Hoisted : IsFunc(i) =>
       /\ Nodes[prog[i]].name \notin DOMAIN BuiltinParams
       /\ functions[Nodes[prog[i]].name] = Signature(Nodes[prog[i]])
       /\ \A j \in 1 .. Hoisted : IsFunc(j) /\ Nodes[prog[i]].name = Nodes[prog[j]].name => i = j
  /\ \A x \in Name : x \in DOMAIN BuiltinParams =>
       functions[x] = [params |-> BuiltinParams[x], ret |-> BuiltinRet(x)]
  /\ \A x \in Name : functions[x] # NoSig /\ x \notin DOMAIN BuiltinParams =>
       \E i \in 1 .. Hoisted : IsFunc(i) /\ Nodes[prog[i]].name = x
  /\ pass # 1 => "main" \in Name /\ functions["main"] = [params |-> <<>>, ret |-> TVoid]

\* No global variable has the name of one before it.
IsVar(i) == Nodes[prog[i]].k = "VarDecl"
NewVar(i) == \A j \in 1 .. i - 1 : IsVar(i) /\ IsVar(j) => Nodes[prog[i]].name # Nodes[prog[j]].name
VarsInv == errors = <<>> =>
  /\ pass = 2 => \A i \in 1 .. Walked : NewVar(i)
  /\ calls # <<>> /\ Begun(1) => NewVar(item - 1)
  /\ pass = 3 => \A i \in 1 .. Len(prog) : NewVar(i)

\* Everything below a child that is done with follows the rules, and the answer is the
\* child's type, or whether it returns.
Meant(n) == Nodes[n].k = "Ident" =>
  /\ n \in DOMAIN var_refs /\ var_refs[n] \in 0 .. Len(declared) - 1
  /\ declared[var_refs[n] + 1] = Means(Sc(n), Nodes[n].name)
Sound(n) == \A m \in Below(n) : Judged(types, prog, m) /\ Meant(m)

SoundAnswer(f, i) ==
  LET c == Nodes[f.n].kids[i]
  IN  /\ Sound(c)
      /\ Nodes[c].k \in ExprKind =>
           f.rs[i] = types[c] /\ (Expected(f, i) # None => f.rs[i] = Expected(f, i))
      /\ Nodes[c].k \notin ExprKind => (f.rs[i] = Returns <=> MustReturn(c))

\* A condition that was passed is a bool.
PassedInv == errors = <<>> => \A j \in 1 .. Len(calls) :
  LET c == Condition(Nodes[calls[j].n])
  IN  c > 0 /\ (c < Len(calls[j].rs) \/ (c = Len(calls[j].rs) /\ j < Len(calls)))
        => calls[j].rs[c] = TBool

SoundDecl(i) == /\ Sound(prog[i])
                /\ IsFunc(i) /\ Nodes[prog[i]].ty # TVoid => MustReturn(prog[i])
JudgeInv == errors = <<>> =>
  /\ \A j \in 1 .. Len(calls) : \A i \in 1 .. Len(calls[j].rs) : SoundAnswer(calls[j], i)
  /\ pass = 2 => \A i \in 1 .. Walked : SoundDecl(i)
  /\ pass = 3 => \A i \in 1 .. Len(prog) : SoundDecl(i)
(***************************************************************************)
(* Scopes.                                                                 *)
(***************************************************************************)
LEMMA OpenedNew == ASSUME NEW nd, NEW i PROVE Opened(nd, i) = NewScopes(nd, i)
BY DEF Opened, NewScopes, IsBody, Scoped

\* A child with scopes of its own declares nothing in its parent's.
LEMMA OwnScopes ==
  ASSUME NEW nd, NEW i, Opened(nd, i) # 0
  PROVE  ~(Nodes[nd.kids[i]].k = "VarDecl" /\ ~Scoped(nd, i))
BY OpenedNew DEF NewScopes

\* The scopes of a child: those of the node as far as it is done, and the child's own.
LEMMA InsideIs ==
  ASSUME NEW ss, NEW nd, NEW i PROVE Inside(ss, nd, i) = After(ss, nd, i - 1) \o Fresh(Opened(nd, i))
BY OpenedNew DEF Inside, Fresh

LEMMA InsideType ==
  ASSUME NEW nd \in Node, NEW k \in Nat, NEW i \in 1 .. Len(nd.kids), i > k, i <= k + 1,
         NEW ss \in Seq(Decls), ss # <<>>,
         NEW a, a = Inside(ss, nd, i), NEW b, b = After(ss, nd, k),
         NEW w, w = Opened(nd, i)
  PROVE  a \in Seq(Decls) /\ a # <<>> /\ Len(a) = Len(ss) + w /\ w \in Nat /\ Len(ss) \in Nat \ {0}
<1>1. b \in Seq(Decls) /\ b # <<>> /\ Len(b) = Len(ss) /\ Len(ss) \in Nat \ {0}
  BY AfterType
<1>2. w \in Nat
  BY OpenedType
<1>3. a \in Seq(Decls) /\ Len(a) = Len(b) + w
  <2>1. a = b \o Fresh(w)
    <3>1. i - 1 = k
      BY NodeParts
    <3> QED BY <3>1, InsideIs
  <2>2. b \in Seq(Decls)
    BY <1>1
  <2> QED BY <1>2, <2>1, <2>2, NoDeclsMore
<1>4. a # <<>>
  <2>1. Len(a) # 0
    BY <1>1, <1>2, <1>3
  <2> QED BY <2>1
<1> QED BY <1>1, <1>2, <1>3, <1>4

(***************************************************************************)
(* Activations nest as nodes do.                                           *)
(***************************************************************************)
\* The activation that is begun for a child.
LEMMA Pushed ==
  ASSUME TypeInv, CheckChild
  PROVE  /\ calls # <<>> /\ ~Complete(Top) /\ pass = 2 /\ calls' # <<>>
         /\ Top.n \in NodeId /\ Here = Nodes[Top.n] /\ Done = Len(Top.rs) /\ Done \in Nat
         /\ Done + 1 \in 1 .. Len(Here.kids) /\ Here.kids[Done + 1] \in NodeId
         /\ Len(calls) \in Nat \ {0} /\ Len(calls') = Len(calls) + 1
         /\ \A j \in 1 .. Len(calls) : calls'[j] = calls[j]
         /\ \A g : g = calls'[Len(calls) + 1] => /\ g.n = Here.kids[Done + 1] /\ g.rs = <<>>
                                                /\ g.exp = Expected(Top, Done + 1)
                                                /\ g.owned = Opened(Here, Done + 1)
                                                /\ Activation(g)
         /\ UNCHANGED <<prog, pass, item, functions, declared, types, var_refs>>
         /\ errors' = <<>> => errors = <<>> /\ Report(Top) = <<>>
<1>1. /\ calls # <<>> /\ ~Complete(Top) /\ Log(Top.n, Report(Top))
      /\ UNCHANGED <<prog, pass, item, functions, declared, types, var_refs>>
  BY DEF CheckChild, Walking
<1>2. PICK g : g = Frame(Here.kids[Done + 1], Expected(Top, Done + 1), Opened(Here, Done + 1))
  OBVIOUS
<1>3. /\ g.n = Here.kids[Done + 1] /\ g.rs = <<>> /\ g.exp = Expected(Top, Done + 1)
      /\ g.owned = Opened(Here, Done + 1) /\ Activation(g)
  <2>1. g.rs = <<>> /\ Activation(g)
    BY <1>1, <1>2, ChildActivation
  <2> QED BY <1>2, <2>1 DEF Frame
<1>4. calls' = Append(calls, g) /\ g \in Frames
  BY <1>2, <1>3, Zenon DEF CheckChild, Activation
<1>5. calls \in Seq(Frames) /\ Len(calls) \in Nat \ {0} /\ pass = 2
  BY <1>1, TypeParts, TopType
<1>6. /\ Len(calls') = Len(calls) + 1 /\ \A j \in 1 .. Len(calls) : calls'[j] = calls[j]
      /\ calls'[Len(calls) + 1] = g /\ calls' # <<>>
  BY <1>4, <1>5, OneMore
<1>7. /\ Top.n \in NodeId /\ Here = Nodes[Top.n] /\ Done = Len(Top.rs) /\ Done \in Nat
      /\ Done + 1 \in 1 .. Len(Here.kids) /\ Here.kids[Done + 1] \in NodeId
  BY <1>1, TopType, NextChild
<1>8. errors' = <<>> => errors = <<>> /\ Report(Top) = <<>>
  BY <1>1, TopLogs
<1> QED BY <1>1, <1>3, <1>5, <1>6, <1>7, <1>8

\* The activation that is begun for a declaration.
LEMMA Taken ==
  ASSUME TypeInv, CheckDecl
  PROVE  /\ calls = <<>> /\ calls' # <<>> /\ Len(calls') = 1 /\ pass = 2 /\ pass' = 2
         /\ item \in 1 .. Len(prog) /\ item' = item + 1 /\ item \in Nat
         /\ \A g : g = calls'[1] => g.n = prog[item] /\ g.rs = <<>> /\ g.exp = None
         /\ prog[item] \in NodeId /\ Decl = Nodes[prog[item]] /\ Decl.k \in {"VarDecl", "Func"}
         /\ UNCHANGED <<prog, pass, functions, types, var_refs, errors>>
<1>1. /\ calls = <<>> /\ item <= Len(prog) /\ pass = 2 /\ item' = item + 1
      /\ UNCHANGED <<prog, pass, functions, types, var_refs, errors>>
  BY DEF CheckDecl
<1>2. PICK k : calls' = <<Frame(prog[item], None, k)>>
  BY Zenon DEF CheckDecl
<1>3. /\ calls' # <<>> /\ Len(calls') = 1
      /\ \A g : g = calls'[1] => g.n = prog[item] /\ g.rs = <<>> /\ g.exp = None
  BY <1>2 DEF Frame
<1> QED BY <1>1, <1>3, DeclType

LEMMA NestPop ==
  ASSUME TypeInv, NestInv, calls # <<>>, NEW r, calls' = Popped(r) PROVE NestInv'
<1>1. Len(calls') = Len(calls) - 1 /\ Len(calls) \in Nat \ {0} /\ \A j \in 1 .. Len(calls') : calls'[j].n = calls[j].n
  BY SameNodes
<1>2. ASSUME NEW j \in 1 .. Len(calls'), NEW k \in 1 .. Len(calls'), j <= k
      PROVE  calls'[k].n \in Below(calls'[j].n)
  <2>1. j \in 1 .. Len(calls) /\ k \in 1 .. Len(calls)
    BY <1>1
  <2> QED BY <1>1, <1>2, <2>1 DEF NestInv
<1> QED BY <1>2 DEF NestInv

LEMMA NestPush == ASSUME TypeInv, NestInv, CheckChild PROVE NestInv'
<1> DEFINE m == Len(calls)
<1>1. /\ m \in Nat \ {0} /\ Len(calls') = m + 1 /\ \A j \in 1 .. m : calls'[j] = calls[j]
      /\ Top.n \in NodeId /\ Here = Nodes[Top.n] /\ Done + 1 \in 1 .. Len(Here.kids)
      /\ Here.kids[Done + 1] \in NodeId /\ calls'[m + 1].n = Here.kids[Done + 1] /\ calls # <<>>
  BY Pushed
<1>2. Top = calls[m]
  BY DEF Top
<1>3. \A j \in 1 .. m : calls[j].n \in NodeId
  BY ActivationType DEF TypeInv, CallsInv
<1> HIDE DEF m
<1>4. \A j \in 1 .. m : Top.n \in Below(calls[j].n)
  BY <1>1, <1>2 DEF NestInv, m
<1>5. \A j \in 1 .. m : Here.kids[Done + 1] \in Below(calls[j].n)
  BY <1>1, <1>3, <1>4, BelowClosed
<1>6. ASSUME NEW j \in 1 .. m + 1, NEW k \in 1 .. m + 1, j <= k PROVE calls'[k].n \in Below(calls'[j].n)
  <2>1. CASE k = m + 1 /\ j = m + 1
    BY <1>1, <2>1, BelowClosed
  <2>2. CASE k = m + 1 /\ j # m + 1
    BY <1>1, <1>5, <2>2
  <2>3. CASE k # m + 1
    <3>1. j \in 1 .. m /\ k \in 1 .. m
      BY <1>1, <1>6, <2>3
    <3> QED BY <1>1, <1>6, <3>1 DEF NestInv, m
  <2> QED BY <2>1, <2>2, <2>3
<1> QED BY <1>1, <1>6 DEF NestInv

LEMMA NestBegin == ASSUME TypeInv, CheckDecl PROVE NestInv'
<1>1. Len(calls') = 1 /\ calls'[1].n = prog[item] /\ prog[item] \in NodeId
  BY Taken
<1>2. \A j \in 1 .. Len(calls') : j = 1
  BY <1>1
<1> QED BY <1>1, <1>2, BelowClosed DEF NestInv

LEMMA NestStep == ASSUME TypeInv, NestInv, [Next]_vars PROVE NestInv'
<1>1. CASE CheckChild
  BY <1>1, NestPush
<1>2. CASE CheckExpr
  BY <1>2, NestPop DEF CheckExpr, Walking
<1>3. CASE DeclareLocalVar
  BY <1>3, NestPop DEF DeclareLocalVar, Walking
<1>4. CASE CheckStmt
  BY <1>4, NestPop DEF CheckStmt, Walking
<1>5. CASE CheckDecl
  BY <1>5, NestBegin
<1>6. CASE HoistFunc \/ RequireMain \/ Conclude \/ UNCHANGED vars
  <2>1. calls' = calls
    BY <1>6 DEF HoistFunc, RequireMain, Conclude, vars
  <2> QED BY <2>1 DEF NestInv
<1> QED BY <1>1, <1>2, <1>3, <1>4, <1>5, <1>6 DEF Next, Step

LEMMA InitNest == ASSUME Init PROVE NestInv
<1>1. Len(calls) = 0
  BY DEF Init
<1> QED BY <1>1 DEF NestInv

\* What activations are about is part of the program.
LEMMA InProgram ==
  ASSUME TypeInv, NestInv, calls # <<>>
  PROVE  /\ item - 1 \in 1 .. Len(prog) /\ calls[1].n = prog[item - 1] /\ prog \in Programs
         /\ \A j \in 1 .. Len(calls) : /\ calls[j].n \in NodeId /\ calls[j].n \in NodesOf(prog)
                                       /\ calls[j].n \in Below(prog[item - 1])
<1>1. item - 1 \in 1 .. Len(prog) /\ calls[1].n = prog[item - 1]
  BY OuterActivation
<1>2. prog \in Programs
  BY TypeOKParts DEF TypeInv
<1>3. Below(prog[item - 1]) \subseteq NodesOf(prog)
  BY <1>1, <1>2, ProgramNodes
<1>4. \A j \in 1 .. Len(calls) : calls[j].n \in NodeId
  BY ActivationType DEF TypeInv, CallsInv
<1>5. 1 \in 1 .. Len(calls) /\ \A j \in 1 .. Len(calls) : 1 <= j
  BY TypeParts, Places
<1>6. \A j \in 1 .. Len(calls) : calls[j].n \in Below(calls[1].n)
  BY <1>5 DEF NestInv
<1> QED BY <1>1, <1>2, <1>3, <1>4, <1>6
(***************************************************************************)
(* The symbol table holds the scopes of the node that is checked.          *)
(***************************************************************************)
\* What a symbol in scope declares stays when declarations follow.
LEMMA DeclStays ==
  ASSUME TypeInv, SymbolsInv, NEW ds \in Seq(NodeId), declared' = declared \o ds
  PROVE  \A s \in 1 .. Len(scopes) : \A x \in Name : \A y : y = scopes[s][x] => DeclOf(y)' = DeclOf(y)
<1>1. \A i \in 0 .. Len(declared) - 1 : declared'[i + 1] = declared[i + 1]
  BY TypeParts, DeclaredStay
<1> SUFFICES ASSUME NEW s \in 1 .. Len(scopes), NEW x \in Name, NEW y, y = scopes[s][x]
             PROVE  DeclOf(y)' = DeclOf(y)
  OBVIOUS
<1>2. y # Unknown => y.id \in 0 .. Len(declared) - 1
  BY DEF SymbolsInv, Declares
<1>3. CASE y = Unknown
  BY <1>3 DEF DeclOf
<1>4. CASE y # Unknown
  <2>1. DeclOf(y)' = declared'[y.id + 1] /\ DeclOf(y) = declared[y.id + 1]
    BY <1>4 DEF DeclOf
  <2> QED BY <1>1, <1>2, <1>4, <2>1
<1> QED BY <1>3, <1>4

\* And when none do.
LEMMA DeclSame == ASSUME declared' = declared PROVE \A y : DeclOf(y)' = DeclOf(y)
BY DEF DeclOf

\* The scopes around the innermost activation once it is done.
Outer == IF Len(calls) = 1 THEN <<GlobalsAt(prog, item)>>
         ELSE LET f == calls[Len(calls) - 1] IN After(Sc(f.n), Nodes[f.n], Len(f.rs) + 1)

\* When an activation returns, the symbol table holds the scopes around it, below its own,
\* but for the name it declares itself.
LEMMA LeftDecl ==
  ASSUME TypeInv, NestInv, ScopingInv, calls # <<>>, Len(calls) = 1, NEW o, o = Outer
  PROVE  /\ o \in Seq(Decls) /\ Len(o) \in Nat \ {0} /\ Len(scopes) = Len(o) + Top.owned /\ Top.owned \in Nat
         /\ \A s \in 1 .. Len(o) : \A x \in Name :
              s # Len(o) \/ Top.owned # 0 \/ Here.k # "VarDecl" => DeclOf(scopes[s][x]) = o[s][x]
         /\ Here.k = "VarDecl" /\ Top.owned = 0 =>
              \A x \in Name : o[Len(o)][x] = IF Here.name = x THEN Top.n ELSE DeclOf(scopes[Len(o)][x])
<1>1. /\ item - 1 \in 1 .. Len(prog) /\ Top.n = prog[item - 1] /\ prog \in Programs /\ Top.n \in NodeId
      /\ Here = Nodes[Top.n] /\ Done \in Nat /\ Here \in Node
  BY InProgram, TopType, IsNode DEF Top
<1>2. Here.k \in {"VarDecl", "Func"} /\ Top.owned = IF Here.k = "Func" THEN 1 ELSE 0
  BY <1>1, OuterActivation DEF Top
<1>3. item \in Nat /\ item - 1 + 1 = item
  BY TypeParts
<1>4. PICK i \in 1 .. Len(prog) : i = item - 1
  BY <1>1
<1>5. i + 1 = item
  BY <1>3, <1>4
<1>6. /\ GlobalsAt(prog, i) \in Decls /\ GlobalsAt(prog, item) \in Decls
      /\ Here.k = "Func" => GlobalsAt(prog, item) = GlobalsAt(prog, i)
      /\ Here.k = "VarDecl" =>
           \A x \in Name : GlobalsAt(prog, item)[x] = IF Here.name = x THEN Top.n ELSE GlobalsAt(prog, i)[x]
  BY <1>1, <1>4, <1>5, GlobalsType
<1>7. PICK G : G = Sc(Top.n)
  OBVIOUS
<1>8. G = DeclScopes(prog, i) /\ G \in Seq(Decls) \ {<<>>}
  BY <1>1, <1>4, <1>7, ScopesStep, DeclScopesType DEF Sc
<1>9. PICK a : a = After(G, Here, Done)
  OBVIOUS
<1>10. SameScopes(scopes, a)
  BY <1>7, <1>9 DEF ScopingInv
<1>11. o = <<GlobalsAt(prog, item)>>
  BY DEF Outer
<1>12. o \in Seq(Decls) /\ Len(o) = 1 /\ o[1] = GlobalsAt(prog, item)
  BY <1>6, <1>11
<1>13. CASE Here.k = "Func"
  <2>1. G = <<GlobalsAt(prog, i), ParamScope(Here)>>
    BY <1>1, <1>4, <1>8, <1>13 DEF DeclScopes
  <2>2. Len(G) = 2 /\ G[1] = GlobalsAt(prog, i)
    BY <2>1
  <2>3. Len(a) = 2 /\ a[1] = GlobalsAt(prog, i)
    <3>1. 1 \in 1 .. 2
      OBVIOUS
    <3>2. a = After(G, Here, Done)
      BY <1>9
    <3>3. Here \in Node /\ Done \in Nat /\ G \in Seq(Decls) /\ G # <<>>
      BY <1>1, <1>8
    <3>4. Len(a) = Len(G)
      BY <3>2, <3>3, AfterType
    <3>5. \A s \in 1 .. Len(G) : s # Len(G) => a[s] = G[s]
      BY <3>2, <3>3, AfterAt
    <3> QED BY <2>2, <3>1, <3>4, <3>5
  <2>4. Top.owned = 1 /\ Len(scopes) = 2
    BY <1>2, <1>10, <1>13, <2>3 DEF SameScopes
  <2>5. \A x \in Name : DeclOf(scopes[1][x]) = o[1][x]
    BY <1>6, <1>10, <1>12, <1>13, <2>3, <2>4 DEF SameScopes
  <2> QED BY <1>12, <1>13, <2>4, <2>5
<1>14. CASE Here.k = "VarDecl"
  <2>1. G = <<GlobalsAt(prog, i)>>
    BY <1>1, <1>4, <1>8, <1>14 DEF DeclScopes
  <2>2. Binders(Here, Done) = {}
    BY <1>1, <1>14, NoBinders
  <2>3. a = G
    BY <1>1, <1>8, <1>9, <2>2, AfterNothing
  <2>4. Len(G) = 1 /\ G[1] = GlobalsAt(prog, i)
    BY <2>1
  <2>5. Top.owned = 0 /\ Len(scopes) = 1
    BY <1>2, <1>10, <1>14, <2>3, <2>4 DEF SameScopes
  <2>6. \A x \in Name : DeclOf(scopes[1][x]) = GlobalsAt(prog, i)[x]
    BY <1>10, <2>3, <2>4, <2>5 DEF SameScopes
  <2> QED BY <1>6, <1>12, <1>14, <2>5, <2>6
<1> QED BY <1>2, <1>13, <1>14
LEMMA LeftChild ==
  ASSUME TypeInv, NestInv, ScopingInv, calls # <<>>, Len(calls) # 1, NEW o, o = Outer
  PROVE  /\ o \in Seq(Decls) /\ Len(o) \in Nat \ {0} /\ Len(scopes) = Len(o) + Top.owned /\ Top.owned \in Nat
         /\ \A s \in 1 .. Len(o) : \A x \in Name :
              s # Len(o) \/ Top.owned # 0 \/ Here.k # "VarDecl" => DeclOf(scopes[s][x]) = o[s][x]
         /\ Here.k = "VarDecl" /\ Top.owned = 0 =>
              \A x \in Name : o[Len(o)][x] = IF Here.name = x THEN Top.n ELSE DeclOf(scopes[Len(o)][x])
<1>1. PICK f : f = calls[Len(calls) - 1]
  OBVIOUS
<1>2. PICK m \in Nat : m = Len(f.rs)
  BY <1>1, Caller
<1>3. /\ f.n \in NodeId /\ m + 1 \in 1 .. Len(Nodes[f.n].kids) /\ Nodes[f.n].kids[m + 1] = Top.n
      /\ Top.owned = Opened(Nodes[f.n], m + 1)
  BY <1>1, <1>2, Caller DEF Awaits
<1>4. /\ Top.n \in NodeId /\ Here = Nodes[Top.n] /\ Done \in Nat /\ Here \in Node
  BY TopType, IsNode
<1>5. prog \in Programs /\ f.n \in NodesOf(prog)
  BY <1>1, InProgram, Places
<1>12. PICK nd \in Node : nd = Nodes[f.n]
  BY <1>3, IsNode
<1>6. PICK G : G = Sc(f.n)
  OBVIOUS
<1>7. G \in Seq(Decls) /\ G # <<>>
  BY <1>1, <1>6, Places DEF ScopingInv
<1>8. PICK K : K = Sc(Top.n)
  OBVIOUS
<1>9. K = Inside(G, nd, m + 1)
  BY <1>3, <1>5, <1>6, <1>8, <1>12, ScopesStep DEF Sc
<1>10. PICK b : b = After(G, nd, m)
  OBVIOUS
<1>11. PICK w : w = Top.owned
  OBVIOUS
<1>13. /\ K \in Seq(Decls) /\ K # <<>> /\ Len(K) = Len(G) + w /\ w \in Nat /\ Len(G) \in Nat \ {0}
       /\ \A s \in 1 .. Len(G) : K[s] = b[s]
       /\ w = 0 => K = b
  <2>1. PICK i \in 1 .. Len(nd.kids) : i = m + 1
    BY <1>3, <1>12
  <2>2. K = Inside(G, nd, i) /\ w = Opened(nd, i)
    BY <1>3, <1>9, <1>11, <1>12, <2>1
  <2>3. nd \in Node /\ m \in Nat /\ i > m /\ i <= m + 1
    BY <1>2, <1>12, <2>1
  <2>4. K \in Seq(Decls) /\ K # <<>> /\ Len(K) = Len(G) + w /\ w \in Nat /\ Len(G) \in Nat \ {0}
    BY <1>7, <1>10, <2>1, <2>2, <2>3, InsideType
  <2>5. K = b \o Fresh(w)
    <3>1. i - 1 = m
      BY <1>2, <2>1
    <3> QED BY <1>10, <2>2, <3>1, InsideIs
  <2>6. b \in Seq(Decls) /\ Len(b) = Len(G)
    BY <1>7, <1>10, <2>3, AfterType
  <2>7. \A s \in 1 .. Len(G) : K[s] = b[s]
    BY <2>4, <2>5, <2>6, NoDeclsAt
  <2>8. w = 0 => K = b
    BY <2>4, <2>6, <2>7
  <2> QED BY <2>4, <2>7, <2>8
<1>14. PICK a : a = After(K, Here, Done)
  OBVIOUS
<1>15. SameScopes(scopes, a)
  BY <1>8, <1>14 DEF ScopingInv
<1>16. /\ Len(a) = Len(K) /\ Len(K) \in Nat \ {0}
       /\ \A s \in 1 .. Len(K) : s # Len(K) => a[s] = K[s]
  <2>1. a = After(K, Here, Done)
    BY <1>14
  <2>2. K \in Seq(Decls) /\ K # <<>> /\ Here \in Node /\ Done \in Nat
    BY <1>4, <1>13
  <2>3. Len(a) = Len(K) /\ Len(K) \in Nat \ {0}
    BY <2>1, <2>2, AfterType
  <2>4. \A s \in 1 .. Len(K) : s # Len(K) => a[s] = K[s]
    BY <2>1, <2>2, AfterAt
  <2> QED BY <2>3, <2>4
<1>17. o = After(G, nd, m + 1)
  BY <1>1, <1>2, <1>6, <1>12 DEF Outer
<1>18. PICK v : v = With(G[Len(G)], nd, m)
  OBVIOUS
<1>19. PICK v2 : v2 = With(G[Len(G)], nd, m + 1)
  OBVIOUS
<1>20. /\ o \in Seq(Decls) /\ Len(o) = Len(G) /\ o[Len(G)] = v2
       /\ \A s \in 1 .. Len(G) : s # Len(G) => o[s] = G[s]
  <2>1. PICK l \in Nat : l = m + 1
    BY <1>2
  <2>2. o = After(G, nd, l) /\ v2 = With(G[Len(G)], nd, l)
    BY <1>17, <1>19, <2>1
  <2>3. nd \in Node /\ l \in Nat
    BY <1>12, <2>1
  <2>4. o \in Seq(Decls) /\ Len(o) = Len(G)
    BY <1>7, <2>2, <2>3, AfterType
  <2>5. o[Len(G)] = v2 /\ \A s \in 1 .. Len(G) : s # Len(G) => o[s] = G[s]
    BY <1>7, <2>2, <2>3, AfterAt
  <2> QED BY <2>4, <2>5
<1>21. b[Len(G)] = v /\ \A s \in 1 .. Len(G) : s # Len(G) => b[s] = G[s]
  BY <1>2, <1>7, <1>10, <1>12, <1>18, AfterAt
<1> DEFINE binds == Here.k = "VarDecl" /\ ~Scoped(nd, m + 1)
<1>22. /\ ~binds => v2 = v
       /\ binds => \A x \in Name : v2[x] = IF Here.name = x THEN Top.n ELSE v[x]
  <2>1. G[Len(G)] \in Decls
    BY <1>7, <1>13
  <2>2. m + 1 <= Len(nd.kids)
    BY <1>3, <1>12
  <2> QED BY <1>2, <1>3, <1>4, <1>12, <1>18, <1>19, <2>1, <2>2, WithNext
<1>23. /\ w # 0 => ~binds
       /\ w = 0 /\ Here.k = "VarDecl" => binds
       /\ w = 0 => Here.k \notin {"Block", "For"}
  BY <1>3, <1>4, <1>11, <1>12, OpenedNew DEF NewScopes
<1>24. Here.k # "Func"
  BY <1>3, <1>4, KidKinds, KindsApart
<1>25. Len(scopes) = Len(G) + w
  BY <1>13, <1>15, <1>16 DEF SameScopes
<1>26. w # 0 => \A s \in 1 .. Len(G) : a[s] = b[s]
  <2> SUFFICES ASSUME w # 0, NEW s \in 1 .. Len(G) PROVE a[s] = b[s]
    OBVIOUS
  <2>1. s \in 1 .. Len(K) /\ s # Len(K)
    BY <1>13, <1>16
  <2> QED BY <1>13, <1>16, <2>1
<1>27. w = 0 => \A s \in 1 .. Len(G) : a[s] = b[s]
  <2> SUFFICES ASSUME w = 0 PROVE \A s \in 1 .. Len(G) : a[s] = b[s]
    OBVIOUS
  <2>1. Binders(Here, Done) = {}
    BY <1>4, <1>23, <1>24, NoBinders
  <2>2. a = K
    BY <1>4, <1>13, <1>14, <2>1, AfterNothing
  <2> QED BY <1>13, <2>2
<1>28. \A s \in 1 .. Len(G) : \A x \in Name : DeclOf(scopes[s][x]) = b[s][x]
  <2>1. \A s \in 1 .. Len(G) : s \in 1 .. Len(scopes)
    BY <1>13, <1>25
  <2>2. \A s \in 1 .. Len(G) : \A x \in Name : DeclOf(scopes[s][x]) = a[s][x]
    BY <1>15, <2>1 DEF SameScopes
  <2> QED BY <1>26, <1>27, <2>2
<1> HIDE DEF binds
<1>29. ASSUME NEW s \in 1 .. Len(G), NEW x \in Name, s # Len(G) \/ w # 0 \/ Here.k # "VarDecl"
       PROVE  DeclOf(scopes[s][x]) = o[s][x]
  <2>1. CASE s # Len(G)
    BY <1>20, <1>21, <1>28, <2>1
  <2>2. CASE s = Len(G)
    <3>1. ~binds
      BY <1>23, <1>29, <2>2 DEF binds
    <3>2. v2 = v
      BY <1>22, <3>1
    <3> QED BY <1>20, <1>21, <1>28, <2>2, <3>2
  <2> QED BY <2>1, <2>2
<1>30. ASSUME Here.k = "VarDecl", w = 0, NEW x \in Name
       PROVE  o[Len(o)][x] = IF Here.name = x THEN Top.n ELSE DeclOf(scopes[Len(o)][x])
  <2>1. binds
    BY <1>23, <1>30
  <2>2. Len(G) \in 1 .. Len(G)
    BY <1>13
  <2>3. o[Len(o)] = v2 /\ DeclOf(scopes[Len(o)][x]) = v[x]
    BY <1>20, <1>21, <1>28, <2>2
  <2> QED BY <1>22, <2>1, <2>3
<1> QED BY <1>11, <1>13, <1>20, <1>25, <1>29, <1>30
LEMMA Left ==
  ASSUME TypeInv, NestInv, ScopingInv, calls # <<>>, NEW o, o = Outer
  PROVE  /\ o \in Seq(Decls) /\ Len(o) \in Nat \ {0} /\ Len(scopes) = Len(o) + Top.owned /\ Top.owned \in Nat
         /\ \A s \in 1 .. Len(o) : \A x \in Name :
              s # Len(o) \/ Top.owned # 0 \/ Here.k # "VarDecl" => DeclOf(scopes[s][x]) = o[s][x]
         /\ Here.k = "VarDecl" /\ Top.owned = 0 =>
              \A x \in Name : o[Len(o)][x] = IF Here.name = x THEN Top.n ELSE DeclOf(scopes[Len(o)][x])
<1>1. CASE Len(calls) = 1
  BY <1>1, LeftDecl
<1>2. CASE Len(calls) # 1
  BY <1>2, LeftChild
<1> QED BY <1>1, <1>2

\* What the symbol table is to hold, spelled out.
LEMMA SameNext ==
  ASSUME NEW G, Len(scopes') = Len(G),
         \A s \in 1 .. Len(G) : \A x \in Name : \A y : y = scopes'[s][x] => DeclOf(y)' = G[s][x]
  PROVE  \A H : H = G => SameScopes(scopes, H)'
<1>1. ASSUME NEW s \in 1 .. Len(scopes'), NEW x \in Name PROVE (DeclOf(scopes[s][x]))' = G[s][x]
  <2>1. PICK y : y = scopes'[s][x]
    OBVIOUS
  <2>2. DeclOf(y)' = G[s][x]
    BY <1>1, <2>1
  <2> QED BY <2>1, <2>2 DEF DeclOf
<1> QED BY <1>1 DEF SameScopes

LEMMA ScopingPop ==
  ASSUME TypeInv, NestInv, ScopingInv, calls # <<>>, NEW r, calls' = Popped(r), UNCHANGED <<prog, pass, item>>,
         NEW o, o = Outer, Len(scopes') = Len(o),
         \A s \in 1 .. Len(o) : \A x \in Name : \A y : y = scopes'[s][x] => DeclOf(y)' = o[s][x]
  PROVE  ScopingInv'
<1>1. \A H : H = o => SameScopes(scopes, H)'
  BY SameNext
<1>2. Len(calls') = Len(calls) - 1 /\ Len(calls) \in Nat \ {0} /\ \A j \in 1 .. Len(calls') : calls'[j].n = calls[j].n
  BY SameNodes
<1>3. ASSUME NEW j \in 1 .. Len(calls') PROVE ScopesOf(prog')[calls'[j].n] \in Seq(Decls) \ {<<>>}
  <2>1. j \in 1 .. Len(calls)
    BY <1>2
  <2> QED BY <1>2, <2>1 DEF ScopingInv, Sc
<1>4. CASE Len(calls) = 1
  <2>1. Len(calls') = 0 /\ calls' = <<>>
    BY <1>2, <1>4, Answered
  <2>2. o = <<GlobalsAt(prog, item)>>
    BY <1>4 DEF Outer
  <2>3. SameScopes(scopes, <<GlobalsAt(prog, item)>>)'
    <3>1. <<GlobalsAt(prog', item')>> = o
      BY <2>2
    <3> QED BY <1>1, <3>1
  <2> QED BY <1>3, <2>1, <2>3 DEF ScopingInv, Sc
<1>5. CASE Len(calls) # 1
  <2>1. PICK f : f = calls[Len(calls) - 1]
    OBVIOUS
  <2>2. PICK m : m = Len(calls')
    OBVIOUS
  <2>3. /\ m = Len(calls) - 1 /\ calls'[m].n = f.n /\ Len(calls'[m].rs) = Len(f.rs) + 1 /\ calls' # <<>>
    <3>1. Len(calls) > 1
      BY <1>5, Places
    <3>2. calls'[Len(calls) - 1].n = f.n /\ calls'[Len(calls) - 1].rs = Append(f.rs, r)
      BY <2>1, <3>1, Answered
    <3>3. f.rs \in Seq(Result)
      BY <1>5, <2>1, Caller
    <3>4. Len(Append(f.rs, r)) = Len(f.rs) + 1
      BY <3>3
    <3>5. Len(calls') # 0
      BY <1>2, <3>1
    <3> QED BY <1>2, <2>2, <3>2, <3>4, <3>5
  <2>4. o = After(ScopesOf(prog)[f.n], Nodes[f.n], Len(f.rs) + 1)
    BY <1>5, <2>1 DEF Outer, Sc
  <2>5. After(ScopesOf(prog')[calls'[Len(calls')].n], Nodes[calls'[Len(calls')].n], Len(calls'[Len(calls')].rs)) = o
    BY <2>2, <2>3, <2>4
  <2>6. SameScopes(scopes, After(Sc(Top.n), Here, Done))'
    BY <1>1, <2>5 DEF Sc, Top, Here, Done
  <2> QED BY <1>3, <2>3, <2>6 DEF ScopingInv, Sc
<1> QED BY <1>4, <1>5

LEMMA CheckExprScoping == ASSUME TypeInv, NestInv, ScopingInv, CheckExpr PROVE ScopingInv'
<1>1. /\ calls # <<>> /\ Here.k \in ExprKind /\ UNCHANGED <<prog, pass, item, scopes, declared>>
  BY DEF CheckExpr, Walking
<1>2. PICK r : calls' = Popped(r)
  BY DEF CheckExpr
<1>3. PICK o : o = Outer
  OBVIOUS
<1>4. Top.owned = 0 /\ Here.k # "VarDecl"
  BY <1>1, ExprOwnsNone, KindsApart
<1>5. Len(scopes) = Len(o) /\ \A s \in 1 .. Len(o) : \A x \in Name : DeclOf(scopes[s][x]) = o[s][x]
  <2>1. Len(o) \in Nat /\ Len(scopes) = Len(o) + Top.owned
    BY <1>1, <1>3, Left
  <2>2. \A s \in 1 .. Len(o) : \A x \in Name : DeclOf(scopes[s][x]) = o[s][x]
    BY <1>1, <1>3, <1>4, Left
  <2> QED BY <1>4, <2>1, <2>2
<1>6. \A s \in 1 .. Len(o) : \A x \in Name : \A y : y = scopes'[s][x] => DeclOf(y)' = o[s][x]
  BY <1>1, <1>5, DeclSame
<1> QED BY <1>1, <1>2, <1>3, <1>5, <1>6, ScopingPop

LEMMA CheckStmtScoping == ASSUME TypeInv, NestInv, ScopingInv, CheckStmt PROVE ScopingInv'
<1>1. /\ calls # <<>> /\ Here.k # "VarDecl" /\ UNCHANGED <<prog, pass, item, declared>>
      /\ scopes' = SubSeq(scopes, 1, Len(scopes) - Top.owned)
  BY DEF CheckStmt, Walking, Close
<1>2. PICK r : calls' = Popped(r)
  BY DEF CheckStmt
<1>3. PICK o : o = Outer
  OBVIOUS
<1>4. /\ Len(o) \in Nat \ {0} /\ Len(scopes) = Len(o) + Top.owned /\ Top.owned \in Nat
  BY <1>1, <1>3, Left
<1>5. \A s \in 1 .. Len(o) : \A x \in Name : DeclOf(scopes[s][x]) = o[s][x]
  BY <1>1, <1>3, Left
<1>6. Len(scopes') = Len(o) /\ \A s \in 1 .. Len(o) : scopes'[s] = scopes[s]
  <2>1. scopes \in Seq([Name -> Symbol]) /\ Len(scopes) - Top.owned = Len(o)
    BY <1>4, TypeParts
  <2> QED BY <1>1, <1>4, <2>1, CloseType
<1>7. \A s \in 1 .. Len(o) : \A x \in Name : \A y : y = scopes'[s][x] => DeclOf(y)' = o[s][x]
  BY <1>1, <1>5, <1>6, DeclSame
<1> QED BY <1>1, <1>2, <1>3, <1>6, <1>7, ScopingPop
\* A declaration that is done is what its name means in the innermost scope.
LEMMA LocalDeclared ==
  ASSUME TypeInv, SymbolsInv, DeclareLocalVar
  PROVE  /\ calls # <<>> /\ Here.k = "VarDecl" /\ UNCHANGED <<prog, pass, item>>
         /\ Len(scopes') = Len(scopes) - Top.owned /\ Top.owned \in Nat /\ Len(scopes) \in Nat
         /\ \A s \in 1 .. Len(scopes') : \A x \in Name : \A y : y = scopes'[s][x] =>
              DeclOf(y)' = IF s = Len(scopes) /\ Here.name = x THEN Top.n ELSE DeclOf(scopes[s][x])
<1> DEFINE ss == [scopes EXCEPT ![Len(scopes)] = Declare(Scope, <<Top.n>>)]
<1>1. /\ calls # <<>> /\ Here.k = "VarDecl" /\ scopes' = Close(ss) /\ declared' = Append(declared, Top.n)
      /\ UNCHANGED <<prog, pass, item>>
  BY DEF DeclareLocalVar, Walking
<1>2. /\ Top.n \in NodeId /\ Here = Nodes[Top.n] /\ declared \in Seq(NodeId)
      /\ scopes \in Seq([Name -> Symbol]) /\ Len(scopes) \in Nat \ {0}
  BY <1>1, TopType, TypeParts
<1>3. Top.owned \in Nat /\ Len(scopes) - Top.owned \in Nat \ {0}
  BY <1>1, OwnedScopes
<1>4. /\ ss \in Seq([Name -> Symbol]) /\ Len(ss) = Len(scopes)
      /\ \A i \in 1 .. Len(scopes) : ss[i] = IF i = Len(scopes) THEN Declare(Scope, <<Top.n>>) ELSE scopes[i]
  BY <1>1, DeclaredScopes
<1> HIDE DEF ss
<1>5. Len(scopes') = Len(scopes) - Top.owned /\ \A s \in 1 .. Len(scopes) - Top.owned : scopes'[s] = ss[s]
  BY <1>1, <1>3, <1>4, CloseType DEF Close
<1>6. \A s \in 1 .. Len(scopes') : s \in 1 .. Len(scopes) /\ scopes'[s] = ss[s]
  BY <1>2, <1>3, <1>5
<1>7. declared' = declared \o <<Top.n>> /\ <<Top.n>> \in Seq(NodeId) /\ Len(<<Top.n>>) = 1
  BY <1>1, <1>2, AppendOne
<1>8. Len(declared) \in Nat /\ declared'[Len(declared) + 1] = Top.n
  BY <1>1, <1>2
<1>9. \A s \in 1 .. Len(scopes) : \A x \in Name : \A y : y = scopes[s][x] => DeclOf(y)' = DeclOf(y)
  BY <1>7, DeclStays
<1>10. ASSUME NEW s \in 1 .. Len(scopes'), NEW x \in Name, NEW y, y = scopes'[s][x]
       PROVE  DeclOf(y)' = IF s = Len(scopes) /\ Here.name = x THEN Top.n ELSE DeclOf(scopes[s][x])
  <2> DEFINE sc == Scope  n == Top.n
  <2>1. s = Len(scopes) => sc = scopes[s] /\ scopes'[s] = Declare(sc, <<n>>)
    BY <1>4, <1>6 DEF Scope
  <2>2. sc \in [Name -> Symbol] /\ n \in NodeId /\ Here = Nodes[n]
    BY <1>2 DEF Scope
  <2>3. Declare(sc, <<n>>)[x] = IF Nodes[n].name = x THEN [id |-> Len(declared), ty |-> Nodes[n].ty] ELSE sc[x]
    <3> HIDE DEF sc, n
    <3> QED BY <1>2, <2>2, DeclareOne
  <2>4. CASE s = Len(scopes) /\ Here.name = x
    <3>1. y = [id |-> Len(declared), ty |-> Here.ty]
      <4> HIDE DEF sc, n
      <4> QED BY <1>10, <2>1, <2>2, <2>3, <2>4
    <3>2. y.id = Len(declared)
      BY <3>1
    <3>3. y # Unknown
      <4>1. NoSymbol \notin Nat
        BY DEF NoSymbol
      <4> QED BY <1>8, <3>2, <4>1 DEF Unknown
    <3>4. DeclOf(y)' = declared'[Len(declared) + 1]
      BY <3>2, <3>3 DEF DeclOf
    <3> QED BY <1>8, <2>4, <3>4
  <2>5. CASE ~(s = Len(scopes) /\ Here.name = x)
    <3>1. s \in 1 .. Len(scopes) /\ y = scopes[s][x]
      <4>1. CASE s = Len(scopes)
        <5> HIDE DEF sc, n
        <5> QED BY <1>6, <1>10, <2>1, <2>2, <2>3, <2>5, <4>1
      <4>2. CASE s # Len(scopes)
        BY <1>4, <1>6, <1>10, <4>2
      <4> QED BY <4>1, <4>2
    <3>2. DeclOf(y)' = DeclOf(y)
      BY <1>9, <3>1
    <3> QED BY <2>5, <3>1, <3>2
  <2> QED BY <2>4, <2>5
<1> QED BY <1>1, <1>2, <1>3, <1>5, <1>10

LEMMA DeclareLocalVarScoping ==
  ASSUME TypeInv, NestInv, SymbolsInv, ScopingInv, DeclareLocalVar PROVE ScopingInv'
<1>1. /\ calls # <<>> /\ Here.k = "VarDecl" /\ UNCHANGED <<prog, pass, item>>
      /\ Len(scopes') = Len(scopes) - Top.owned /\ Top.owned \in Nat /\ Len(scopes) \in Nat
  BY LocalDeclared
<1>2. PICK r : calls' = Popped(r)
  BY DEF DeclareLocalVar
<1>3. PICK o : o = Outer
  OBVIOUS
<1>4. /\ Len(o) \in Nat \ {0} /\ Len(scopes) = Len(o) + Top.owned
  BY <1>1, <1>3, Left
<1>5. Len(scopes') = Len(o)
  BY <1>1, <1>4
<1>6. \A s \in 1 .. Len(o) : \A x \in Name :
        s # Len(o) \/ Top.owned # 0 => DeclOf(scopes[s][x]) = o[s][x]
  BY <1>1, <1>3, Left
<1>7. Top.owned = 0 => \A x \in Name : o[Len(o)][x] = IF Here.name = x THEN Top.n ELSE DeclOf(scopes[Len(o)][x])
  BY <1>1, <1>3, Left
<1>8. ASSUME NEW s \in 1 .. Len(o), NEW x \in Name, NEW y, y = scopes'[s][x] PROVE DeclOf(y)' = o[s][x]
  <2>1. DeclOf(y)' = IF s = Len(scopes) /\ Here.name = x THEN Top.n ELSE DeclOf(scopes[s][x])
    BY <1>5, <1>8, LocalDeclared
  <2>2. CASE Top.owned = 0
    <3>1. Len(scopes) = Len(o)
      BY <1>4, <2>2
    <3>2. CASE s = Len(o)
      BY <1>7, <2>1, <2>2, <3>1, <3>2
    <3>3. CASE s # Len(o)
      BY <1>6, <2>1, <3>1, <3>3
    <3> QED BY <3>2, <3>3
  <2>3. CASE Top.owned # 0
    <3>1. s # Len(scopes)
      BY <1>1, <1>4, <2>3
    <3> QED BY <1>6, <2>1, <2>3, <3>1
  <2> QED BY <2>2, <2>3
<1> QED BY <1>1, <1>2, <1>3, <1>5, <1>8, ScopingPop

LEMMA CheckChildScoping == ASSUME TypeInv, NestInv, ScopingInv, CheckChild PROVE ScopingInv'
<1>1. PICK m : m = Len(calls)
  OBVIOUS
<1>2. PICK i : i = Done + 1
  OBVIOUS
<1>3. /\ calls # <<>> /\ calls' # <<>> /\ pass = 2
      /\ Top.n \in NodeId /\ Here = Nodes[Top.n] /\ Done \in Nat
      /\ i \in 1 .. Len(Here.kids) /\ Here.kids[i] \in NodeId
      /\ m \in Nat \ {0} /\ Len(calls') = m + 1 /\ \A j \in 1 .. m : calls'[j] = calls[j]
      /\ calls'[m + 1].n = Here.kids[i] /\ calls'[m + 1].rs = <<>>
      /\ UNCHANGED <<prog, pass, item, declared>>
  BY <1>1, <1>2, Pushed
<1>4. Here \in Node /\ Nodes[Here.kids[i]] \in Node
  BY <1>3, IsNode
<1>5. prog \in Programs /\ Top.n \in NodesOf(prog)
  BY <1>3, InProgram, Places DEF Top
<1>6. PICK G : G = Sc(Top.n)
  OBVIOUS
<1>7. G \in Seq(Decls) /\ G # <<>>
  BY <1>3, <1>6, Places DEF ScopingInv, Top
<1>8. PICK b : b = After(G, Here, Done)
  OBVIOUS
<1>9. PICK w \in Nat : w = Opened(Here, i)
  BY OpenedType
<1>10. PICK K : K = Inside(G, Here, i)
  OBVIOUS
<1>11. K = b \o Fresh(w)
  <2>1. i - 1 = Done
    BY <1>2, <1>3
  <2> QED BY <1>8, <1>9, <1>10, <2>1, InsideIs
<1>12. b \in Seq(Decls) /\ b # <<>> /\ Len(b) = Len(G) /\ Len(G) \in Nat
  <2>1. Here \in Node /\ Done \in Nat
    BY <1>3, <1>4
  <2> QED BY <1>7, <1>8, <2>1, AfterType
<1>13. K \in Seq(Decls) /\ Len(K) = Len(b) + w
  BY <1>9, <1>11, <1>12, NoDeclsMore
<1>14. \A s \in 1 .. Len(b) : K[s] = b[s]
  BY <1>9, <1>11, <1>12, NoDeclsAt
<1>15. \A s \in 1 .. Len(b) + w : s > Len(b) => K[s] = NoDecls
  BY <1>9, <1>11, <1>12, NoDeclsAt
<1>16. Len(scopes) = Len(b) /\ \A s \in 1 .. Len(b) : \A x \in Name : DeclOf(scopes[s][x]) = b[s][x]
  BY <1>3, <1>6, <1>8 DEF ScopingInv, SameScopes
<1>17. scopes' = scopes \o [s \in 1 .. w |-> NoNames] /\ scopes \in Seq([Name -> Symbol])
  <2>1. scopes' = scopes \o [s \in 1 .. w |-> NoNames]
    BY <1>2, <1>9, Zenon DEF CheckChild
  <2> QED BY <2>1, TypeParts
<1>18. /\ Len(scopes') = Len(scopes) + w
       /\ \A s \in 1 .. Len(scopes) : scopes'[s] = scopes[s]
       /\ \A s \in Len(scopes) + 1 .. Len(scopes) + w : scopes'[s] = NoNames
  BY <1>9, <1>17, OpenedScopes
<1>19. Len(scopes') = Len(K)
  BY <1>13, <1>16, <1>18
<1>20. ASSUME NEW s \in 1 .. Len(K), NEW x \in Name, NEW y, y = scopes'[s][x] PROVE DeclOf(y)' = K[s][x]
  <2>1. CASE s <= Len(b)
    <3>1. s \in 1 .. Len(b)
      BY <1>12, <2>1
    <3>2. DeclOf(y)' = DeclOf(y)
      BY <1>3, DeclSame
    <3> QED BY <1>14, <1>16, <1>18, <1>20, <3>1, <3>2
  <2>2. CASE ~(s <= Len(b))
    <3>1. s \in Len(b) + 1 .. Len(b) + w /\ s \in 1 .. Len(b) + w /\ s > Len(b)
      BY <1>9, <1>12, <1>13, <2>2
    <3>2. y = Unknown
      BY <1>16, <1>18, <1>20, <3>1 DEF NoNames
    <3>3. DeclOf(y)' = NoDecl
      BY <3>2 DEF DeclOf
    <3>4. K[s][x] = NoDecl
      BY <1>15, <3>1 DEF NoDecls
    <3> QED BY <3>3, <3>4
  <2> QED BY <2>1, <2>2
<1>21. \A H : H = K => SameScopes(scopes, H)'
  BY <1>19, <1>20, SameNext
<1>22. ScopesOf(prog)[Here.kids[i]] = K
  BY <1>3, <1>5, <1>6, <1>10, ScopesStep DEF Sc
<1>23. K # <<>>
  <2>1. Len(b) # 0
    BY <1>12
  <2>2. Len(K) # 0
    BY <1>9, <1>12, <1>13, <2>1
  <2> QED BY <2>2
<1>24. After(K, Nodes[Here.kids[i]], 0) = K
  <2>1. Binders(Nodes[Here.kids[i]], 0) = {}
    BY <1>3, NoBinders
  <2>2. PICK nd \in Node : nd = Nodes[Here.kids[i]]
    BY <1>4
  <2>3. Binders(nd, 0) = {}
    BY <2>1, <2>2
  <2>4. After(K, nd, 0) = K
    BY <1>13, <1>23, <2>2, <2>3, AfterNothing
  <2> QED BY <2>2, <2>4
<1>25. After(ScopesOf(prog')[calls'[Len(calls')].n], Nodes[calls'[Len(calls')].n], Len(calls'[Len(calls')].rs)) = K
  <2>1. Len(calls'[Len(calls')].rs) = 0
    BY <1>3
  <2> QED BY <1>3, <1>22, <1>24, <2>1
<1>26. SameScopes(scopes, After(Sc(Top.n), Here, Done))'
  BY <1>21, <1>25 DEF Sc, Top, Here, Done
<1>27. ASSUME NEW j \in 1 .. Len(calls') PROVE ScopesOf(prog')[calls'[j].n] \in Seq(Decls) \ {<<>>}
  <2>1. CASE j = m + 1
    BY <1>3, <1>13, <1>22, <1>23, <2>1
  <2>2. CASE j # m + 1
    <3>1. j \in 1 .. Len(calls) /\ calls'[j] = calls[j]
      BY <1>1, <1>3, <2>2
    <3> QED BY <1>3, <3>1 DEF ScopingInv, Sc
  <2> QED BY <2>1, <2>2
<1> QED BY <1>3, <1>26, <1>27 DEF ScopingInv, Sc

\* What a parameter's name declares.
LEMMA ParamsDeclared ==
  ASSUME TypeInv, NEW ds \in Seq(NodeId), declared' = declared \o ds, NEW x \in Name,
         NEW y, y = Declare(NoNames, ds)[x]
  PROVE  DeclOf(y)' = LastOf(ds, DOMAIN ds, x)
<1> DEFINE named == {i \in DOMAIN ds : Nodes[ds[i]].name = x}
           c == CHOOSE i \in named : \A j \in named : j <= i
<1>1. y = IF named = {} THEN NoNames[x] ELSE [id |-> Len(declared) + c - 1, ty |-> Nodes[ds[c]].ty]
  BY DEF Declare
<1>2. LastOf(ds, DOMAIN ds, x) = IF named = {} THEN NoDecl ELSE ds[c]
  BY DEF LastOf
<1>3. CASE named = {}
  <2>1. y = Unknown
    BY <1>1, <1>3 DEF NoNames
  <2> QED BY <1>2, <1>3, <2>1 DEF DeclOf
<1>4. CASE named # {}
  <2>1. DOMAIN ds = 1 .. Len(ds) /\ Len(ds) \in Nat
    OBVIOUS
  <2>2. c \in named
    <3>1. named \subseteq 1 .. Len(ds)
      BY <2>1
    <3> HIDE DEF named
    <3>2. \E p \in named : \A q \in named : q <= p
      BY <1>4, <2>1, <3>1, Greatest
    <3> QED BY <3>2
  <2>3. PICK i : i = c
    OBVIOUS
  <2>4. i \in 1 .. Len(ds)
    BY <2>1, <2>2, <2>3
  <2>5. Len(declared) \in Nat /\ declared'[Len(declared) + i] = ds[i]
    <3>1. declared \in Seq(NodeId)
      BY TypeParts
    <3> QED BY <2>4, <3>1, DeclaredStay
  <2>6. y = [id |-> Len(declared) + i - 1, ty |-> Nodes[ds[i]].ty]
    BY <1>1, <1>4, <2>3
  <2>7. PICK k : k = Len(declared) + i - 1
    OBVIOUS
  <2>8. k + 1 = Len(declared) + i /\ k # -1
    BY <2>4, <2>5, <2>7
  <2>9. y.id = k /\ y # Unknown
    BY <2>6, <2>7, <2>8 DEF Unknown, NoSymbol
  <2>10. DeclOf(y)' = ds[i]
    BY <2>5, <2>8, <2>9 DEF DeclOf
  <2> QED BY <1>2, <1>4, <2>3, <2>10
<1> QED BY <1>3, <1>4

LEMMA CheckDeclScoping ==
  ASSUME TypeInv, NestInv, SymbolsInv, ScopingInv, CheckDecl PROVE ScopingInv'
<1>1. /\ calls = <<>> /\ calls' # <<>> /\ Len(calls') = 1 /\ pass = 2 /\ pass' = 2
      /\ item \in 1 .. Len(prog) /\ item' = item + 1 /\ item \in Nat
      /\ calls'[1].n = prog[item] /\ calls'[1].rs = <<>>
      /\ prog[item] \in NodeId /\ Decl = Nodes[prog[item]] /\ Decl.k \in {"VarDecl", "Func"} /\ prog' = prog
  BY Taken
<1>2. prog \in Programs
  BY DEF TypeInv, TypeOK
<1>3. PICK G : G = GlobalsAt(prog, item)
  OBVIOUS
<1>4. PICK P : P = ParamScope(Decl)
  OBVIOUS
<1>5. PICK K : K = DeclScopes(prog, item)
  OBVIOUS
<1>6. K \in Seq(Decls) /\ K # <<>> /\ ScopesOf(prog')[prog[item]] = K
  BY <1>1, <1>2, <1>5, DeclScopesType, ScopesStep
<1>7. Decl \in Node /\ Binders(Decl, 0) = {}
  BY <1>1, IsNode, NoBinders
<1>8. After(K, Decl, 0) = K
  BY <1>6, <1>7, AfterNothing
<1>9. After(ScopesOf(prog')[calls'[Len(calls')].n], Nodes[calls'[Len(calls')].n], Len(calls'[Len(calls')].rs)) = K
  BY <1>1, <1>6, <1>8
<1>10. Len(scopes) = 1 /\ \A x \in Name : DeclOf(scopes[1][x]) = G[x]
  BY <1>1, <1>3 DEF ScopingInv, SameScopes
<1>11. scopes \in Seq([Name -> Symbol])
  BY TypeParts
<1>12. CASE Decl.k = "VarDecl"
  <2>1. K = <<G>>
    BY <1>1, <1>3, <1>5, <1>12 DEF DeclScopes
  <2>2. scopes' = scopes /\ declared' = declared
    BY <1>12, Zenon DEF CheckDecl
  <2>3. ASSUME NEW s \in 1 .. Len(K), NEW x \in Name, NEW y, y = scopes'[s][x] PROVE DeclOf(y)' = K[s][x]
    <3>1. DeclOf(y)' = DeclOf(y)
      BY <2>2, DeclSame
    <3>2. s = 1
      BY <2>1, <2>3
    <3> QED BY <1>10, <2>1, <2>2, <2>3, <3>1, <3>2
  <2>4. Len(scopes') = Len(K)
    BY <1>10, <2>1, <2>2
  <2>5. \A H : H = K => SameScopes(scopes, H)'
    BY <2>3, <2>4, SameNext
  <2>6. SameScopes(scopes, After(Sc(Top.n), Here, Done))'
    BY <1>9, <2>5 DEF Sc, Top, Here, Done
  <2> QED BY <1>1, <1>6, <2>6 DEF ScopingInv, Sc
<1>13. CASE Decl.k = "Func"
  <2>1. K = <<G, P>>
    BY <1>1, <1>3, <1>4, <1>5, <1>13 DEF DeclScopes
  <2>2. PICK ds : ds = Decl.params
    OBVIOUS
  <2>3. ds \in Seq(NodeId)
    BY <1>1, <2>2, NodeType
  <2>4. scopes' = Append(scopes, Declare(NoNames, ds)) /\ declared' = declared \o ds
    BY <1>13, <2>2, Zenon DEF CheckDecl
  <2>5. PICK d : d = Declare(NoNames, ds)
    OBVIOUS
  <2>6. Len(scopes') = 2 /\ scopes'[1] = scopes[1] /\ scopes'[2] = d
    <3>1. d \in [Name -> Symbol]
      <4>1. NoNames \in [Name -> Symbol] /\ declared \in Seq(NodeId)
        BY TypeParts DEF NoNames, Symbol
      <4> QED BY <2>3, <2>5, <4>1, DeclareType
    <3>2. scopes' = Append(scopes, d)
      BY <2>4, <2>5
    <3>3. /\ Len(scopes') = Len(scopes) + 1 /\ \A s \in 1 .. Len(scopes) : scopes'[s] = scopes[s]
          /\ scopes'[Len(scopes) + 1] = d
      BY <1>11, <3>1, <3>2, AppendProperties
    <3> QED BY <1>10, <3>3
  <2>7. ASSUME NEW s \in 1 .. Len(K), NEW x \in Name, NEW y, y = scopes'[s][x] PROVE DeclOf(y)' = K[s][x]
    <3>1. CASE s = 1
      <4>1. y = scopes[1][x] /\ 1 \in 1 .. Len(scopes)
        BY <1>10, <2>6, <2>7, <3>1
      <4>2. DeclOf(y)' = DeclOf(y)
        BY <2>3, <2>4, <4>1, DeclStays
      <4> QED BY <1>10, <2>1, <3>1, <4>1, <4>2
    <3>2. CASE s = 2
      <4>1. y = Declare(NoNames, ds)[x]
        BY <2>5, <2>6, <2>7, <3>2
      <4>2. DeclOf(y)' = LastOf(ds, DOMAIN ds, x)
        BY <2>3, <2>4, <4>1, ParamsDeclared
      <4>3. P[x] = LastOf(ds, DOMAIN ds, x)
        BY <1>4, <2>2 DEF ParamScope
      <4> QED BY <2>1, <3>2, <4>2, <4>3
    <3>3. s = 1 \/ s = 2
      BY <2>1, <2>7
    <3> QED BY <3>1, <3>2, <3>3
  <2>8. Len(scopes') = Len(K)
    BY <2>1, <2>6
  <2>9. \A H : H = K => SameScopes(scopes, H)'
    BY <2>7, <2>8, SameNext
  <2>10. SameScopes(scopes, After(Sc(Top.n), Here, Done))'
    BY <1>9, <2>9 DEF Sc, Top, Here, Done
  <2> QED BY <1>1, <1>6, <2>10 DEF ScopingInv, Sc
<1> QED BY <1>1, <1>12, <1>13

LEMMA RequireMainScoping == ASSUME TypeInv, RequireMain PROVE ScopingInv'
<1>1. /\ pass' = 2 /\ item' = 1 /\ calls = <<>> /\ calls' = calls /\ prog' = prog /\ prog \in Programs
      /\ scopes = <<NoNames>> /\ scopes' = scopes
  <2>1. pass = 1
    BY DEF RequireMain
  <2> QED BY <2>1 DEF RequireMain, TypeInv, TypeOK, PhaseInv
<1>2. PICK K : K = <<NoDecls>>
  OBVIOUS
<1>3. <<GlobalsAt(prog', item')>> = K
  BY <1>1, <1>2, NoGlobals
<1>4. Len(K) = 1 /\ K[1] = NoDecls /\ Len(scopes') = 1 /\ scopes'[1] = NoNames
  BY <1>1, <1>2
<1>5. ASSUME NEW s \in 1 .. Len(K), NEW x \in Name, NEW y, y = scopes'[s][x] PROVE DeclOf(y)' = K[s][x]
  <2>1. s = 1
    BY <1>4
  <2>2. y = Unknown /\ K[s][x] = NoDecl
    BY <1>4, <1>5, <2>1 DEF NoNames, NoDecls
  <2> QED BY <2>2 DEF DeclOf
<1>6. \A H : H = K => SameScopes(scopes, H)'
  BY <1>4, <1>5, SameNext
<1>7. SameScopes(scopes, <<GlobalsAt(prog, item)>>)'
  BY <1>3, <1>6
<1> QED BY <1>1, <1>7 DEF ScopingInv

LEMMA IdleScoping ==
  ASSUME TypeInv, ScopingInv, HoistFunc \/ Conclude \/ UNCHANGED vars PROVE ScopingInv'
<1>1. CASE HoistFunc
  <2>1. calls = <<>> /\ calls' = <<>> /\ pass' = 1
    BY <1>1 DEF HoistFunc, TypeInv, PhaseInv
  <2> QED BY <2>1 DEF ScopingInv
<1>2. CASE Conclude
  <2>1. calls = <<>> /\ calls' = <<>> /\ pass' = 3
    BY <1>2 DEF Conclude
  <2> QED BY <2>1 DEF ScopingInv
<1>3. CASE UNCHANGED vars
  BY <1>3 DEF vars, ScopingInv, Sc, SameScopes, DeclOf, Top, Here, Done
<1> QED BY <1>1, <1>2, <1>3

LEMMA ScopingStep == ASSUME TypeInv, NestInv, SymbolsInv, ScopingInv, [Next]_vars PROVE ScopingInv'
BY CheckChildScoping, CheckExprScoping, DeclareLocalVarScoping, CheckStmtScoping,
   RequireMainScoping, CheckDeclScoping, IdleScoping DEF Next, Step

LEMMA InitScoping == ASSUME Init PROVE ScopingInv
BY DEF Init, ScopingInv

(***************************************************************************)
(* Return types.                                                           *)
(***************************************************************************)
LEMMA RetPop ==
  ASSUME TypeInv, RetInv, calls # <<>>, NEW r, calls' = Popped(r) PROVE RetInv'
<1>1. PICK m : m = Len(calls)
  OBVIOUS
<1>2. m \in Nat \ {0} /\ Len(calls') = m - 1 /\ \A j \in 1 .. m - 1 : calls'[j].n = calls[j].n
  BY <1>1, SameNodes
<1>3. ASSUME NEW j \in 1 .. m - 1 PROVE calls'[j].exp = calls[j].exp
  <2>1. CASE j \in 1 .. m - 2
    <3>1. calls'[j] = calls[j]
      BY <1>1, <2>1, Answered
    <3> QED BY <3>1
  <2>2. CASE j = m - 1
    <3>1. m > 1
      BY <1>2, <2>2
    <3>2. calls'[m - 1].exp = calls[m - 1].exp
      BY <1>1, <3>1, Answered
    <3> QED BY <2>2, <3>2
  <2> QED BY <1>2, <2>1, <2>2
<1>4. SUFFICES ASSUME NEW j \in 2 .. m - 1, Nodes[calls'[j].n].k \in StmtKind
               PROVE  calls'[j].exp = Nodes[calls'[1].n].ty
  BY <1>2 DEF RetInv
<1>5. j \in 1 .. m - 1 /\ 1 \in 1 .. m - 1 /\ j \in 2 .. m
  BY <1>2
<1> QED BY <1>1, <1>2, <1>3, <1>4, <1>5 DEF RetInv

\* A child that is a statement is in a function, or in another statement.
LEMMA StmtParent ==
  ASSUME TypeInv, CheckChild, Nodes[Here.kids[Done + 1]].k \in StmtKind
  PROVE  IF Len(calls) = 1 THEN Here.k = "Func" /\ Expected(Top, Done + 1) = Nodes[calls[1].n].ty
         ELSE Here.k \in StmtKind /\ Expected(Top, Done + 1) = Top.exp
<1>1. /\ calls # <<>> /\ Top.n \in NodeId /\ Here = Nodes[Top.n] /\ Done + 1 \in 1 .. Len(Here.kids)
  BY Pushed
<1>2. Here.k \notin ExprKind \cup {"Expr", "VarDecl", "Return"}
  <2>1. Nodes[Here.kids[Done + 1]].k \notin ExprKind
    BY KindsApart
  <2> QED BY <1>1, <2>1, KidKinds
<1>3. CASE Len(calls) = 1
  <2>1. Top = calls[1] /\ Here.k = "Func"
    BY <1>1, <1>2, <1>3, OuterActivation, Zenon DEF Top
  <2> QED BY <1>1, <1>3, <2>1 DEF Expected
<1>4. CASE Len(calls) # 1
  <2>1. Here.k \in ExprKind \cup StmtKind
    BY <1>1, <1>4, Caller, KidKinds
  <2>2. Here.k \notin {"Assign", "Call", "ArrayLiteral", "VarDecl", "Return", "Func"}
    BY <1>2, <2>1 DEF ExprKind, StmtKind
  <2>3. Expected(Top, Done + 1) = Top.exp
    BY <1>1, <2>2 DEF Expected
  <2> QED BY <1>2, <1>4, <2>1, <2>3
<1> QED BY <1>3, <1>4

LEMMA CheckChildRet == ASSUME TypeInv, RetInv, CheckChild PROVE RetInv'
<1>1. PICK m : m = Len(calls)
  OBVIOUS
<1>2. /\ calls # <<>> /\ m \in Nat \ {0} /\ Len(calls') = m + 1 /\ \A j \in 1 .. m : calls'[j] = calls[j]
      /\ calls'[m + 1].n = Here.kids[Done + 1] /\ calls'[m + 1].exp = Expected(Top, Done + 1)
      /\ Here = Nodes[Top.n]
  BY <1>1, Pushed
<1>3. SUFFICES ASSUME NEW j \in 2 .. m + 1, Nodes[calls'[j].n].k \in StmtKind
               PROVE  calls'[j].exp = Nodes[calls'[1].n].ty
  BY <1>2 DEF RetInv
<1>4. calls'[1] = calls[1]
  BY <1>2
<1>5. CASE j \in 2 .. m
  <2>1. j \in 1 .. m
    BY <1>2, <1>5
  <2> QED BY <1>1, <1>2, <1>3, <1>4, <1>5, <2>1 DEF RetInv
<1>6. CASE j = m + 1
  <2>1. IF m = 1 THEN Expected(Top, Done + 1) = Nodes[calls[1].n].ty
        ELSE Here.k \in StmtKind /\ Expected(Top, Done + 1) = Top.exp
    BY <1>1, <1>2, <1>3, <1>6, StmtParent
  <2>2. CASE m # 1
    <3>1. m \in 2 .. m /\ Top = calls[m]
      BY <1>1, <1>2, <2>2 DEF Top
    <3>2. Top.exp = Nodes[calls[1].n].ty
      BY <1>1, <1>2, <2>1, <2>2, <3>1 DEF RetInv
    <3> QED BY <1>2, <1>4, <1>6, <2>1, <2>2, <3>2
  <2> QED BY <1>2, <1>4, <1>6, <2>1, <2>2
<1> QED BY <1>2, <1>5, <1>6

LEMMA RetStep == ASSUME TypeInv, RetInv, [Next]_vars PROVE RetInv'
<1>1. CASE CheckChild
  BY <1>1, CheckChildRet
<1>2. CASE CheckExpr \/ DeclareLocalVar \/ CheckStmt
  <2>1. calls # <<>> /\ \E r : calls' = Popped(r)
    BY <1>2 DEF CheckExpr, DeclareLocalVar, CheckStmt, Walking
  <2> QED BY <2>1, RetPop
<1>3. CASE CheckDecl
  <2>1. Len(calls') = 1
    BY <1>3, Taken
  <2> QED BY <2>1 DEF RetInv
<1>4. CASE HoistFunc \/ RequireMain \/ Conclude \/ UNCHANGED vars
  <2>1. calls' = calls
    BY <1>4 DEF HoistFunc, RequireMain, Conclude, vars
  <2> QED BY <2>1 DEF RetInv
<1> QED BY <1>1, <1>2, <1>3, <1>4 DEF Next, Step

LEMMA InitRet == ASSUME Init PROVE RetInv
BY DEF Init, RetInv

(***************************************************************************)
(* Errors, functions and globals.                                          *)
(***************************************************************************)
\* What a declaration reports, and that errors stay.
LEMMA HoistReport ==
  ASSUME TypeInv, HoistFunc, errors' = <<>>
  PROVE  errors = <<>> /\ (Decl.k = "Func" => functions[Decl.name] = NoSig)
<1> DEFINE new == Decl.k = "Func" /\ functions[Decl.name] = NoSig
           c == Decl.k = "Func" /\ ~new
<1>1. Log(prog[item], Said(c, "DuplicateDeclaration")) /\ item <= Len(prog)
  BY DEF HoistFunc
<1>2. prog[item] \in NodeId \cup {0} /\ errors \in Errors
  BY <1>1, TypeParts DEF Errors
<1>3. "DuplicateDeclaration" \in ErrorKind
  BY DEF ErrorKind
<1> HIDE DEF c
<1>4. errors = <<>> /\ Said(c, "DuplicateDeclaration") = <<>>
  BY <1>1, <1>2, <1>3, SaidType, LogType
<1>5. ~c
  BY <1>4, SaidNothing
<1> QED BY <1>4, <1>5 DEF c

LEMMA MainReport ==
  ASSUME TypeInv, RequireMain, errors' = <<>>
  PROVE  errors = <<>> /\ "main" \in Name /\ functions["main"] = [params |-> <<>>, ret |-> TVoid]
<1> DEFINE c == "main" \notin Name \/ functions["main"] # [params |-> <<>>, ret |-> TVoid]
<1>1. Log(0, Said(c, "MissingMain"))
  BY DEF RequireMain
<1>2. errors \in Errors /\ 0 \in NodeId \cup {0} /\ "MissingMain" \in ErrorKind
  BY TypeParts DEF Errors, ErrorKind
<1> HIDE DEF c
<1>3. errors = <<>> /\ Said(c, "MissingMain") = <<>>
  <2>1. PICK ks \in Seq(ErrorKind) : ks = Said(c, "MissingMain")
    BY <1>2, SaidType
  <2>2. PICK z \in NodeId \cup {0} : z = 0
    OBVIOUS
  <2>3. Log(z, ks)
    BY <1>1, <2>1, <2>2
  <2> QED BY <1>2, <2>1, <2>3, LogType
<1>4. ~c
  BY <1>3, SaidNothing
<1> QED BY <1>3, <1>4 DEF c

LEMMA ErrorsStay ==
  ASSUME TypeInv, [Next]_vars, errors' = <<>> PROVE errors = <<>>
<1>1. CASE CheckChild \/ CheckExpr \/ DeclareLocalVar \/ CheckStmt
  <2>1. calls # <<>> /\ Log(Top.n, Report(Top))
    BY <1>1 DEF CheckChild, CheckExpr, DeclareLocalVar, CheckStmt, Walking
  <2> QED BY <2>1, TopLogs
<1>2. CASE HoistFunc
  BY <1>2, HoistReport
<1>3. CASE RequireMain
  BY <1>3, MainReport
<1>4. CASE CheckDecl \/ Conclude \/ UNCHANGED vars
  BY <1>4 DEF CheckDecl, Conclude, vars
<1> QED BY <1>1, <1>2, <1>3, <1>4 DEF Next, Step

LEMMA HoistFuncHoists == ASSUME TypeInv, HoistInv, HoistFunc, errors' = <<>> PROVE HoistInv'
<1>1. /\ errors = <<>> /\ (Decl.k = "Func" => functions[Decl.name] = NoSig)
  BY HoistReport
<1>2. pass = 1 /\ pass' = 1 /\ item <= Len(prog) /\ item' = item + 1 /\ prog' = prog
  BY DEF HoistFunc
<1>3. item \in 1 .. Len(prog) /\ item \in Nat /\ prog[item] \in NodeId /\ Decl = Nodes[prog[item]]
      /\ functions \in [Name -> [params: Seq(Type), ret: Type \cup {None}]] /\ Decl.name \in Name
  <2>1. item \in 1 .. Len(prog) /\ item \in Nat /\ prog[item] \in NodeId /\ Decl = Nodes[prog[item]]
        /\ functions \in [Name -> [params: Seq(Type), ret: Type \cup {None}]]
    BY <1>2, TypeParts DEF Decl
  <2> QED BY <2>1, NodeType
<1>4. Hoisted = item - 1 /\ Hoisted' = item
  BY <1>2, <1>3 DEF Hoisted
<1>5. PICK m : m = item
  OBVIOUS
<1>6. m \in Nat \ {0} /\ Hoisted = m - 1 /\ Hoisted' = m
  BY <1>3, <1>4, <1>5
<1>7. /\ \A i \in 1 .. m - 1 : IsFunc(i) =>
           /\ Nodes[prog[i]].name \notin DOMAIN BuiltinParams
           /\ functions[Nodes[prog[i]].name] = Signature(Nodes[prog[i]])
           /\ \A j \in 1 .. m - 1 : IsFunc(j) /\ Nodes[prog[i]].name = Nodes[prog[j]].name => i = j
      /\ \A x \in Name : x \in DOMAIN BuiltinParams =>
           functions[x] = [params |-> BuiltinParams[x], ret |-> BuiltinRet(x)]
      /\ \A x \in Name : functions[x] # NoSig /\ x \notin DOMAIN BuiltinParams =>
           \E i \in 1 .. m - 1 : IsFunc(i) /\ Nodes[prog[i]].name = x
  BY <1>1, <1>6 DEF HoistInv
<1>8. \A i : IsFunc(i)' <=> IsFunc(i)
  BY <1>2 DEF IsFunc
<1>9. \A i \in 1 .. m : i \in 1 .. m - 1 \/ i = m
  BY <1>6
<1>10. IsFunc(m) <=> Decl.k = "Func"
  BY <1>3, <1>5 DEF IsFunc
<1>11. CASE Decl.k # "Func"
  <2>1. functions' = functions
    BY <1>11 DEF HoistFunc
  <2>2. \A i \in 1 .. m : IsFunc(i) => i \in 1 .. m - 1
    BY <1>9, <1>10, <1>11
  <2>3. \A i \in 1 .. m - 1 : i \in 1 .. m
    BY <1>6
  <2> QED BY <1>2, <1>6, <1>7, <1>8, <2>1, <2>2, <2>3 DEF HoistInv
<1>12. CASE Decl.k = "Func"
  <2>1. functions' = [functions EXCEPT ![Decl.name] = Signature(Decl)]
    BY <1>1, <1>12 DEF HoistFunc
  <2>2. Signature(Decl) # NoSig
    <3>1. Signature(Decl).ret \in Type
      BY <1>3, SignatureType
    <3> QED BY <3>1, BaseTypes DEF NoSig
  <2>3. \A x \in Name : functions'[x] = IF x = Decl.name THEN Signature(Decl) ELSE functions[x]
    BY <1>3, <2>1
  <2>4. Decl.name \notin DOMAIN BuiltinParams
    <3>1. ASSUME Decl.name \in DOMAIN BuiltinParams PROVE FALSE
      <4>1. functions[Decl.name].ret = BuiltinRet(Decl.name)
        BY <1>3, <1>7, <3>1
      <4>2. BuiltinRet(Decl.name) # None
        BY BaseTypes DEF BuiltinRet
      <4> QED BY <1>1, <1>12, <4>1, <4>2 DEF NoSig
    <3> QED BY <3>1
  <2>5. ASSUME NEW i \in 1 .. m - 1, IsFunc(i) PROVE Nodes[prog[i]].name # Decl.name
    <3>1. functions[Nodes[prog[i]].name] = Signature(Nodes[prog[i]])
      BY <1>7, <2>5
    <3>2. i \in 1 .. Len(prog)
      BY <1>3, <1>5, <2>5
    <3>3. prog[i] \in NodeId
      BY <3>2, TypeParts
    <3>4. Signature(Nodes[prog[i]]).ret \in Type
      BY <3>3, SignatureType
    <3>5. Signature(Nodes[prog[i]]) # NoSig
      BY <3>4, BaseTypes DEF NoSig
    <3> QED BY <1>1, <1>12, <3>1, <3>5
  <2>6. ASSUME NEW i \in 1 .. m, IsFunc(i)
        PROVE  /\ Nodes[prog[i]].name \notin DOMAIN BuiltinParams
               /\ functions'[Nodes[prog[i]].name] = Signature(Nodes[prog[i]])
               /\ \A j \in 1 .. m : IsFunc(j) /\ Nodes[prog[i]].name = Nodes[prog[j]].name => i = j
    <3>1. CASE i = m
      <4>1. Nodes[prog[i]] = Decl
        BY <1>3, <1>5, <3>1
      <4> QED BY <1>3, <1>9, <2>3, <2>4, <2>5, <3>1, <4>1
    <3>2. CASE i \in 1 .. m - 1
      <4>1. Nodes[prog[i]].name # Decl.name
        BY <2>5, <2>6, <3>2
      <4>2. i \in 1 .. Len(prog)
        BY <1>3, <1>5, <3>2
      <4>3. Nodes[prog[i]].name \in Name
        BY <4>2, TypeParts, NodeType
      <4>4. functions'[Nodes[prog[i]].name] = functions[Nodes[prog[i]].name]
        BY <2>3, <4>1, <4>3
      <4>5. Nodes[prog[m]].name = Decl.name
        BY <1>3, <1>5
      <4> QED BY <1>7, <1>9, <2>6, <3>2, <4>1, <4>4, <4>5
    <3> QED BY <1>9, <3>1, <3>2
  <2>7. ASSUME NEW x \in Name, x \in DOMAIN BuiltinParams
        PROVE  functions'[x] = [params |-> BuiltinParams[x], ret |-> BuiltinRet(x)]
    <3>1. x # Decl.name
      BY <2>4, <2>7
    <3>2. functions'[x] = functions[x]
      BY <2>3, <3>1
    <3> QED BY <1>7, <2>7, <3>2
  <2>8. ASSUME NEW x \in Name, functions'[x] # NoSig, x \notin DOMAIN BuiltinParams
        PROVE  \E i \in 1 .. m : IsFunc(i) /\ Nodes[prog[i]].name = x
    <3>1. CASE x = Decl.name
      <4>1. m \in 1 .. m /\ IsFunc(m) /\ Nodes[prog[m]].name = x
        BY <1>3, <1>5, <1>6, <1>10, <1>12, <3>1
      <4> QED BY <4>1
    <3>2. CASE x # Decl.name
      <4>1. PICK i \in 1 .. m - 1 : IsFunc(i) /\ Nodes[prog[i]].name = x
        BY <1>7, <2>3, <2>8, <3>2
      <4>2. i \in 1 .. m
        BY <1>6
      <4> QED BY <4>1, <4>2
    <3> QED BY <3>1, <3>2
  <2> QED BY <1>2, <1>6, <1>8, <2>6, <2>7, <2>8 DEF HoistInv
<1> QED BY <1>11, <1>12

LEMMA RequireMainHoists == ASSUME TypeInv, HoistInv, RequireMain, errors' = <<>> PROVE HoistInv'
<1>1. errors = <<>> /\ "main" \in Name /\ functions["main"] = [params |-> <<>>, ret |-> TVoid]
  BY MainReport
<1>2. pass = 1 /\ pass' = 2 /\ item > Len(prog) /\ prog' = prog /\ functions' = functions
  BY DEF RequireMain
<1>3. item - 1 = Len(prog)
  BY <1>2, TypeParts
<1>4. Hoisted = Len(prog) /\ Hoisted' = Hoisted
  BY <1>2, <1>3 DEF Hoisted
<1>5. \A i : IsFunc(i)' <=> IsFunc(i)
  BY <1>2 DEF IsFunc
<1> QED BY <1>1, <1>2, <1>4, <1>5 DEF HoistInv

LEMMA HoistStep == ASSUME TypeInv, HoistInv, [Next]_vars PROVE HoistInv'
<1> SUFFICES ASSUME errors' = <<>> PROVE HoistInv'
  BY DEF HoistInv
<1>1. errors = <<>>
  BY ErrorsStay
<1>2. CASE HoistFunc
  BY <1>2, HoistFuncHoists
<1>3. CASE RequireMain
  BY <1>3, RequireMainHoists
<1>4. CASE CheckChild \/ CheckExpr \/ DeclareLocalVar \/ CheckStmt \/ CheckDecl \/ Conclude
  <2>1. prog' = prog /\ functions' = functions
    BY <1>4 DEF CheckChild, CheckExpr, DeclareLocalVar, CheckStmt, CheckDecl, Conclude
  <2>2. pass = 2 /\ pass' # 1
    BY <1>4 DEF CheckChild, CheckExpr, DeclareLocalVar, CheckStmt, CheckDecl, Conclude, Walking
  <2>3. Hoisted = Len(prog) /\ Hoisted' = Hoisted
    BY <2>1, <2>2 DEF Hoisted
  <2>4. \A i : IsFunc(i)' <=> IsFunc(i)
    BY <2>1 DEF IsFunc
  <2> QED BY <1>1, <2>1, <2>2, <2>3, <2>4 DEF HoistInv
<1>5. CASE UNCHANGED vars
  BY <1>5 DEF vars, HoistInv, Hoisted, IsFunc
<1> QED BY <1>2, <1>3, <1>4, <1>5 DEF Next, Step

LEMMA InitHoist == ASSUME Init PROVE HoistInv
<1>1. functions = BuiltinFuncs /\ item = 1 /\ pass = 1
  BY DEF Init
<1>2. 1 .. Hoisted = {}
  BY <1>1 DEF Hoisted
<1>3. ASSUME NEW x \in Name, x \in DOMAIN BuiltinParams
      PROVE  functions[x] = [params |-> BuiltinParams[x], ret |-> BuiltinRet(x)]
  BY <1>1, <1>3 DEF BuiltinFuncs, BuiltinParams, BuiltinRet
<1>4. ASSUME NEW x \in Name, x \notin DOMAIN BuiltinParams PROVE functions[x] = NoSig
  BY <1>1, <1>4 DEF BuiltinFuncs, BuiltinParams
<1> QED BY <1>1, <1>2, <1>3, <1>4 DEF HoistInv

\* What has not been reported by an activation that has reported nothing.
LEMMA StmtReported ==
  ASSUME NEW f, Report(f) = <<>>
  PROVE  /\ \A c : c = Condition(Nodes[f.n]) => ~(c > 0 /\ Len(f.rs) = c /\ f.rs[c] \notin {None, TBool})
         /\ Nodes[f.n].k \notin ExprKind => ReportStmt(f, Nodes[f.n]) = <<>>
<1> DEFINE nd == Nodes[f.n]
           cond == Condition(nd)
           c == cond > 0 /\ Len(f.rs) = cond /\ f.rs[cond] \notin {None, TBool}
           a == IF nd.k \in ExprKind THEN ReportExpr(f, nd) ELSE ReportStmt(f, nd)
<1>1. PICK b : Report(f) = Said(c, "NonBoolCondition") \o a \o Said(b, "TypeMismatch")
  BY Zenon DEF Report
<1>2. ReportStmt(f, nd) \in Seq(ErrorKind)
  <2>1. \/ ReportStmt(f, nd) = <<>>
        \/ \E d : ReportStmt(f, nd) = Said(d, "DuplicateDeclaration")
        \/ \E d : ReportStmt(f, nd) = Said(d, "TypeMismatch")
        \/ \E d : ReportStmt(f, nd) = Said(d, "MissingReturn")
    BY Zenon DEF ReportStmt
  <2>2. <<>> \in Seq(ErrorKind)
    OBVIOUS
  <2>3. CASE \E d : ReportStmt(f, nd) = Said(d, "DuplicateDeclaration")
    BY <2>3, SaidTypes, Zenon
  <2>4. CASE \E d : ReportStmt(f, nd) = Said(d, "TypeMismatch")
    BY <2>4, SaidTypes, Zenon
  <2>5. CASE \E d : ReportStmt(f, nd) = Said(d, "MissingReturn")
    BY <2>5, SaidTypes, Zenon
  <2> QED BY <2>1, <2>2, <2>3, <2>4, <2>5, Zenon
<1>3. /\ a \in Seq(ErrorKind) /\ Said(c, "NonBoolCondition") \in Seq(ErrorKind)
      /\ Said(b, "TypeMismatch") \in Seq(ErrorKind)
  BY <1>2, ReportExprType, SaidTypes
<1> HIDE DEF a, c
<1>4. a = <<>> /\ Said(c, "NonBoolCondition") = <<>>
  <2> DEFINE u == Said(c, "NonBoolCondition")  v == Said(b, "TypeMismatch")
  <2>1. u \in Seq(ErrorKind) /\ v \in Seq(ErrorKind) /\ (u \o a) \o v = <<>>
    BY <1>1, <1>3
  <2> HIDE DEF u, v
  <2>2. u \o a \in Seq(ErrorKind)
    BY <1>3, <2>1
  <2>3. u \o a = <<>>
    BY <2>1, <2>2, NothingJoined
  <2>4. a = <<>> /\ u = <<>>
    BY <1>3, <2>1, <2>3, NothingJoined
  <2> QED BY <2>4 DEF u
<1>5. ~c
  BY <1>4 DEF Said
<1> QED BY <1>4, <1>5 DEF a, c

\* A declaration that is begun without an error is the first of its name.
LEMMA TopIsNew ==
  ASSUME TypeInv, ScopeInv, calls # <<>>, Len(calls) = 1, Top.rs = <<>>, Report(Top) = <<>>
  PROVE  NewVar(item - 1)
<1>1. /\ item - 1 \in 1 .. Len(prog) /\ calls[1].n = prog[item - 1] /\ pass = 2
      /\ calls[1].owned = IF Nodes[calls[1].n].k = "Func" THEN 1 ELSE 0
  BY OuterActivation, TopType
<1>2. Top = calls[1] /\ Here = Nodes[prog[item - 1]]
  BY <1>1, TopType DEF Top
<1>3. CASE Here.k # "VarDecl"
  BY <1>2, <1>3 DEF NewVar, IsVar
<1>4. CASE Here.k = "VarDecl"
  <2>1. ReportStmt(Top, Here) = <<>>
    BY <1>1, <1>2, <1>4, StmtReported, KindsApart
  <2>2. Said(Top.rs = <<>> /\ Scope[Here.name] # Unknown, "DuplicateDeclaration") = <<>>
    BY <1>4, <2>1 DEF ReportStmt
  <2>3. Scope[Here.name] = Unknown
    BY <2>2, SaidNothing
  <2>4. Scope = scopes[1]
    <3>1. Len(scopes) = 1
      <4>1. Top.owned = 0
        BY <1>1, <1>2, <1>4
      <4> QED BY <4>1, FuncScopes
    <3> QED BY <3>1 DEF Scope
  <2>5. Here.name \in Name
    BY <1>1, <1>2, TypeParts, NodeType
  <2>6. Here.name \notin {Nodes[prog[i]].name : i \in {j \in 1 .. Walked : Nodes[prog[j]].k = "VarDecl"}}
    BY <1>1, <2>3, <2>4, <2>5 DEF ScopeInv, GlobalsInv
  <2>7. Walked = item - 2
    BY DEF Walked
  <2>8. SUFFICES ASSUME NEW j \in 1 .. (item - 1) - 1, IsVar(j) PROVE Nodes[prog[item - 1]].name # Nodes[prog[j]].name
    BY DEF NewVar
  <2>9. j \in 1 .. Walked
    BY <1>1, <2>7, <2>8, TypeParts
  <2> QED BY <1>2, <2>6, <2>8, <2>9 DEF IsVar
<1> QED BY <1>3, <1>4

LEMMA StillNew ==
  ASSUME TypeInv, ScopeInv, VarsInv, errors = <<>>, calls # <<>>, Report(Top) = <<>> PROVE NewVar(item - 1)
<1>1. CASE Begun(1)
  BY <1>1 DEF VarsInv
<1>2. CASE ~Begun(1)
  <2>1. ~(1 < Len(calls)) /\ calls[1].rs = <<>>
    BY <1>2 DEF Begun
  <2>2. Len(calls) = 1
    BY <2>1, Places
  <2> QED BY <2>1, <2>2, TopIsNew DEF Top
<1> QED BY <1>1, <1>2

\* What a new declaration is does not change.
LEMMA NewStays == ASSUME prog' = prog PROVE \A i : \A k : k = i => (NewVar(k)' <=> NewVar(i))
BY DEF NewVar, IsVar

LEMMA VarsStep == ASSUME TypeInv, ScopeInv, VarsInv, [Next]_vars PROVE VarsInv'
<1> SUFFICES ASSUME errors' = <<>> PROVE VarsInv'
  BY DEF VarsInv
<1>1. errors = <<>> /\ prog' = prog /\ item \in 1 .. Len(prog) + 1 /\ Len(prog) \in Nat
  BY ErrorsStay, TypeParts DEF Next, Step, CheckChild, CheckExpr, DeclareLocalVar, CheckStmt, HoistFunc,
     RequireMain, CheckDecl, Conclude, vars
<1>2. CASE CheckChild
  <2>1. /\ calls # <<>> /\ calls' # <<>> /\ pass = 2 /\ pass' = 2 /\ item' = item /\ Report(Top) = <<>>
    BY <1>2, Pushed
  <2>2. NewVar(item - 1)
    BY <1>1, <2>1, StillNew
  <2>3. Walked' = Walked
    BY <2>1 DEF Walked
  <2>4. \A i \in 1 .. Walked : NewVar(i)
    BY <1>1, <2>1 DEF VarsInv
  <2> QED BY <1>1, <2>1, <2>2, <2>3, <2>4, NewStays DEF VarsInv
<1>3. CASE CheckExpr \/ DeclareLocalVar \/ CheckStmt
  <2>1. /\ calls # <<>> /\ pass = 2 /\ pass' = 2 /\ item' = item /\ Log(Top.n, Report(Top))
    BY <1>3 DEF CheckExpr, DeclareLocalVar, CheckStmt, Walking
  <2>2. PICK r : calls' = Popped(r)
    BY <1>3 DEF CheckExpr, DeclareLocalVar, CheckStmt
  <2>3. Report(Top) = <<>>
    BY <2>1, TopLogs
  <2>4. NewVar(item - 1)
    BY <1>1, <2>1, <2>3, StillNew
  <2>5. item \in Nat \ {0, 1} /\ (Len(calls) = 1 => Walked' = item - 1) /\ (Len(calls) # 1 => Walked' = Walked)
    BY <2>1, <2>2, PopStatements DEF ScopeInv
  <2>6. Walked = item - 2
    BY <2>1 DEF Walked
  <2>7. \A i \in 1 .. Walked : NewVar(i)
    BY <1>1, <2>1 DEF VarsInv
  <2>8. \A i \in 1 .. Walked' : NewVar(i)
    <3>1. \A i \in 1 .. item - 1 : i \in 1 .. item - 2 \/ i = item - 1
      BY <2>5
    <3> QED BY <2>4, <2>5, <2>6, <2>7, <3>1
  <2> QED BY <1>1, <2>1, <2>4, <2>8, NewStays DEF VarsInv
<1>4. CASE CheckDecl
  <2>1. /\ calls = <<>> /\ calls' # <<>> /\ Len(calls') = 1 /\ pass = 2 /\ pass' = 2 /\ item' = item + 1
        /\ calls'[1].rs = <<>>
    BY <1>4, Taken
  <2>2. Walked = item - 1 /\ Walked' = item - 1
    BY <1>1, <2>1 DEF Walked
  <2>3. ~(calls' # <<>> /\ Begun(1)')
    BY <2>1 DEF Begun
  <2>4. \A i \in 1 .. Walked : NewVar(i)
    BY <1>1, <2>1 DEF VarsInv
  <2> QED BY <1>1, <2>1, <2>2, <2>3, <2>4, NewStays DEF VarsInv
<1>5. CASE HoistFunc
  <2>1. calls' = <<>> /\ pass' = 1
    BY <1>5 DEF HoistFunc, TypeInv, PhaseInv
  <2> QED BY <2>1 DEF VarsInv
<1>6. CASE RequireMain
  <2>1. calls' = <<>> /\ pass' = 2 /\ item' = 1
    BY <1>6 DEF RequireMain, TypeInv, PhaseInv
  <2>2. Walked' = 0
    BY <2>1 DEF Walked
  <2> QED BY <2>1, <2>2 DEF VarsInv
<1>7. CASE Conclude
  <2>1. calls = <<>> /\ calls' = <<>> /\ pass = 2 /\ pass' = 3 /\ item > Len(prog)
    BY <1>7 DEF Conclude
  <2>2. Walked = Len(prog)
    BY <1>1, <2>1 DEF Walked
  <2>3. \A i \in 1 .. Len(prog) : NewVar(i)
    BY <1>1, <2>1, <2>2 DEF VarsInv
  <2> QED BY <1>1, <2>1, <2>3, NewStays DEF VarsInv
<1>8. CASE UNCHANGED vars
  BY <1>8 DEF vars, VarsInv, Walked, Begun, NewVar, IsVar
<1> QED BY <1>2, <1>3, <1>4, <1>5, <1>6, <1>7, <1>8 DEF Next, Step

LEMMA InitVars == ASSUME Init PROVE VarsInv
BY DEF Init, VarsInv

(***************************************************************************)
(* Conditions.                                                             *)
(***************************************************************************)
\* The condition of a statement, or of a conditional expression, is an expression.
LEMMA ConditionKid ==
  ASSUME NEW n \in NodeId, NEW c, c = Condition(Nodes[n])
  PROVE  /\ c \in {0, 1, 2}
         /\ c > 0 => c \in 1 .. Len(Nodes[n].kids) /\ Nodes[Nodes[n].kids[c]].k \in ExprKind
<1>1. PICK nd : nd = Nodes[n]
  OBVIOUS
<1>2. Shape(nd) /\ nd.kids \in Seq(NodeId)
  BY <1>1, NodeType
<1>3. CASE nd.k \in {"If", "While"}
  <2>1. Len(nd.kids) \in {2, 3} /\ Nodes[nd.kids[1]].k \in ExprKind /\ c = 1
    BY <1>1, <1>2, <1>3 DEF Shape, Condition
  <2> QED BY <1>1, <2>1
<1>4. CASE nd.k = "Ternary"
  <2>1. Len(nd.kids) = 3 /\ AllIn(nd.kids, ExprKind) /\ c = 1
    BY <1>1, <1>2, <1>4 DEF Shape, Condition
  <2> QED BY <1>1, <1>2, <2>1 DEF AllIn
<1>5. CASE nd.k = "For"
  <2>1. Len(nd.kids) = 4 /\ Nodes[nd.kids[2]].k \in ExprKind /\ c = 2
    BY <1>1, <1>2, <1>5 DEF Shape, Condition
  <2> QED BY <1>1, <2>1
<1>6. CASE nd.k \notin {"If", "While", "Ternary", "For"}
  <2>1. c = 0
    BY <1>1, <1>6 DEF Condition
  <2> QED BY <2>1
<1> QED BY <1>3, <1>4, <1>5, <1>6

\* A condition that an activation has gone past without an error is a bool.
LEMMA ConditionPassed ==
  ASSUME TypeInv, SilenceInv, PassedInv, errors = <<>>, calls # <<>>, Report(Top) = <<>>,
         NEW c, c = Condition(Here), c > 0, c <= Done
  PROVE  Top.rs[c] = TBool
<1>1. /\ Done = Len(Top.rs) /\ Done \in Nat /\ Here = Nodes[Top.n] /\ Top.n \in NodeId
  BY TopType
<1>2. c \in Nat /\ c \in 1 .. Len(Here.kids) /\ Nodes[Here.kids[c]].k \in ExprKind
  BY <1>1, ConditionKid
<1>3. PICK m : m = Len(calls)
  OBVIOUS
<1>4. m \in 1 .. Len(calls) /\ Top = calls[m] /\ DOMAIN calls = 1 .. Len(calls)
  <2>1. calls \in Seq(Frames)
    BY TypeParts
  <2> QED BY <1>3, <2>1, Places DEF Top
<1>5. CASE c < Done
  BY <1>1, <1>3, <1>4, <1>5 DEF PassedInv
<1>6. CASE c = Done
  <2>1. Top.rs[c] \in {None, TBool}
    BY <1>1, <1>6, StmtReported
  <2>2. Top.rs[c] # None
    <3>1. DOMAIN Top.rs = 1 .. Len(Top.rs)
      BY TopType, ActivationType
    <3>2. c \in DOMAIN Top.rs
      BY <1>1, <1>2, <1>6, <3>1
    <3> QED BY <1>1, <1>2, <1>4, <3>2 DEF SilenceInv, NothingIsSilent
  <2> QED BY <2>1, <2>2
<1> QED BY <1>1, <1>2, <1>5, <1>6

LEMMA PassedPop ==
  ASSUME TypeInv, PassedInv, errors = <<>>, calls # <<>>, NEW r, calls' = Popped(r) PROVE PassedInv'
<1>1. PICK m : m = Len(calls)
  OBVIOUS
<1>2. m \in Nat \ {0} /\ Len(calls') = m - 1 /\ \A j \in 1 .. m - 2 : calls'[j] = calls[j]
  BY <1>1, Answered
<1>3. SUFFICES ASSUME NEW j \in 1 .. m - 1, NEW c, c = Condition(Nodes[calls'[j].n]), c > 0,
                      c < Len(calls'[j].rs) \/ (c = Len(calls'[j].rs) /\ j < m - 1)
               PROVE  calls'[j].rs[c] = TBool
  BY <1>2 DEF PassedInv
<1>4. CASE j \in 1 .. m - 2
  <2>1. calls'[j] = calls[j] /\ j \in 1 .. m /\ j < m
    BY <1>2, <1>4
  <2> QED BY <1>1, <1>3, <2>1 DEF PassedInv
<1>5. CASE j = m - 1
  <2>1. m # 1 /\ m > 1
    BY <1>2, <1>5
  <2>2. PICK f : f = calls[m - 1]
    OBVIOUS
  <2>3. calls'[j].n = f.n /\ calls'[j].rs = Append(f.rs, r)
    BY <1>1, <1>5, <2>1, <2>2, Answered
  <2>4. f.rs \in Seq(Result) /\ f.n \in NodeId
    BY <1>1, <2>1, <2>2, Caller
  <2>5. Len(Append(f.rs, r)) = Len(f.rs) + 1 /\ Len(f.rs) \in Nat
        /\ \A i \in 1 .. Len(f.rs) : Append(f.rs, r)[i] = f.rs[i]
    BY <2>4
  <2>6. c \in Nat
    BY <1>3, <2>3, <2>4, ConditionKid
  <2>7. c \in 1 .. Len(f.rs)
    BY <1>3, <1>5, <2>3, <2>5, <2>6
  <2>8. c < Len(f.rs) \/ (c = Len(f.rs) /\ m - 1 < m)
    BY <1>2, <2>6, <2>7
  <2>9. m - 1 \in 1 .. m
    BY <1>2, <2>1
  <2>10. f.rs[c] = TBool
    BY <1>1, <1>3, <2>2, <2>3, <2>8, <2>9 DEF PassedInv
  <2> QED BY <2>3, <2>5, <2>7, <2>10
<1> QED BY <1>2, <1>4, <1>5

LEMMA PassedStep == ASSUME TypeInv, SilenceInv, PassedInv, [Next]_vars PROVE PassedInv'
<1> SUFFICES ASSUME errors' = <<>> PROVE PassedInv'
  BY DEF PassedInv
<1>1. errors = <<>>
  BY ErrorsStay
<1>2. CASE CheckChild
  <2>1. PICK m : m = Len(calls)
    OBVIOUS
  <2>2. /\ calls # <<>> /\ m \in Nat \ {0} /\ Len(calls') = m + 1 /\ \A j \in 1 .. m : calls'[j] = calls[j]
        /\ Report(Top) = <<>> /\ calls'[m + 1].rs = <<>> /\ Top = calls[m] /\ Here = Nodes[Top.n]
        /\ Done = Len(Top.rs) /\ Done \in Nat /\ Top.n \in NodeId
    BY <1>2, <2>1, Pushed DEF Top
  <2>3. SUFFICES ASSUME NEW j \in 1 .. m + 1, NEW c, c = Condition(Nodes[calls'[j].n]), c > 0,
                        c < Len(calls'[j].rs) \/ (c = Len(calls'[j].rs) /\ j < m + 1)
                 PROVE  calls'[j].rs[c] = TBool
    BY <2>2 DEF PassedInv
  <2>4. CASE j \in 1 .. m - 1
    <3>1. calls'[j] = calls[j] /\ j \in 1 .. m /\ j < m
      BY <2>2, <2>4
    <3> QED BY <1>1, <2>1, <2>3, <3>1 DEF PassedInv
  <2>5. CASE j = m
    <3>1. calls'[j] = Top
      BY <2>2, <2>5
    <3>2. c = Condition(Here) /\ c \in Nat
      BY <2>2, <2>3, <3>1, ConditionKid
    <3>3. c <= Done
      BY <2>2, <2>3, <3>1, <3>2
    <3> QED BY <1>1, <2>2, <2>3, <3>1, <3>2, <3>3, ConditionPassed
  <2>6. CASE j = m + 1
    <3>1. calls'[j].rs = <<>> /\ ~(j < m + 1)
      BY <2>2, <2>6
    <3>2. c < 0
      BY <2>3, <3>1
    <3>3. \E n \in NodeId : n = calls'[j].n
      <4>1. calls'[m + 1].n = Here.kids[Done + 1] /\ Here.kids[Done + 1] \in NodeId
        BY <1>2, <2>1, Pushed
      <4> QED BY <2>6, <4>1
    <3>4. c \in Nat
      BY <2>3, <3>3, ConditionKid
    <3> QED BY <3>2, <3>4
  <2> QED BY <2>2, <2>4, <2>5, <2>6
<1>3. CASE CheckExpr \/ DeclareLocalVar \/ CheckStmt
  <2>1. calls # <<>> /\ \E r : calls' = Popped(r)
    BY <1>3 DEF CheckExpr, DeclareLocalVar, CheckStmt, Walking
  <2> QED BY <1>1, <2>1, PassedPop
<1>4. CASE CheckDecl
  <2>1. Len(calls') = 1 /\ calls'[1].rs = <<>> /\ calls'[1].n = prog[item] /\ prog[item] \in NodeId
    BY <1>4, Taken
  <2>2. SUFFICES ASSUME NEW c, c = Condition(Nodes[prog[item]]), c > 0, c < 0 PROVE FALSE
    BY <2>1 DEF PassedInv
  <2>3. c \in Nat
    BY <2>1, <2>2, ConditionKid
  <2> QED BY <2>2, <2>3
<1>5. CASE HoistFunc \/ RequireMain \/ Conclude \/ UNCHANGED vars
  <2>1. calls' = calls
    BY <1>5 DEF HoistFunc, RequireMain, Conclude, vars
  <2> QED BY <1>1, <2>1 DEF PassedInv
<1> QED BY <1>2, <1>3, <1>4, <1>5 DEF Next, Step

LEMMA InitPassed == ASSUME Init PROVE PassedInv
BY DEF Init, PassedInv

(***************************************************************************)
(* The rules of expressions.                                               *)
(***************************************************************************)
\* The names in scope mean what the symbol table resolves them to.
LEMMA ResolveMeans ==
  ASSUME TypeInv, SymbolsInv, NEW G \in Seq(Decls), SameScopes(scopes, G), NEW x \in Name
  PROVE  /\ Means(G, x) = DeclOf(Resolve(x))
         /\ Resolve(x) # Unknown => Means(G, x) \in NodeId
<1> DEFINE F == {s \in DOMAIN scopes : scopes[s][x] # Unknown}
           H == {s \in DOMAIN G : G[s][x] # NoDecl}
<1>1. /\ scopes \in Seq([Name -> Symbol]) /\ DOMAIN scopes = 1 .. Len(scopes) /\ declared \in Seq(NodeId)
      /\ Len(scopes) \in Nat
  <2>1. scopes \in Seq([Name -> Symbol]) /\ declared \in Seq(NodeId) /\ Len(scopes) \in Nat
    BY TypeParts
  <2> QED BY <2>1
<1>2. DOMAIN G = 1 .. Len(scopes)
  <2>1. DOMAIN G = 1 .. Len(G)
    OBVIOUS
  <2> QED BY <2>1 DEF SameScopes
<1>3. \A s \in 1 .. Len(scopes) : DeclOf(scopes[s][x]) = G[s][x]
  BY DEF SameScopes
<1>4. ASSUME NEW s \in 1 .. Len(scopes), scopes[s][x] # Unknown PROVE G[s][x] \in NodeId
  <2>1. PICK y : y = scopes[s][x]
    OBVIOUS
  <2>2. Declares(y, x)
    BY <1>4, <2>1 DEF SymbolsInv
  <2>3. PICK k : k = y.id
    OBVIOUS
  <2>4. k \in 0 .. Len(declared) - 1
    BY <2>2, <2>3 DEF Declares
  <2>5. k + 1 \in 1 .. Len(declared)
    BY <1>1, <2>4
  <2>6. declared[k + 1] \in NodeId
    BY <1>1, <2>5
  <2>7. DeclOf(y) = declared[k + 1]
    BY <1>4, <2>1, <2>3 DEF DeclOf
  <2> QED BY <1>3, <2>1, <2>6, <2>7
<1>5. ASSUME NEW s \in 1 .. Len(scopes), scopes[s][x] = Unknown PROVE G[s][x] = NoDecl
  BY <1>3, <1>5 DEF DeclOf
<1>6. 0 \notin NodeId
  BY AstAssumption
<1>7. F = H
  BY <1>1, <1>2, <1>4, <1>5, <1>6 DEF NoDecl
<1>8. CASE F = {}
  <2>1. Resolve(x) = Unknown
    BY <1>8 DEF Resolve
  <2>2. Means(G, x) = NoDecl
    BY <1>7, <1>8 DEF Means
  <2> QED BY <2>1, <2>2 DEF DeclOf
<1>9. CASE F # {}
  <2>1. Resolve(x) = scopes[CHOOSE s \in F : \A s2 \in F : s2 <= s][x]
    BY <1>9 DEF Resolve
  <2>2. Means(G, x) = G[CHOOSE s \in H : \A s2 \in H : s2 <= s][x]
    BY <1>7, <1>9 DEF Means
  <2>3. PICK s : s = CHOOSE q \in F : \A s2 \in F : s2 <= q
    OBVIOUS
  <2>4. s \in F
    <3>1. F \subseteq 1 .. Len(scopes)
      BY <1>1
    <3> HIDE DEF F
    <3>2. \E p \in F : \A q \in F : q <= p
      BY <1>1, <1>9, <3>1, Greatest
    <3> QED BY <2>3, <3>2
  <2>5. s \in 1 .. Len(scopes) /\ scopes[s][x] # Unknown
    BY <1>1, <2>4
  <2>6. Resolve(x) = scopes[s][x]
    BY <2>1, <2>3
  <2>7. Means(G, x) = G[s][x]
    <3> HIDE DEF F, H
    <3> QED BY <1>7, <2>2, <2>3
  <2> QED BY <1>3, <1>4, <2>5, <2>6, <2>7
<1> QED BY <1>8, <1>9

LEMMA CombineFollows ==
  ASSUME NEW op \in BinOp, NEW l \in Type, NEW r \in Type, NEW t, t = CombineBinaryTypes(op, l, r), t # None
  PROVE  l = r /\ BinaryRule(op, l, t)
<1>1. l = r
  BY DEF CombineBinaryTypes
<1>2. CASE op \in Arith
  BY <1>1, <1>2 DEF CombineBinaryTypes, BinaryRule, Numeric
<1>3. CASE op \in Bitwise
  <2>1. op \notin Arith /\ op \notin Compare /\ op \notin Equality
    BY <1>3 DEF Bitwise, Arith, Compare, Equality
  <2>2. ~(l # r)
    BY <1>1
  <2>3. CombineBinaryTypes(op, l, r) = IF l = TInt THEN TInt ELSE None
    BY <1>3, <2>1, <2>2 DEF CombineBinaryTypes
  <2> QED BY <1>1, <1>3, <2>3 DEF BinaryRule
<1>4. CASE op \in Compare
  BY <1>1, <1>4 DEF CombineBinaryTypes, BinaryRule, Compare, Bitwise, Arith, Numeric
<1>5. CASE op \in Equality
  BY <1>1, <1>5 DEF CombineBinaryTypes, BinaryRule, Equality, Compare, Bitwise, Arith
<1>6. CASE op \in Lazy
  BY <1>1, <1>6 DEF CombineBinaryTypes, BinaryRule, Lazy, Equality, Compare, Bitwise, Arith
<1> QED BY <1>2, <1>3, <1>4, <1>5, <1>6 DEF BinOp

\* An expression is about to return the type ty has for it, and ty has its children's.
Followed(f, ty) ==
  /\ Activation(f) /\ Nodes[f.n].k \in ExprKind /\ Len(f.rs) = Len(Nodes[f.n].kids)
  /\ \A i \in 1 .. Len(f.rs) : /\ f.rs[i] \in Type /\ ty[Nodes[f.n].kids[i]] = f.rs[i]
                               /\ Expected(f, i) # None => f.rs[i] = Expected(f, i)
  /\ Report(f) = <<>> /\ ~BadTarget(Nodes[f.n])
  /\ Nodes[f.n].k = "Call" => CallError(Nodes[f.n]) = <<>>
  /\ TypeFrom(f) \in Type /\ ty[f.n] = TypeFrom(f)

LEMMA FollowedParts ==
  ASSUME NEW f, NEW ty, Followed(f, ty), NEW nd, nd = Nodes[f.n], NEW rs, rs = f.rs
  PROVE  /\ f.n \in NodeId /\ nd \in Node /\ Shape(nd) /\ nd.k \in ExprKind /\ Len(rs) = Len(nd.kids)
         /\ Len(rs) \in Nat /\ DOMAIN rs = 1 .. Len(rs) /\ DOMAIN nd.kids = 1 .. Len(rs)
         /\ \A i \in 1 .. Len(rs) : /\ rs[i] \in Type /\ ty[nd.kids[i]] = rs[i]
         /\ \A i \in 1 .. Len(rs) : rs[i] # None
         /\ ~AnyOf(rs, None)
<1>1. f.n \in NodeId /\ Len(rs) \in Nat /\ DOMAIN rs = 1 .. Len(rs) /\ Len(rs) = Len(nd.kids)
  BY ActivationType DEF Followed
<1>2. nd \in Node /\ Shape(nd) /\ nd.kids \in Seq(NodeId)
  BY <1>1, NodeType
<1>3. DOMAIN nd.kids = 1 .. Len(rs)
  BY <1>1, <1>2
<1>4. \A i \in 1 .. Len(rs) : rs[i] \in Type /\ ty[nd.kids[i]] = rs[i]
  BY DEF Followed
<1>5. \A i \in 1 .. Len(rs) : rs[i] # None
  BY <1>4, BaseTypes
<1>6. ~AnyOf(rs, None)
  BY <1>1, <1>5 DEF AnyOf
<1> QED BY <1>1, <1>2, <1>3, <1>4, <1>5, <1>6 DEF Followed

LEMMA OperatorsFollow ==
  ASSUME NEW f, NEW ty, Followed(f, ty), NEW p, NEW ss,
         Nodes[f.n].k \in {"Binary", "Unary", "Assign", "CompoundAssign", "IncDec"}
  PROVE  ExprRule(ty, p, ss, f.n)
<1>1. PICK nd : nd = Nodes[f.n]
  OBVIOUS
<1>2. PICK rs : rs = f.rs
  OBVIOUS
<1>3. PICK t : t = TypeFrom(f)
  OBVIOUS
<1>4. /\ f.n \in NodeId /\ nd \in Node /\ Shape(nd) /\ Len(rs) = Len(nd.kids) /\ ~AnyOf(rs, None)
      /\ \A i \in 1 .. Len(rs) : rs[i] \in Type /\ ty[nd.kids[i]] = rs[i]
  BY <1>1, <1>2, FollowedParts
<1>5. ty[f.n] = t /\ t # None /\ ~BadTarget(nd) /\ t \in Type
  BY <1>1, <1>3, BaseTypes DEF Followed
<1>6. CASE nd.k \in {"Binary", "CompoundAssign"}
  <2>1. Len(rs) = 2 /\ nd.op \in BinOp
    BY <1>4, <1>6 DEF Shape, BinOp
  <2>2. TypeFrom(f) = IF Len(rs) = 2 /\ ~AnyOf(rs, None) THEN CombineBinaryTypes(nd.op, rs[1], rs[2]) ELSE None
    BY <1>1, <1>2, <1>5, <1>6, Zenon DEF TypeFrom
  <2>3. PICK l : l = rs[1]
    OBVIOUS
  <2>4. PICK r : r = rs[2]
    OBVIOUS
  <2>5. l \in Type /\ r \in Type /\ ty[nd.kids[1]] = l /\ ty[nd.kids[2]] = r
    BY <1>4, <2>1, <2>3, <2>4
  <2>6. l = r /\ BinaryRule(nd.op, l, t)
    <3>1. PICK op : op = nd.op
      OBVIOUS
    <3>2. t = CombineBinaryTypes(op, l, r) /\ op \in BinOp
      BY <1>3, <1>4, <2>1, <2>2, <2>3, <2>4, <3>1
    <3>3. l = r /\ BinaryRule(op, l, t)
      BY <1>5, <2>5, <3>2, CombineFollows
    <3> QED BY <3>1, <3>3
  <2>7. nd.k = "CompoundAssign" => Place(nd.kids[1])
    BY <1>5 DEF BadTarget, HasTarget, IsLvalue, Place
  <2>8. \A o : o = ty[nd.kids[1]] => BinaryRule(nd.op, o, t)
    BY <2>5, <2>6
  <2> QED BY <1>1, <1>5, <1>6, <2>5, <2>6, <2>7, <2>8 DEF ExprRule, LitKind
<1>7. CASE nd.k = "Unary"
  <2>1. Len(rs) = 1 /\ nd.op \in UnOp
    BY <1>4, <1>7 DEF Shape
  <2>2. TypeFrom(f) = IF rs[1] \in UnaryAccepts(nd.op) THEN rs[1] ELSE None
    BY <1>1, <1>2, <1>5, <1>7, Zenon DEF TypeFrom
  <2>3. t = rs[1] /\ t \in UnaryAccepts(nd.op)
    BY <1>3, <1>5, <2>2
  <2>4. ty[nd.kids[1]] = t
    BY <1>4, <2>1, <2>3
  <2>5. UnaryRule(nd.op, t)
    BY <2>1, <2>3 DEF UnaryAccepts, UnaryRule, UnOp, Numeric
  <2> QED BY <1>1, <1>5, <1>7, <2>4, <2>5 DEF ExprRule, LitKind
<1>8. CASE nd.k = "Assign"
  <2>1. Len(rs) = 2
    BY <1>4, <1>8 DEF Shape
  <2>2. TypeFrom(f) = IF Len(rs) = 2 THEN rs[2] ELSE None
    BY <1>1, <1>2, <1>5, <1>8, Zenon DEF TypeFrom
  <2>3. Expected(f, 2) = rs[1]
    BY <1>1, <1>2, <1>5, <1>8 DEF Expected
  <2>4. rs[1] # None
    BY <1>4, <2>1, BaseTypes
  <2>5. rs[2] = rs[1]
    BY <1>2, <2>1, <2>3, <2>4 DEF Followed
  <2>6. Place(nd.kids[1])
    BY <1>5, <1>8 DEF BadTarget, HasTarget, IsLvalue, Place
  <2>7. ty[nd.kids[1]] = t /\ ty[nd.kids[2]] = t
    BY <1>3, <1>4, <2>1, <2>2, <2>5
  <2> QED BY <1>1, <1>5, <1>8, <2>6, <2>7 DEF ExprRule, LitKind
<1>9. CASE nd.k = "IncDec"
  <2>1. Len(rs) = 1
    BY <1>4, <1>9 DEF Shape
  <2>2. TypeFrom(f) = IF rs[1] \in {TInt, TFloat} THEN rs[1] ELSE None
    BY <1>1, <1>2, <1>5, <1>9, Zenon DEF TypeFrom
  <2>3. Place(nd.kids[1])
    BY <1>5, <1>9 DEF BadTarget, HasTarget, IsLvalue, Place
  <2>4. t \in Numeric /\ ty[nd.kids[1]] = t
    BY <1>3, <1>4, <1>5, <2>1, <2>2 DEF Numeric
  <2> QED BY <1>1, <1>5, <1>9, <2>3, <2>4 DEF ExprRule, LitKind
<1> QED BY <1>1, <1>6, <1>7, <1>8, <1>9

LEMMA LeavesFollow ==
  ASSUME NEW f, NEW ty, Followed(f, ty), NEW p, NEW ss,
         Nodes[f.n].k \in {"Ident", "IntLiteral", "FloatLiteral", "BoolLiteral", "StringLiteral", "Null"},
         Nodes[f.n].k = "Ident" =>
           \A x : x = Nodes[f.n].name => Means(ss, x) # NoDecl /\ Resolve(x).ty = Nodes[Means(ss, x)].ty
  PROVE  ExprRule(ty, p, ss, f.n)
<1>1. PICK nd : nd = Nodes[f.n]
  OBVIOUS
<1>2. ty[f.n] = TypeFrom(f) /\ ~BadTarget(nd)
  BY <1>1 DEF Followed
<1>3. CASE nd.k = "Ident"
  <2>1. TypeFrom(f) = Resolve(nd.name).ty
    BY <1>1, <1>2, <1>3 DEF TypeFrom
  <2>2. Means(ss, nd.name) # NoDecl /\ ty[f.n] = Nodes[Means(ss, nd.name)].ty
    BY <1>1, <1>2, <1>3, <2>1
  <2> QED BY <1>1, <1>3, <2>2 DEF ExprRule, LitKind
<1>4. CASE nd.k # "Ident"
  <2>1. nd.k \in DOMAIN LitKind
    BY <1>1, <1>4 DEF LitKind
  <2>2. TypeFrom(f) = LiteralType(nd.k)
    BY <1>1, <1>2, <1>4 DEF TypeFrom
  <2>3. LiteralType(nd.k) = LitType(nd.k)
    BY <1>1, <1>4 DEF LiteralType, LitType, LitKind, TInt, TFloat, TBool, TStr, TVoid
  <2> QED BY <1>1, <1>2, <1>4, <2>1, <2>2, <2>3 DEF ExprRule, LitKind
<1> QED BY <1>3, <1>4

LEMMA AccessFollows ==
  ASSUME NEW f, NEW ty, Followed(f, ty), NEW p, NEW ss,
         Nodes[f.n].k \in {"Ternary", "Index", "FieldAccess", "ArrayCreation"},
         Nodes[f.n].k = "Ternary" => f.rs[1] = TBool
  PROVE  ExprRule(ty, p, ss, f.n)
<1>1. PICK nd : nd = Nodes[f.n]
  OBVIOUS
<1>2. PICK rs : rs = f.rs
  OBVIOUS
<1>3. PICK t : t = TypeFrom(f)
  OBVIOUS
<1>4. /\ f.n \in NodeId /\ nd \in Node /\ Shape(nd) /\ Len(rs) = Len(nd.kids) /\ ~AnyOf(rs, None)
      /\ \A i \in 1 .. Len(rs) : rs[i] \in Type /\ ty[nd.kids[i]] = rs[i]
  BY <1>1, <1>2, FollowedParts
<1>5. ty[f.n] = t /\ t # None /\ ~BadTarget(nd) /\ t \in Type
  BY <1>1, <1>3, BaseTypes DEF Followed
<1>6. CASE nd.k = "Ternary"
  <2>1. Len(rs) = 3
    BY <1>4, <1>6 DEF Shape
  <2>2. TypeFrom(f) = IF rs[2] = rs[3] /\ rs[2] # TVoid THEN rs[2] ELSE None
    BY <1>1, <1>2, <1>5, <1>6, Zenon DEF TypeFrom
  <2>3. rs[2] = t /\ rs[3] = t /\ t # TVoid
    BY <1>3, <1>5, <2>2
  <2>4. ty[nd.kids[1]] = TBool /\ ty[nd.kids[2]] = t /\ ty[nd.kids[3]] = t
    BY <1>1, <1>2, <1>4, <1>6, <2>1, <2>3
  <2> QED BY <1>1, <1>5, <1>6, <2>3, <2>4 DEF ExprRule, LitKind
<1>7. CASE nd.k = "Index"
  <2>1. Len(rs) = 2
    BY <1>4, <1>7 DEF Shape
  <2>2. TypeFrom(f) = IF IsArray(rs[1]) /\ rs[2] = TInt THEN ElemOf(rs[1]) ELSE None
    BY <1>1, <1>2, <1>5, <1>7, Zenon DEF TypeFrom
  <2>3. PICK a : a = rs[1]
    OBVIOUS
  <2>4. IsArray(a) /\ rs[2] = TInt /\ t = ElemOf(a)
    BY <1>3, <1>5, <2>2, <2>3
  <2>5. ty[nd.kids[1]] = a /\ ty[nd.kids[2]] = TInt
    BY <1>4, <2>1, <2>3, <2>4
  <2> QED BY <1>1, <1>5, <1>7, <2>4, <2>5 DEF ExprRule, LitKind
<1>8. CASE nd.k = "FieldAccess"
  <2>1. Len(rs) = 1
    BY <1>4, <1>8 DEF Shape
  <2>2. TypeFrom(f) = IF nd.name = "length" /\ (IsArray(rs[1]) \/ rs[1] = TStr) THEN TInt ELSE None
    BY <1>1, <1>2, <1>5, <1>8, Zenon DEF TypeFrom
  <2>3. PICK a : a = rs[1]
    OBVIOUS
  <2>4. nd.name = "length" /\ (IsArray(a) \/ a = TStr) /\ t = TInt
    BY <1>3, <1>5, <2>2, <2>3
  <2>5. ty[nd.kids[1]] = a
    BY <1>4, <2>1, <2>3
  <2> QED BY <1>1, <1>5, <1>8, <2>4, <2>5 DEF ExprRule, LitKind
<1>9. CASE nd.k = "ArrayCreation"
  <2>1. Len(rs) = 1
    BY <1>4, <1>9 DEF Shape
  <2>2. TypeFrom(f) = IF rs[1] = TInt THEN ArrayOf(nd.ty) ELSE None
    BY <1>1, <1>2, <1>5, <1>9, Zenon DEF TypeFrom
  <2>3. ty[nd.kids[1]] = TInt /\ t = ArrayOf(nd.ty)
    BY <1>3, <1>4, <1>5, <2>1, <2>2
  <2> QED BY <1>1, <1>5, <1>9, <2>3 DEF ExprRule, LitKind
<1> QED BY <1>1, <1>6, <1>7, <1>8, <1>9

LEMMA ArrayLiteralFollows ==
  ASSUME NEW f, NEW ty, Followed(f, ty), NEW p, NEW ss, Nodes[f.n].k = "ArrayLiteral"
  PROVE  ExprRule(ty, p, ss, f.n)
<1>1. PICK nd : nd = Nodes[f.n]
  OBVIOUS
<1>2. PICK rs : rs = f.rs
  OBVIOUS
<1>3. PICK t : t = TypeFrom(f)
  OBVIOUS
<1>4. /\ f.n \in NodeId /\ Len(rs) = Len(nd.kids) /\ ~AnyOf(rs, None) /\ Len(rs) \in Nat
      /\ DOMAIN nd.kids = 1 .. Len(rs) /\ nd \in Node
      /\ \A i \in 1 .. Len(rs) : rs[i] \in Type /\ ty[nd.kids[i]] = rs[i]
  BY <1>1, <1>2, FollowedParts
<1>5. ty[f.n] = t /\ t # None /\ ~BadTarget(nd) /\ t \in Type /\ Report(f) = <<>> /\ f.exp \in Type \cup {None}
  BY <1>1, <1>3, BaseTypes, ActivationType DEF Followed
<1>6. \A i \in 1 .. Len(rs) : Expected(f, i) # None => rs[i] = Expected(f, i)
  BY <1>2 DEF Followed
<1>7. TypeFrom(f) = ArrayLiteralType(f, nd)
  BY <1>1, <1>5, Zenon DEF TypeFrom
<1>8. t = IF f.exp # None THEN IF IsArray(f.exp) THEN f.exp ELSE None
          ELSE IF nd.kids = <<>> THEN None ELSE ArrayOf(rs[1])
  BY <1>2, <1>3, <1>4, <1>7, Zenon DEF ArrayLiteralType
<1>9. \A i : Expected(f, i) = IF f.exp # None THEN ElemOf(f.exp) ELSE IF i = 1 THEN None ELSE rs[1]
  BY <1>1, <1>2 DEF Expected
<1>10. IsArray(t) /\ \A i \in 1 .. Len(rs) : rs[i] = ElemOf(t)
  <2>1. CASE f.exp # None
    <3>1. t = f.exp /\ IsArray(t)
      BY <1>5, <1>8, <2>1
    <3>2. ElemOf(t) \in Type
      BY <1>5, <3>1, ArrayTypes
    <3>3. \A i : Expected(f, i) = ElemOf(t)
      BY <1>9, <2>1, <3>1
    <3> QED BY <1>6, <3>1, <3>2, <3>3, BaseTypes
  <2>2. CASE f.exp = None
    <3>1. PICK a : a = rs[1]
      OBVIOUS
    <3>2. t = ArrayOf(a) /\ nd.kids # <<>>
      BY <1>5, <1>8, <2>2, <3>1
    <3>3. Len(rs) \in Nat \ {0}
      <4>1. nd.kids \in Seq(NodeId)
        BY <1>1, <1>4, NodeType
      <4> QED BY <1>4, <3>2, <4>1
    <3>4. a \in Type
      BY <1>4, <3>1, <3>3
    <3>5. IsArray(t) /\ ElemOf(t) = a
      BY <3>2, <3>4, ArrayTypes
    <3>6. ASSUME NEW i \in 1 .. Len(rs) PROVE rs[i] = a
      <4>1. CASE i = 1
        BY <3>1, <4>1
      <4>2. CASE i # 1
        <5>1. Expected(f, i) = a
          BY <1>9, <2>2, <3>1, <4>2
        <5> QED BY <1>6, <3>4, <3>6, <5>1, BaseTypes
      <4> QED BY <4>1, <4>2
    <3> QED BY <3>5, <3>6
  <2> QED BY <2>1, <2>2
<1>11. \A i \in DOMAIN nd.kids : ty[nd.kids[i]] = ElemOf(t)
  BY <1>4, <1>10
<1> QED BY <1>1, <1>5, <1>10, <1>11 DEF ExprRule, LitKind

LEMMA CallFollows ==
  ASSUME NEW f, NEW ty, Followed(f, ty), NEW ss, Nodes[f.n].k = "Call",
         TypeInv, HoistInv, errors = <<>>, pass = 2
  PROVE  ExprRule(ty, prog, ss, f.n)
<1>1. PICK nd : nd = Nodes[f.n]
  OBVIOUS
<1>2. PICK rs : rs = f.rs
  OBVIOUS
<1>3. PICK t : t = TypeFrom(f)
  OBVIOUS
<1>4. /\ f.n \in NodeId /\ Len(rs) = Len(nd.kids) /\ ~AnyOf(rs, None) /\ Len(rs) \in Nat
      /\ \A i \in 1 .. Len(rs) : rs[i] \in Type /\ ty[nd.kids[i]] = rs[i]
  BY <1>1, <1>2, FollowedParts
<1>5. ty[f.n] = t /\ ~BadTarget(nd) /\ CallError(nd) = <<>> /\ nd.name \in Name
  BY <1>1, <1>3, <1>4, NodeType DEF Followed
<1>6. TypeFrom(f) = CallType(f, nd)
  BY <1>1, <1>5, Zenon DEF TypeFrom
<1>7. t = IF nd.name = "print" THEN TVoid ELSE functions[nd.name].ret
  BY <1>2, <1>3, <1>4, <1>5, <1>6, Zenon DEF CallType
<1>8. CASE nd.name = "print"
  <2>1. Len(nd.kids) = 1
    <3>1. (IF Len(nd.kids) # 1 THEN <<"ArityMismatch">> ELSE <<>>) = <<>>
      BY <1>5, <1>8 DEF CallError
    <3> QED BY <3>1
  <2>2. CallRule(ty, prog, nd, t)
    BY <1>7, <1>8, <2>1 DEF CallRule
  <2> QED BY <1>1, <1>5, <2>2 DEF ExprRule, LitKind
<1>9. CASE nd.name # "print"
  <2>1. PICK g : g = functions[nd.name]
    OBVIOUS
  <2>2. g # NoSig /\ Len(nd.kids) = Len(g.params)
    <3>1. (IF g = NoSig THEN <<"UndeclaredFunction">>
           ELSE IF Len(nd.kids) # Len(g.params) THEN <<"ArityMismatch">> ELSE <<>>) = <<>>
      BY <1>5, <1>9, <2>1 DEF CallError
    <3> QED BY <3>1
  <2>3. g.params \in Seq(Type)
    BY <1>5, <1>9, <2>1, Okays, CalleeType
  <2>4. \A i \in 1 .. Len(rs) : Expected(f, i) = g.params[i]
    BY <1>1, <1>5, <1>9, <2>1 DEF Expected
  <2>5. \A i \in 1 .. Len(g.params) : ty[nd.kids[i]] = g.params[i]
    <3>1. ASSUME NEW i \in 1 .. Len(g.params) PROVE ty[nd.kids[i]] = g.params[i]
      <4>1. i \in 1 .. Len(rs) /\ g.params[i] \in Type
        BY <1>4, <2>2, <2>3
      <4>2. rs[i] = g.params[i]
        BY <1>2, <2>4, <4>1, BaseTypes DEF Followed
      <4> QED BY <1>4, <4>1, <4>2
    <3> QED BY <3>1
  <2>6. DOMAIN g.params = 1 .. Len(g.params)
    BY <2>3
  <2>7. CASE nd.name \in DOMAIN BuiltinParams
    <3>1. g = [params |-> BuiltinParams[nd.name], ret |-> BuiltinRet(nd.name)]
      BY <1>5, <2>1, <2>7 DEF HoistInv
    <3>2. Takes(ty, nd, g.params)
      BY <2>2, <2>5, <2>6 DEF Takes
    <3>3. CallRule(ty, prog, nd, t)
      BY <1>7, <1>9, <2>1, <2>7, <3>1, <3>2 DEF CallRule
    <3> QED BY <1>1, <1>5, <3>3 DEF ExprRule, LitKind
  <2>8. CASE nd.name \notin DOMAIN BuiltinParams
    <3>1. PICK i \in 1 .. Hoisted : IsFunc(i) /\ Nodes[prog[i]].name = nd.name
      BY <1>5, <2>1, <2>2, <2>8 DEF HoistInv
    <3>2. g = Signature(Nodes[prog[i]])
      BY <2>1, <3>1 DEF HoistInv
    <3>3. i \in DOMAIN prog
      BY <3>1, TypeParts DEF Hoisted
    <3>4. Takes(ty, nd, ParamTypes(prog[i])) /\ t = Nodes[prog[i]].ty
      <4>1. g.params = ParamTypes(prog[i]) /\ g.ret = Nodes[prog[i]].ty
        BY <3>2 DEF Signature, ParamTypes
      <4>2. Takes(ty, nd, g.params)
        BY <2>2, <2>5, <2>6 DEF Takes
      <4> QED BY <1>7, <1>9, <2>1, <4>1, <4>2
    <3>5. CallRule(ty, prog, nd, t)
      BY <1>9, <2>8, <3>1, <3>3, <3>4 DEF CallRule, IsFunc
    <3> QED BY <1>1, <1>5, <3>5 DEF ExprRule, LitKind
  <2> QED BY <2>7, <2>8
<1> QED BY <1>8, <1>9

(***************************************************************************)
(* What is done with stays sound.                                          *)
(***************************************************************************)
LEMMA JudgedSame ==
  ASSUME NEW n \in NodeId, NEW ty, NEW ty2, NEW p \in Programs, Judged(ty, p, n),
         Nodes[n].k \in ExprKind => n \in DOMAIN ty2 /\ ty2[n] = ty[n],
         \A i \in 1 .. Len(Nodes[n].kids) :
           Nodes[Nodes[n].kids[i]].k \in ExprKind => ty2[Nodes[n].kids[i]] = ty[Nodes[n].kids[i]]
  PROVE  Judged(ty2, p, n)
<1>1. PICK nd : nd = Nodes[n]
  OBVIOUS
<1>2. Len(nd.kids) \in Nat /\ DOMAIN nd.kids = 1 .. Len(nd.kids)
  <2>1. nd \in Node
    BY <1>1, IsNode
  <2> QED BY <2>1, NodeParts
<1>3. PICK ret : ret = RetOf(p, n)
  OBVIOUS
<1>4. StmtRule(ty2, ret, n)
  <2>0. StmtRule(ty, ret, n)
    BY <1>3 DEF Judged
  <2>1. CASE nd.k \in {"VarDecl", "Return"}
    <3>1. \A i \in DOMAIN nd.kids : ty2[nd.kids[i]] = ty[nd.kids[i]]
      BY <1>1, <1>2, <2>1, KidKinds
    <3> QED BY <1>1, <2>0, <2>1, <3>1 DEF StmtRule
  <2>2. CASE nd.k \in {"If", "While", "For"}
    <3>1. PICK c : c = Condition(nd)
      OBVIOUS
    <3>2. c = IF nd.k = "For" THEN 2 ELSE 1
      BY <2>2, <3>1 DEF Condition
    <3>3. c > 0
      BY <3>2
    <3>5. c = Condition(Nodes[n])
      BY <1>1, <3>1
    <3>6. c \in 1 .. Len(Nodes[n].kids) /\ Nodes[Nodes[n].kids[c]].k \in ExprKind
      BY <3>3, <3>5, ConditionKid
    <3>4. ty2[nd.kids[c]] = ty[nd.kids[c]]
      BY <1>1, <3>6
    <3> QED BY <1>1, <2>0, <2>2, <3>2, <3>4 DEF StmtRule
  <2>3. CASE nd.k \notin {"VarDecl", "Return", "If", "While", "For"}
    BY <1>1, <2>3 DEF StmtRule
  <2> QED BY <2>1, <2>2, <2>3
<1>5. CASE nd.k \in ExprKind
  <2>1. ty[n] \in Type /\ ExprRule(ty, p, ScopesOf(p)[n], n)
    BY <1>1, <1>5 DEF Judged
  <2>2. \A i \in 1 .. Len(nd.kids) : ty2[nd.kids[i]] = ty[nd.kids[i]]
    BY <1>1, <1>5, KidKinds
  <2>3. ty2[n] = ty[n] /\ n \in DOMAIN ty2
    BY <1>1, <1>5
  <2>4. ExprRule(ty2, p, ScopesOf(p)[n], n)
    BY <1>1, <1>5, <2>1, <2>2, <2>3, ExprRuleSame
  <2> QED BY <1>3, <1>4, <2>1, <2>3, <2>4 DEF Judged
<1>6. CASE nd.k \notin ExprKind
  BY <1>1, <1>3, <1>4, <1>6 DEF Judged
<1> QED BY <1>5, <1>6

\* A step that keeps the entries below c keeps c sound.
Kept(c) == \A m \in Below(c) :
  /\ m \in DOMAIN types => m \in DOMAIN types' /\ types'[m] = types[m]
  /\ m \in DOMAIN var_refs => m \in DOMAIN var_refs' /\ var_refs'[m] = var_refs[m]
Grown == \A i \in 0 .. Len(declared) - 1 : i \in 0 .. Len(declared') - 1 /\ declared'[i + 1] = declared[i + 1]
LEMMA SoundStays ==
  ASSUME prog \in Programs, prog' = prog, Grown, NEW c \in NodeId, Kept(c), Sound(c), NEW c2, c2 = c
  PROVE  Sound(c2)'
<1>1. /\ Below(c) \subseteq NodeId
      /\ \A m \in Below(c) : \A i \in 1 .. Len(Nodes[m].kids) : Nodes[m].kids[i] \in Below(c)
  BY BelowClosed
<1>2. ASSUME NEW m \in Below(c) PROVE Judged(types', prog', m)
  <2>1. m \in NodeId /\ Judged(types, prog, m)
    BY <1>1 DEF Sound
  <2>2. \A q \in Below(c) : Nodes[q].k \in ExprKind => q \in DOMAIN types' /\ types'[q] = types[q]
    <3>1. \A q \in Below(c) : Nodes[q].k \in ExprKind => q \in DOMAIN types
      BY DEF Sound, Judged
    <3> QED BY <3>1 DEF Kept
  <2>3. Judged(types', prog, m)
    BY <1>1, <1>2, <2>1, <2>2, JudgedSame
  <2> QED BY <2>3
<1>3. ASSUME NEW m \in Below(c) PROVE \A q : q = m => Meant(q)'
  <2> SUFFICES ASSUME Nodes[m].k = "Ident"
               PROVE  /\ m \in DOMAIN var_refs' /\ var_refs'[m] \in 0 .. Len(declared') - 1
                      /\ declared'[var_refs'[m] + 1] = Means(ScopesOf(prog')[m], Nodes[m].name)
    BY DEF Meant, Sc
  <2>1. Meant(m)
    BY DEF Sound
  <2>2. m \in DOMAIN var_refs /\ var_refs[m] \in 0 .. Len(declared) - 1
        /\ declared[var_refs[m] + 1] = Means(ScopesOf(prog)[m], Nodes[m].name)
    BY <2>1 DEF Meant, Sc
  <2>3. m \in DOMAIN var_refs' /\ var_refs'[m] = var_refs[m]
    BY <2>2 DEF Kept
  <2>4. PICK k : k = var_refs[m]
    OBVIOUS
  <2>5. k \in 0 .. Len(declared') - 1 /\ declared'[k + 1] = declared[k + 1]
    BY <2>2, <2>4 DEF Grown
  <2> QED BY <2>2, <2>3, <2>4, <2>5
<1>4. \A m \in Below(c2) : Judged(types', prog', m) /\ \A q : q = m => Meant(q)'
  BY <1>2, <1>3
<1> QED BY <1>4 DEF Sound

LEMMA SoundUp ==
  ASSUME NEW n \in NodeId, Judged(types', prog', n), \A q : q = n => Meant(q)',
         \A i \in 1 .. Len(Nodes[n].kids) : \A q : q = Nodes[n].kids[i] => Sound(q)'
  PROVE  \A q : q = n => Sound(q)'
<1>1. DOMAIN Nodes[n].kids = 1 .. Len(Nodes[n].kids)
  BY NodeType
<1>2. ASSUME NEW m \in Below(n) PROVE Judged(types', prog', m) /\ \A q : q = m => Meant(q)'
  <2>1. m = n \/ \E i \in 1 .. Len(Nodes[n].kids) : m \in Below(Nodes[n].kids[i])
    BY <1>1, <1>2, BelowStep
  <2>2. CASE m = n
    BY <2>2
  <2>3. CASE \E i \in 1 .. Len(Nodes[n].kids) : m \in Below(Nodes[n].kids[i])
    <3>1. PICK i \in 1 .. Len(Nodes[n].kids) : m \in Below(Nodes[n].kids[i])
      BY <2>3
    <3>2. PICK c : c = Nodes[n].kids[i]
      OBVIOUS
    <3>3. Sound(c)'
      BY <3>2
    <3>4. \A q \in Below(c) : Judged(types', prog', q) /\ Meant(q)'
      BY <3>3 DEF Sound
    <3> QED BY <3>1, <3>2, <3>4
  <2> QED BY <2>1, <2>2, <2>3
<1> QED BY <1>2 DEF Sound

\* The innermost activation is not about anything below what is done with.
LEMMA Apart ==
  ASSUME TypeInv, NestInv, calls # <<>>, NEW j \in 1 .. Len(calls), NEW i \in 1 .. Len(calls[j].rs)
  PROVE  /\ Nodes[calls[j].n].kids[i] \in NodeId
         /\ Top.n \notin Below(Nodes[calls[j].n].kids[i])
<1>1. PICK f : f = calls[j]
  OBVIOUS
<1>2. PICK m : m = Len(calls)
  OBVIOUS
<1>3. m \in Nat \ {0} /\ Top = calls[m] /\ m \in 1 .. m
  BY <1>2, Places DEF Top
<1>4. Activation(f)
  BY <1>1 DEF TypeInv, CallsInv
<1>5. /\ f.n \in NodeId /\ Len(f.rs) \in Nat /\ Len(f.rs) <= Len(Nodes[f.n].kids) /\ Len(Nodes[f.n].kids) \in Nat
      /\ i \in 1 .. Len(f.rs)
  BY <1>1, <1>4, ActivationType
<1>6. i \in 1 .. Len(Nodes[f.n].kids)
  BY <1>5
<1>7. CASE j = m
  BY <1>1, <1>3, <1>5, <1>6, <1>7, BelowKid, KidsFirst
<1>8. CASE j # m
  <2>1. j \in 1 .. m - 1 /\ j + 1 \in 1 .. m /\ j + 1 <= m
    BY <1>2, <1>3, <1>8
  <2>2. PICK g : g = calls[j + 1]
    OBVIOUS
  <2>3. Awaits(f, g)
    BY <1>1, <1>2, <2>1, <2>2 DEF TypeInv, CallsInv
  <2>4. g.n = Nodes[f.n].kids[Len(f.rs) + 1] /\ Len(f.rs) + 1 <= Len(Nodes[f.n].kids)
    BY <2>3 DEF Awaits
  <2>5. PICK l : l = Len(f.rs) + 1
    OBVIOUS
  <2>6. l \in 1 .. Len(Nodes[f.n].kids) /\ i # l
    BY <1>5, <2>4, <2>5
  <2>7. Below(Nodes[f.n].kids[i]) \cap Below(Nodes[f.n].kids[l]) = {}
    BY <1>5, <1>6, <2>6, BelowKid
  <2>8. Top.n \in Below(g.n)
    BY <1>2, <1>3, <2>1, <2>2 DEF NestInv
  <2> QED BY <1>1, <1>5, <1>6, <2>4, <2>5, <2>7, <2>8, KidsFirst
<1> QED BY <1>7, <1>8

LEMMA ApartDecl ==
  ASSUME TypeInv, NestInv, calls # <<>>, NEW i \in 1 .. item - 2
  PROVE  prog[i] \in NodeId /\ Top.n \notin Below(prog[i])
<1>1. item - 1 \in 1 .. Len(prog) /\ prog \in Programs /\ Top.n \in Below(prog[item - 1])
  BY InProgram, Places DEF Top
<1>2. item \in Nat /\ Len(prog) \in Nat
  BY TypeParts
<1>3. i \in 1 .. Len(prog) /\ i # item - 1
  BY <1>1, <1>2
<1> QED BY <1>1, <1>3, ProgramNodes

(***************************************************************************)
(* An activation that returns hands its node over to its caller, or to run. *)
(***************************************************************************)
\* What a child is checked against does not change with the answers of later children.
LEMMA ExpectedSame ==
  ASSUME functions' = functions, NEW f, NEW g, g.n = f.n, g.exp = f.exp, NEW i, i # 1 => g.rs[1] = f.rs[1]
  PROVE  Expected(g, i)' = Expected(f, i)
<1>1. PICK nd : nd = Nodes[f.n]
  OBVIOUS
<1>2. CallError(nd)' = CallError(nd)
  BY DEF CallError
<1>3. g.rs[1] = f.rs[1] \/ i = 1
  OBVIOUS
<1>4. CASE i = 1
  BY <1>1, <1>2, <1>4 DEF Expected
<1>5. CASE i # 1
  BY <1>1, <1>2, <1>3, <1>5 DEF Expected
<1> QED BY <1>4, <1>5

LEMMA AnswerStays ==
  ASSUME prog \in Programs, prog' = prog, functions' = functions, Grown,
         NEW f, NEW g, NEW i, g.n = f.n, g.exp = f.exp, g.rs[i] = f.rs[i], i # 1 => g.rs[1] = f.rs[1],
         NEW c \in NodeId, c = Nodes[f.n].kids[i], Kept(c), SoundAnswer(f, i)
  PROVE  SoundAnswer(g, i)'
<1>1. /\ Sound(c)
      /\ Nodes[c].k \in ExprKind => f.rs[i] = types[c] /\ (Expected(f, i) # None => f.rs[i] = Expected(f, i))
      /\ Nodes[c].k \notin ExprKind => (f.rs[i] = Returns <=> MustReturn(c))
  BY DEF SoundAnswer
<1>2. Sound(c)'
  BY <1>1, SoundStays
<1>3. Expected(g, i)' = Expected(f, i)
  BY ExpectedSame
<1>4. c \in Below(c)
  BY BelowClosed
<1>5. Nodes[c].k \in ExprKind => types'[c] = types[c]
  BY <1>1, <1>4 DEF Kept, Sound, Judged
<1> QED BY <1>1, <1>2, <1>3, <1>5 DEF SoundAnswer

\* What the innermost activation has to hand over.
HandsOver(r) ==
  /\ errors = <<>> /\ Grown /\ \A c \in NodeId : Top.n \notin Below(c) => Kept(c)
  /\ \A n : n = Top.n => Sound(n)'
  /\ Here.k \in ExprKind => r = types'[Top.n] /\ (Top.exp # None => r = Top.exp)
  /\ Here.k \notin ExprKind => (r = Returns <=> MustReturn(Top.n))
  /\ Here.k = "Func" /\ Here.ty # TVoid => MustReturn(Top.n)

LEMMA NewAnswer ==
  ASSUME TypeInv, calls # <<>>, Len(calls) # 1, NEW r, HandsOver(r), functions' = functions,
         NEW f, f = calls[Len(calls) - 1], NEW g, g.n = f.n, g.exp = f.exp, NEW i, i = Len(f.rs) + 1,
         g.rs[i] = r, i # 1 => g.rs[1] = f.rs[1]
  PROVE  SoundAnswer(g, i)'
<1>1. /\ Awaits(f, Top) /\ Nodes[f.n].kids[i] = Top.n
  BY Caller
<1>2. Top.exp = Expected(f, i)
  BY <1>1 DEF Awaits
<1>3. Expected(g, i)' = Expected(f, i)
  BY ExpectedSame
<1>4. PICK c : c = Top.n
  OBVIOUS
<1>5. Sound(c)' /\ Here = Nodes[c]
  BY <1>4, TopType DEF HandsOver
<1>6. Nodes[c].k \in ExprKind => r = types'[c] /\ (Expected(g, i)' # None => r = Expected(g, i)')
  BY <1>2, <1>3, <1>4, <1>5 DEF HandsOver
<1>7. Nodes[c].k \notin ExprKind => (r = Returns <=> MustReturn(c))
  BY <1>4, <1>5 DEF HandsOver
<1>8. c = Nodes[g.n].kids[i]
  BY <1>1, <1>4
<1> QED BY <1>5, <1>6, <1>7, <1>8 DEF SoundAnswer

LEMMA PopAnswers ==
  ASSUME TypeInv, NestInv, JudgeInv, calls # <<>>, NEW r, calls' = Popped(r),
         UNCHANGED <<prog, functions>>, HandsOver(r)
  PROVE  \A j \in 1 .. Len(calls') : \A i \in 1 .. Len(calls'[j].rs) : \A g : g = calls'[j] => SoundAnswer(g, i)'
<1>1. PICK m : m = Len(calls)
  OBVIOUS
<1>2. /\ m \in Nat \ {0} /\ Len(calls') = m - 1 /\ prog \in Programs /\ Grown
      /\ \A j \in 1 .. m : Activation(calls[j])
      /\ \A j \in 1 .. m - 2 : calls'[j] = calls[j]
  BY <1>1, TopType, Answered, TypeOKParts DEF TypeInv, CallsInv, HandsOver
<1>3. ASSUME NEW j \in 1 .. m, NEW i \in 1 .. Len(calls[j].rs), NEW f, f = calls[j],
             NEW g, g.n = f.n, g.exp = f.exp, g.rs[i] = f.rs[i], i # 1 => g.rs[1] = f.rs[1]
      PROVE  SoundAnswer(g, i)'
  <2>1. PICK c : c = Nodes[f.n].kids[i]
    OBVIOUS
  <2>2. c \in NodeId /\ Top.n \notin Below(c)
    BY <1>1, <1>3, <2>1, Apart
  <2>3. Kept(c)
    BY <2>2 DEF HandsOver
  <2>4. SoundAnswer(f, i)
    BY <1>1, <1>3 DEF JudgeInv, HandsOver
  <2> QED BY <1>2, <1>3, <2>1, <2>2, <2>3, <2>4, AnswerStays
<1>4. ASSUME NEW j \in 1 .. m - 1, NEW i \in 1 .. Len(calls'[j].rs), NEW g, g = calls'[j]
      PROVE  SoundAnswer(g, i)'
  <2>1. j \in 1 .. m
    BY <1>2
  <2>2. CASE j \in 1 .. m - 2
    BY <1>2, <1>3, <1>4, <2>1, <2>2
  <2>3. CASE j = m - 1
    <3>1. m > 1 /\ m # 1
      BY <1>2, <2>3
    <3>2. PICK f : f = calls[j]
      OBVIOUS
    <3>3. f = calls[Len(calls) - 1]
      BY <1>1, <2>3, <3>2
    <3>4. g.n = f.n /\ g.exp = f.exp /\ g.rs = Append(f.rs, r)
      BY <1>1, <1>4, <2>3, <3>1, <3>3, Answered
    <3>5. f.rs \in Seq(Result) /\ Len(f.rs) \in Nat
      BY <1>2, <2>1, <3>2, ActivationType
    <3>6. PICK k : k = Len(f.rs)
      OBVIOUS
    <3>7. /\ Len(g.rs) = k + 1 /\ g.rs[k + 1] = r /\ \A q \in 1 .. k : g.rs[q] = f.rs[q]
      BY <3>4, <3>5, <3>6, AppendProperties
    <3>8. k \in Nat /\ i \in 1 .. k + 1
      BY <1>4, <3>5, <3>6, <3>7
    <3>9. CASE i = k + 1
      <4>1. i # 1 => g.rs[1] = f.rs[1]
        BY <3>7, <3>8, <3>9
      <4>2. g.rs[i] = r /\ i = Len(f.rs) + 1
        BY <3>6, <3>7, <3>9
      <4> QED BY <1>1, <3>1, <3>3, <3>4, <4>1, <4>2, NewAnswer
    <3>10. CASE i # k + 1
      <4>1. i \in 1 .. k /\ (i # 1 => 1 \in 1 .. k)
        BY <3>8, <3>10
      <4>2. g.rs[i] = f.rs[i] /\ (i # 1 => g.rs[1] = f.rs[1])
        BY <3>7, <4>1
      <4>3. i \in 1 .. Len(calls[j].rs)
        BY <3>2, <3>6, <4>1
      <4> QED BY <1>3, <2>1, <3>2, <3>4, <4>2, <4>3
    <3> QED BY <3>9, <3>10
  <2> QED BY <1>2, <2>2, <2>3
<1> QED BY <1>2, <1>4

LEMMA DeclSound ==
  ASSUME prog' = prog, NEW i, \A c : c = prog[i] => Sound(c)',
         IsFunc(i) /\ Nodes[prog[i]].ty # TVoid => MustReturn(prog[i])
  PROVE  SoundDecl(i)'
BY DEF SoundDecl, IsFunc

LEMMA SoundDeclStays ==
  ASSUME prog \in Programs, prog' = prog, Grown, NEW i, NEW c \in NodeId, SoundDecl(i), c = prog[i], Kept(c)
  PROVE  SoundDecl(i)'
<1>1. Sound(c) /\ (IsFunc(i) /\ Nodes[prog[i]].ty # TVoid => MustReturn(prog[i]))
  BY DEF SoundDecl
<1>2. \A q : q = c => Sound(q)'
  BY <1>1, SoundStays
<1>3. \A q : q = prog[i] => Sound(q)'
  BY <1>2
<1>4. \A q : q = i => SoundDecl(q)'
  BY <1>1, <1>3 DEF SoundDecl, IsFunc
<1> QED BY <1>4

LEMMA PopDecls ==
  ASSUME TypeInv, NestInv, JudgeInv, calls # <<>>, NEW r, calls' = Popped(r),
         UNCHANGED <<prog, item>>, HandsOver(r)
  PROVE  \A i \in 1 .. Walked' : SoundDecl(i)'
<1>1. /\ pass = 2 /\ Len(calls) \in Nat \ {0} /\ Top = calls[Len(calls)] /\ prog \in Programs /\ Grown
      /\ Here = Nodes[Top.n] /\ Len(calls') = Len(calls) - 1 /\ item \in Nat \ {0, 1}
      /\ calls[1].n = prog[item - 1] /\ errors = <<>>
  <2>1. pass = 2 /\ Len(calls) \in Nat \ {0} /\ Top = calls[Len(calls)] /\ Here = Nodes[Top.n]
    BY TopType
  <2>2. Len(calls') = Len(calls) - 1
    BY Answered
  <2>3. calls[1].n = prog[item - 1] /\ item \in Nat \ {0, 1}
    <3>1. item - 1 \in 1 .. Len(prog) /\ calls[1].n = prog[item - 1]
      BY OuterActivation
    <3>2. item \in 1 .. Len(prog) + 1 /\ Len(prog) \in Nat
      BY TypeParts
    <3> QED BY <3>1, <3>2
  <2>4. prog \in Programs
    BY TypeOKParts DEF TypeInv
  <2> QED BY <2>1, <2>2, <2>3, <2>4 DEF HandsOver
<1>2. ASSUME NEW i \in 1 .. item - 2 PROVE SoundDecl(i)'
  <2>1. Walked = item - 2
    BY DEF Walked
  <2>2. SoundDecl(i)
    BY <1>1, <1>2, <2>1 DEF JudgeInv
  <2>3. PICK c : c = prog[i]
    OBVIOUS
  <2>4. c \in NodeId /\ Top.n \notin Below(c)
    BY <1>2, <2>3, ApartDecl
  <2>5. Kept(c)
    BY <2>4 DEF HandsOver
  <2>6. prog \in Programs /\ prog' = prog /\ Grown
    BY <1>1
  <2> QED BY <2>2, <2>3, <2>4, <2>5, <2>6, SoundDeclStays
<1>3. CASE Len(calls) = 1
  <2>1. calls' = <<>>
    <3>1. calls' = [j \in 1 .. Len(calls) - 1 |-> calls'[j]]
      BY Answered
    <3> QED BY <1>3, <3>1
  <2>2. Walked' = item - 1
    BY <1>1, <2>1 DEF Walked
  <2>3. PICK k : k = item - 1
    OBVIOUS
  <2>4. Top.n = prog[k] /\ Here = Nodes[prog[k]]
    BY <1>1, <1>3, <2>3
  <2>5. \A c : c = prog[k] => Sound(c)'
    BY <2>4 DEF HandsOver
  <2>6. IsFunc(k) /\ Nodes[prog[k]].ty # TVoid => MustReturn(prog[k])
    BY <2>4 DEF HandsOver, IsFunc
  <2>7. SoundDecl(k)'
    BY <2>5, <2>6, DeclSound
  <2>8. \A i \in 1 .. item - 1 : i = item - 1 \/ i \in 1 .. item - 2
    BY <1>1
  <2> QED BY <1>2, <2>2, <2>3, <2>7, <2>8
<1>4. CASE Len(calls) # 1
  <2>1. calls' # <<>>
    BY <1>1, <1>4
  <2>2. Walked' = item - 2
    BY <2>1 DEF Walked
  <2> QED BY <1>2, <2>2
<1> QED BY <1>3, <1>4

LEMMA PopJudge ==
  ASSUME TypeInv, NestInv, JudgeInv, calls # <<>>, NEW r, calls' = Popped(r),
         UNCHANGED <<prog, pass, item, functions>>, errors' = <<>> => HandsOver(r)
  PROVE  JudgeInv'
<1> SUFFICES ASSUME errors' = <<>> PROVE JudgeInv'
  BY DEF JudgeInv
<1>1. HandsOver(r) /\ pass' = 2
  BY TopType
<1>2. \A j \in 1 .. Len(calls') : \A i \in 1 .. Len(calls'[j].rs) : \A g : g = calls'[j] => SoundAnswer(g, i)'
  BY <1>1, PopAnswers
<1>3. (\A j \in 1 .. Len(calls) : \A i \in 1 .. Len(calls[j].rs) : SoundAnswer(calls[j], i))'
  BY <1>2 DEF SoundAnswer
<1>4. \A i \in 1 .. Walked' : SoundDecl(i)'
  BY <1>1, PopDecls
<1>5. (\A i \in 1 .. Walked : SoundDecl(i))'
  BY <1>4
<1> QED BY <1>1, <1>3, <1>5 DEF JudgeInv

(***************************************************************************)
(* What an expression enters as it returns is sound.                       *)
(***************************************************************************)
\* Without an error, no expression gives up.
LEMMA TopGoesOn ==
  ASSUME TypeInv, SilenceInv, CheckExpr, errors' = <<>> PROVE ~GivesUp(Top) /\ Len(Top.rs) = Len(Here.kids)
<1>1. calls # <<>> /\ Complete(Top) /\ Here.k \in ExprKind
  BY DEF CheckExpr, Walking
<1>2. Activation(Top) /\ Here = Nodes[Top.n]
  BY <1>1, TopType
<1>3. Report(Top) = <<>> /\ \A i \in 1 .. Len(Top.rs) : Top.rs[i] # None
  BY TopSpeaks
<1>4. ~(Len(Top.rs) = 1 /\ Top.rs[1] = None)
  BY <1>3
<1>5. ~(Here.k = "ArrayLiteral" /\ Top.exp # None /\ ~IsArray(Top.exp))
  <2> SUFFICES ASSUME Here.k = "ArrayLiteral" PROVE Top.exp = None \/ IsArray(Top.exp)
    OBVIOUS
  <2>1. ~BadTarget(Here)
    BY DEF BadTarget, HasTarget
  <2>2. ReportExpr(Top, Here) =
          Said(IF Top.exp = None THEN Here.kids = <<>> ELSE ~IsArray(Top.exp), "TypeMismatch")
    BY <2>1 DEF ReportExpr
  <2>3. ReportExpr(Top, Here) = <<>>
    BY <1>1, <1>2, <1>3, NothingReported
  <2> QED BY <2>2, <2>3, SaidNothing
<1>6. ~GivesUp(Top)
  BY <1>2, <1>4, <1>5 DEF GivesUp
<1> QED BY <1>1, <1>2, <1>6 DEF Complete

\* Its target is a place, and its callee takes its arguments.
LEMMA TopIsFine ==
  ASSUME TypeInv, SilenceInv, CheckExpr, errors' = <<>> PROVE ~ReportsAtOnce(Here)
<1>1. calls # <<>> /\ Here.k \in ExprKind
  BY DEF CheckExpr, Walking
<1>2. Here = Nodes[Top.n] /\ Top = calls[Len(calls)] /\ Len(calls) \in 1 .. Len(calls)
  BY <1>1, TopType, Places
<1>3. errors = <<>> /\ Report(Top) = <<>>
  BY TopSpeaks
<1>4. CASE Top.rs # <<>>
  BY <1>2, <1>3, <1>4 DEF SilenceInv, BegunInv, Begun
<1>5. CASE Top.rs = <<>>
  <2>1. ReportExpr(Top, Here) = <<>>
    BY <1>1, <1>2, <1>3, NothingReported
  <2>2. ~BadTarget(Here)
    <3>1. BadTarget(Here) => Said(Top.rs = <<>>, "InvalidAssignTarget") = <<>>
      BY <2>1 DEF ReportExpr
    <3> QED BY <1>5, <3>1, SaidNothing
  <2>3. Here.k = "Call" => CallError(Here) = <<>>
    <3> SUFFICES ASSUME Here.k = "Call" PROVE CallError(Here) = <<>>
      OBVIOUS
    <3>1. ReportExpr(Top, Here) = IF Top.rs = <<>> THEN CallError(Here) ELSE <<>>
      BY <2>2 DEF ReportExpr
    <3> QED BY <1>5, <2>1, <3>1
  <2> QED BY <2>2, <2>3 DEF ReportsAtOnce
<1> QED BY <1>4, <1>5

\* The tables it leaves.
LEMMA TopEnters ==
  ASSUME TypeInv, SilenceInv, SymbolsInv, CheckExpr, errors' = <<>>
  PROVE  /\ TypeFrom(Top) \in Type
         /\ Top.n \in DOMAIN types' /\ types'[Top.n] = TypeFrom(Top)
         /\ \A m \in DOMAIN types : m \in DOMAIN types' /\ (m # Top.n => types'[m] = types[m])
         /\ \A m \in DOMAIN var_refs : m \in DOMAIN var_refs' /\ (m # Top.n => var_refs'[m] = var_refs[m])
         /\ Here.k = "Ident" => /\ Top.n \in DOMAIN var_refs' /\ var_refs'[Top.n] = Resolve(Here.name).id
                                /\ Resolve(Here.name).ty = TypeFrom(Top) /\ Resolve(Here.name) # Unknown
                                /\ Declares(Resolve(Here.name), Here.name)
         /\ declared' = declared
<1> DEFINE t == TypeFrom(Top)  id == Resolve(Here.name).id
<1>1. /\ calls # <<>> /\ Complete(Top) /\ Here.k \in ExprKind /\ declared' = declared
      /\ types' = IF t # None THEN Insert(types, Top.n, t) ELSE types
      /\ var_refs' = IF Here.k = "Ident" /\ t # None THEN Insert(var_refs, Top.n, id) ELSE var_refs
  BY DEF CheckExpr, Walking
<1>2. Top.n \in NodeId /\ Here = Nodes[Top.n] /\ Here.name \in Name /\ Activation(Top) /\ FunctionsOK /\ ScopesOK
  BY <1>1, TopType, NodeType, Okays
<1>3. t # None
  BY TopSpeaks, AgainstType
<1>4. t \in Type
  <2>1. t \in Type \cup {None}
    BY <1>1, <1>2, RuleType
  <2> QED BY <1>3, <2>1
<1>5. ASSUME Here.k = "Ident" PROVE Resolve(Here.name).ty = t /\ Resolve(Here.name) # Unknown
  <2>1. ~BadTarget(Here)
    BY <1>5 DEF BadTarget, HasTarget
  <2>2. t = Resolve(Here.name).ty
    BY <1>2, <1>5, <2>1 DEF TypeFrom
  <2> QED BY <1>3, <2>2 DEF Unknown
<1>6. Here.k = "Ident" => Declares(Resolve(Here.name), Here.name)
  BY <1>2, <1>5, ResolveDeclares
<1> HIDE DEF t, id
<1>7. /\ Top.n \in DOMAIN types' /\ types'[Top.n] = t
      /\ \A m \in DOMAIN types : m \in DOMAIN types' /\ (m # Top.n => types'[m] = types[m])
  BY <1>1, <1>3 DEF Insert
<1>8. Here.k # "Ident" => var_refs' = var_refs
  BY <1>1
<1>9. Here.k = "Ident" => var_refs' = Insert(var_refs, Top.n, id)
  BY <1>1, <1>3
<1>10. Here.k = "Ident" => Top.n \in DOMAIN var_refs' /\ var_refs'[Top.n] = id
  BY <1>9 DEF Insert
<1>11. \A m \in DOMAIN var_refs : m \in DOMAIN var_refs' /\ (m # Top.n => var_refs'[m] = var_refs[m])
  BY <1>8, <1>9 DEF Insert
<1>12. Here.k = "Ident" => /\ Top.n \in DOMAIN var_refs' /\ var_refs'[Top.n] = Resolve(Here.name).id
                           /\ Resolve(Here.name).ty = t /\ Resolve(Here.name) # Unknown
                           /\ Declares(Resolve(Here.name), Here.name)
  BY <1>5, <1>6, <1>10 DEF id
<1> QED BY <1>1, <1>4, <1>7, <1>11, <1>12 DEF t

LEMMA TopFollows ==
  ASSUME TypeInv, SilenceInv, SymbolsInv, JudgeInv, CheckExpr, errors' = <<>>
  PROVE  \A f, ty : f = Top /\ ty = types' => Followed(f, ty)
<1>1. PICK f : f = Top
  OBVIOUS
<1>2. PICK ty : ty = types'
  OBVIOUS
<1>3. calls # <<>> /\ Here.k \in ExprKind
  BY DEF CheckExpr, Walking
<1>4. Activation(f) /\ Here = Nodes[f.n] /\ f.n \in NodeId /\ f = calls[Len(calls)] /\ Len(calls) \in 1 .. Len(calls)
  BY <1>1, <1>3, TopType, Places
<1>5. Len(f.rs) = Len(Nodes[f.n].kids) /\ Len(f.rs) \in Nat
  BY <1>1, <1>4, TopGoesOn, ActivationType
<1>6. errors = <<>> /\ Report(f) = <<>> /\ \A i \in 1 .. Len(f.rs) : f.rs[i] # None
  <2>1. errors = <<>> /\ Report(Top) = <<>> /\ \A i \in 1 .. Len(Top.rs) : Top.rs[i] # None
    BY TopSpeaks
  <2> QED BY <1>1, <2>1
<1>7. ~BadTarget(Nodes[f.n]) /\ (Nodes[f.n].k = "Call" => CallError(Nodes[f.n]) = <<>>)
  <2>1. ~ReportsAtOnce(Here)
    BY TopIsFine
  <2> QED BY <1>4, <2>1 DEF ReportsAtOnce
<1>8. TypeFrom(f) \in Type /\ ty[f.n] = TypeFrom(f)
  <2>1. TypeFrom(Top) \in Type /\ types'[Top.n] = TypeFrom(Top)
    BY TopEnters
  <2> QED BY <1>1, <1>2, <2>1
<1>9. ASSUME NEW i \in 1 .. Len(f.rs)
      PROVE  /\ f.rs[i] \in Type /\ ty[Nodes[f.n].kids[i]] = f.rs[i]
             /\ Expected(f, i) # None => f.rs[i] = Expected(f, i)
  <2>1. f.rs[i] \in Type
    BY <1>3, <1>4, <1>6, ExprAnswers
  <2>2. PICK c : c = Nodes[f.n].kids[i]
    OBVIOUS
  <2>3. i \in 1 .. Len(Nodes[f.n].kids)
    BY <1>5
  <2>4. c \in NodeId /\ c # f.n /\ Nodes[c].k \in ExprKind /\ c \in Below(c)
    <3>1. c \in NodeId /\ c < f.n /\ f.n \in Nat
      BY <1>4, <2>2, <2>3, KidsFirst
    <3>2. Nodes[c].k \in ExprKind
      BY <1>3, <1>4, <2>2, <2>3, KidKinds
    <3> QED BY <3>1, <3>2, BelowClosed
  <2>5. SoundAnswer(f, i)
    BY <1>4, <1>6 DEF JudgeInv
  <2>6. Sound(c) /\ f.rs[i] = types[c] /\ (Expected(f, i) # None => f.rs[i] = Expected(f, i))
    BY <2>2, <2>4, <2>5 DEF SoundAnswer
  <2>7. c \in DOMAIN types
    BY <2>4, <2>6 DEF Sound, Judged
  <2>8. types'[c] = types[c]
    BY <1>1, <2>4, <2>7, TopEnters
  <2> QED BY <1>2, <2>1, <2>2, <2>6, <2>8
<1>10. Followed(f, ty)
  BY <1>3, <1>4, <1>5, <1>6, <1>7, <1>8, <1>9 DEF Followed
<1> QED BY <1>1, <1>2, <1>10

\* An identifier means what it resolves to.
LEMMA TopMeans ==
  ASSUME TypeInv, SilenceInv, SymbolsInv, ScopingInv, CheckExpr, errors' = <<>>, Here.k = "Ident"
  PROVE  \A x, ss : x = Here.name /\ ss = Sc(Top.n) =>
           /\ Means(ss, x) \in NodeId /\ Means(ss, x) = DeclOf(Resolve(x))
           /\ Resolve(x).ty = Nodes[Means(ss, x)].ty
<1>1. PICK x : x = Here.name
  OBVIOUS
<1>2. PICK ss : ss = Sc(Top.n)
  OBVIOUS
<1>3. calls # <<>> /\ Complete(Top)
  BY DEF CheckExpr, Walking
<1>4. /\ Top.n \in NodeId /\ Here = Nodes[Top.n] /\ Top = calls[Len(calls)] /\ Len(calls) \in 1 .. Len(calls)
      /\ x \in Name /\ Here \in Node /\ Done \in Nat
  BY <1>1, <1>3, TopType, NodeType, Places
<1>5. ss \in Seq(Decls) \ {<<>>} /\ SameScopes(scopes, After(ss, Here, Done))
  BY <1>2, <1>3, <1>4 DEF ScopingInv
<1>6. Binders(Here, Done) = {}
  BY <1>4, NoBinders
<1>7. After(ss, Here, Done) = ss
  BY <1>4, <1>5, <1>6, AfterNothing
<1>8. SameScopes(scopes, ss)
  BY <1>5, <1>7
<1>9. Resolve(x) # Unknown /\ Declares(Resolve(x), x)
  BY <1>1, TopEnters
<1>10. Means(ss, x) = DeclOf(Resolve(x)) /\ Means(ss, x) \in NodeId
  BY <1>4, <1>5, <1>8, <1>9, ResolveMeans
<1>11. DeclOf(Resolve(x)) = declared[Resolve(x).id + 1]
  BY <1>9 DEF DeclOf
<1>12. Resolve(x).ty = Nodes[Means(ss, x)].ty
  BY <1>9, <1>10, <1>11 DEF Declares
<1> QED BY <1>1, <1>2, <1>10, <1>12

LEMMA TopRule ==
  ASSUME TypeInv, SilenceInv, SymbolsInv, ScopingInv, HoistInv, PassedInv, JudgeInv, CheckExpr, errors' = <<>>
  PROVE  \A n, ty, ss : n = Top.n /\ ty = types' /\ ss = Sc(Top.n) => ExprRule(ty, prog, ss, n)
<1>1. PICK f : f = Top
  OBVIOUS
<1>2. PICK ty : ty = types'
  OBVIOUS
<1>3. PICK ss : ss = Sc(Top.n)
  OBVIOUS
<1>4. PICK p : p = prog
  OBVIOUS
<1>5. Followed(f, ty)
  BY <1>1, <1>2, TopFollows
<1>6. calls # <<>> /\ Here.k \in ExprKind
  BY DEF CheckExpr, Walking
<1>7. Here = Nodes[f.n] /\ f.n \in NodeId /\ pass = 2
  BY <1>1, <1>6, TopType
<1>8. errors = <<>> /\ Report(Top) = <<>>
  BY TopSpeaks
<1>9. CASE Here.k \in {"Binary", "Unary", "Assign", "CompoundAssign", "IncDec"}
  <2>1. ExprRule(ty, p, ss, f.n)
    BY <1>5, <1>7, <1>9, OperatorsFollow
  <2> QED BY <1>1, <1>2, <1>3, <1>4, <2>1
<1>10. CASE Here.k \in {"Ident", "IntLiteral", "FloatLiteral", "BoolLiteral", "StringLiteral", "Null"}
  <2>1. ASSUME Here.k = "Ident", NEW x, x = Nodes[f.n].name
        PROVE  Means(ss, x) # NoDecl /\ Resolve(x).ty = Nodes[Means(ss, x)].ty
    <3>1. Means(ss, x) \in NodeId /\ Resolve(x).ty = Nodes[Means(ss, x)].ty
      BY <1>3, <1>7, <2>1, TopMeans
    <3> QED BY <3>1, AstAssumption DEF NoDecl
  <2>2. ExprRule(ty, p, ss, f.n)
    BY <1>5, <1>7, <1>10, <2>1, LeavesFollow
  <2> QED BY <1>1, <1>2, <1>3, <1>4, <2>2
<1>11. CASE Here.k \in {"Ternary", "Index", "FieldAccess", "ArrayCreation"}
  <2>1. ASSUME Here.k = "Ternary" PROVE f.rs[1] = TBool
    <3>1. PICK c : c = Condition(Here)
      OBVIOUS
    <3>2. c = 1
      BY <2>1, <3>1 DEF Condition
    <3>3. Done = 3
      <4>1. Len(Here.kids) = 3
        BY <1>7, <2>1, KidCounts
      <4> QED BY <4>1, TopGoesOn DEF Done
    <3>4. c > 0 /\ c <= Done
      BY <3>2, <3>3
    <3>5. Top.rs[c] = TBool
      BY <1>6, <1>8, <3>1, <3>4, ConditionPassed
    <3> QED BY <1>1, <3>2, <3>5
  <2>2. ExprRule(ty, p, ss, f.n)
    BY <1>5, <1>7, <1>11, <2>1, AccessFollows
  <2> QED BY <1>1, <1>2, <1>3, <1>4, <2>2
<1>12. CASE Here.k = "ArrayLiteral"
  <2>1. ExprRule(ty, p, ss, f.n)
    BY <1>5, <1>7, <1>12, ArrayLiteralFollows
  <2> QED BY <1>1, <1>2, <1>3, <1>4, <2>1
<1>13. CASE Here.k = "Call"
  <2>1. ExprRule(ty, prog, ss, f.n)
    BY <1>5, <1>7, <1>8, <1>13, CallFollows
  <2> QED BY <1>1, <1>2, <1>3, <2>1
<1> QED BY <1>6, <1>9, <1>10, <1>11, <1>12, <1>13 DEF ExprKind

LEMMA TopJudged ==
  ASSUME TypeInv, SilenceInv, SymbolsInv, ScopingInv, HoistInv, PassedInv, JudgeInv, CheckExpr, errors' = <<>>
  PROVE  \A n : n = Top.n => Judged(types', prog', n) /\ Meant(n)'
<1>1. PICK n : n = Top.n
  OBVIOUS
<1>2. calls # <<>> /\ Here.k \in ExprKind /\ prog' = prog
  BY DEF CheckExpr, Walking
<1>3. n \in NodeId /\ Here = Nodes[n]
  BY <1>1, <1>2, TopType
<1>4. Judged(types', prog', n)
  <2>1. PICK ty : ty = types'
    OBVIOUS
  <2>2. PICK ss : ss = Sc(Top.n)
    OBVIOUS
  <2>3. ExprRule(ty, prog, ss, n)
    BY <1>1, <2>1, <2>2, TopRule
  <2>4. n \in DOMAIN ty /\ ty[n] \in Type
    BY <1>1, <2>1, TopEnters
  <2>5. ss = ScopesOf(prog)[n]
    BY <1>1, <2>2 DEF Sc
  <2>6. ExprRule(ty, prog, ScopesOf(prog)[n], n)
    BY <2>3, <2>5
  <2>7. Nodes[n].k \notin StmtKind
    BY <1>2, <1>3, KindsApart
  <2>8. \A ret : StmtRule(ty, ret, n)
    BY <2>7 DEF StmtRule, StmtKind
  <2>9. Judged(ty, prog, n)
    BY <2>4, <2>6, <2>8 DEF Judged
  <2> QED BY <1>2, <2>1, <2>9
<1>5. Meant(n)'
  <2> SUFFICES ASSUME Here.k = "Ident" PROVE Meant(n)'
    BY <1>3 DEF Meant
  <2>1. PICK x : x = Here.name
    OBVIOUS
  <2>2. PICK ss : ss = Sc(Top.n)
    OBVIOUS
  <2>3. Means(ss, x) = DeclOf(Resolve(x))
    BY <2>1, <2>2, TopMeans
  <2>4. /\ n \in DOMAIN var_refs' /\ var_refs'[n] = Resolve(x).id /\ Resolve(x) # Unknown
        /\ Declares(Resolve(x), x) /\ declared' = declared
    BY <1>1, <2>1, TopEnters
  <2>5. DeclOf(Resolve(x)) = declared[Resolve(x).id + 1]
    BY <2>4 DEF DeclOf
  <2>6. Sc(n)' = ss
    BY <1>1, <1>2, <2>2 DEF Sc
  <2>7. Nodes[n].name = x
    BY <1>3, <2>1
  <2> QED BY <2>3, <2>4, <2>5, <2>6, <2>7 DEF Meant, Declares
<1> QED BY <1>1, <1>4, <1>5

\* What has been checked below the innermost activation stays sound.
LEMMA KidsStay ==
  ASSUME TypeInv, NestInv, JudgeInv, errors = <<>>, calls # <<>>, prog' = prog, Grown,
         \A c \in NodeId : Top.n \notin Below(c) => Kept(c), Len(Top.rs) = Len(Here.kids)
  PROVE  \A i \in 1 .. Len(Here.kids) : \A q : q = Here.kids[i] => Sound(q)'
<1>1. /\ Here = Nodes[Top.n] /\ Top = calls[Len(calls)] /\ Len(calls) \in 1 .. Len(calls) /\ prog \in Programs
  BY TopType, Places, TypeOKParts DEF TypeInv
<1>2. ASSUME NEW i \in 1 .. Len(Here.kids), NEW c, c = Here.kids[i] PROVE Sound(c)'
  <2>1. PICK j : j = Len(calls)
    OBVIOUS
  <2>2. PICK f : f = Top
    OBVIOUS
  <2>3. f = calls[j] /\ j \in 1 .. Len(calls) /\ i \in 1 .. Len(calls[j].rs) /\ c = Nodes[calls[j].n].kids[i]
    BY <1>1, <1>2, <2>1, <2>2
  <2>4. c \in NodeId /\ Top.n \notin Below(c)
    BY <2>3, Apart
  <2>5. SoundAnswer(f, i)
    BY <2>3 DEF JudgeInv
  <2>6. Sound(c)
    BY <2>3, <2>5 DEF SoundAnswer
  <2>7. Kept(c)
    BY <2>4
  <2> QED BY <1>1, <2>4, <2>6, <2>7, SoundStays
<1> QED BY <1>2

LEMMA CheckExprJudge ==
  ASSUME TypeInv, NestInv, SilenceInv, SymbolsInv, ScopingInv, HoistInv, PassedInv, JudgeInv, CheckExpr
  PROVE  JudgeInv'
<1>1. PICK r : r = Against(Top, TypeFrom(Top))
  OBVIOUS
<1>2. /\ calls # <<>> /\ Here.k \in ExprKind /\ calls' = Popped(r)
      /\ UNCHANGED <<prog, pass, item, functions, declared>>
  BY <1>1 DEF CheckExpr, Walking
<1>3. ASSUME errors' = <<>> PROVE HandsOver(r)
  <2>1. errors = <<>> /\ Against(Top, TypeFrom(Top)) # None
    BY <1>3, TopSpeaks
  <2>2. Grown
    BY <1>2, TypeParts DEF Grown
  <2>3. ASSUME NEW c \in NodeId, Top.n \notin Below(c) PROVE Kept(c)
    BY <1>3, <2>3, TopEnters DEF Kept
  <2>4. \A n : n = Top.n => Sound(n)'
    <3>1. PICK n : n = Top.n
      OBVIOUS
    <3>2. n \in NodeId /\ Here = Nodes[n]
      BY <1>2, <3>1, TopType
    <3>3. Len(Top.rs) = Len(Here.kids)
      BY <1>3, TopGoesOn
    <3>4. \A i \in 1 .. Len(Here.kids) : \A q : q = Here.kids[i] => Sound(q)'
      BY <1>2, <2>1, <2>2, <2>3, <3>3, KidsStay
    <3>5. \A i \in 1 .. Len(Nodes[n].kids) : \A q : q = Nodes[n].kids[i] => Sound(q)'
      BY <3>2, <3>4
    <3>6. Judged(types', prog', n) /\ \A q : q = n => Meant(q)'
      BY <1>3, <3>1, TopJudged
    <3>7. \A q : q = n => Sound(q)'
      BY <3>2, <3>5, <3>6, SoundUp
    <3> QED BY <3>1, <3>7
  <2>5. r = TypeFrom(Top) /\ (Top.exp # None => r = Top.exp)
    BY <1>1, <2>1 DEF Against
  <2>6. r = types'[Top.n]
    BY <1>3, <2>5, TopEnters
  <2>7. Here.k # "Func"
    BY <1>2, KindsApart
  <2> QED BY <1>2, <2>1, <2>2, <2>3, <2>4, <2>5, <2>6, <2>7 DEF HandsOver
<1> QED BY <1>2, <1>3, PopJudge

(***************************************************************************)
(* A statement that returns has followed the rules.                        *)
(***************************************************************************)
\* All its children have been checked.
LEMMA StmtAnswers ==
  ASSUME TypeInv, JudgeInv, errors = <<>>, calls # <<>>, Here.k \notin ExprKind, Complete(Top)
  PROVE  /\ Len(Top.rs) = Len(Here.kids) /\ Done = Len(Here.kids)
         /\ \A i \in 1 .. Len(Here.kids) : \A f : f = Top => SoundAnswer(f, i)
<1>1. Here = Nodes[Top.n] /\ Top = calls[Len(calls)] /\ Len(calls) \in 1 .. Len(calls)
  BY TopType, Places
<1>2. ~GivesUp(Top)
  BY <1>1 DEF GivesUp, ExprKind
<1>3. Len(Top.rs) = Len(Here.kids)
  BY <1>1, <1>2 DEF Complete
<1>4. \A i \in 1 .. Len(Top.rs) : \A f : f = Top => SoundAnswer(f, i)
  BY <1>1 DEF JudgeInv, SoundAnswer
<1> QED BY <1>3, <1>4 DEF Done

\* The answer of a child that is a statement.
LEMMA StmtReturns ==
  ASSUME TypeInv, JudgeInv, errors = <<>>, calls # <<>>, Here.k \notin ExprKind, Complete(Top)
  PROVE  ReturnsOnAllPaths(Top) <=> MustReturn(Top.n)
<1>1. PICK n : n = Top.n
  OBVIOUS
<1>2. PICK f : f = Top
  OBVIOUS
<1>3. PICK nd : nd = Nodes[n]
  OBVIOUS
<1>4. n \in NodeId /\ f.n = n /\ Here = nd /\ Activation(f)
  BY <1>1, <1>2, <1>3, TopType
<1>5. PICK m : m = Len(nd.kids)
  OBVIOUS
<1>6. Len(f.rs) = m /\ \A i \in 1 .. m : SoundAnswer(f, i)
  BY <1>2, <1>4, <1>5, StmtAnswers
<1>7. m \in Nat /\ DOMAIN f.rs = 1 .. m
  BY <1>4, <1>6, ActivationType
<1>8. ASSUME NEW i \in 1 .. m, Nodes[nd.kids[i]].k \in StmtKind
      PROVE  f.rs[i] = Returns <=> MustReturn(nd.kids[i])
  <2>1. Nodes[nd.kids[i]].k \notin ExprKind
    BY <1>8, KindsApart
  <2> QED BY <1>3, <1>4, <1>6, <2>1 DEF SoundAnswer
<1>9. MustReturn(n) <=>
           \/ nd.k = "Return"
           \/ nd.k \in {"Block", "Func"} /\ \E i \in 1 .. m : MustReturn(nd.kids[i])
           \/ nd.k = "If" /\ m = 3 /\ MustReturn(nd.kids[2]) /\ MustReturn(nd.kids[3])
  BY <1>3, <1>4, <1>5, MustReturnStep
<1>10. ReturnsOnAllPaths(f) <=>
           \/ nd.k = "Return"
           \/ nd.k \in {"Block", "Func"} /\ AnyOf(f.rs, Returns)
           \/ nd.k = "If" /\ m = 3 /\ f.rs[2] = Returns /\ f.rs[3] = Returns
  BY <1>3, <1>4, <1>6 DEF ReturnsOnAllPaths
<1>11. nd.k \in {"Block", "Func"} => (AnyOf(f.rs, Returns) <=> \E i \in 1 .. m : MustReturn(nd.kids[i]))
  <2> SUFFICES ASSUME nd.k \in {"Block", "Func"}
               PROVE  AnyOf(f.rs, Returns) <=> \E i \in 1 .. m : MustReturn(nd.kids[i])
    OBVIOUS
  <2>1. \A i \in 1 .. m : Nodes[nd.kids[i]].k \in StmtKind
    BY <1>3, <1>4, <1>5, StmtKids
  <2>2. \A i \in 1 .. m : f.rs[i] = Returns <=> MustReturn(nd.kids[i])
    BY <1>8, <2>1
  <2> QED BY <1>7, <2>2 DEF AnyOf
<1>12. CASE nd.k \in {"Block", "Func"}
  <2>1. MustReturn(n) <=> \E i \in 1 .. m : MustReturn(nd.kids[i])
    BY <1>9, <1>12
  <2>2. ReturnsOnAllPaths(f) <=> AnyOf(f.rs, Returns)
    BY <1>10, <1>12
  <2> QED BY <1>1, <1>2, <1>11, <1>12, <2>1, <2>2
<1>13. CASE nd.k = "If"
  <2>1. MustReturn(n) <=> m = 3 /\ MustReturn(nd.kids[2]) /\ MustReturn(nd.kids[3])
    BY <1>9, <1>13
  <2>2. ReturnsOnAllPaths(f) <=> m = 3 /\ f.rs[2] = Returns /\ f.rs[3] = Returns
    BY <1>10, <1>13
  <2>3. ASSUME m = 3 PROVE ReturnsOnAllPaths(f) <=> MustReturn(n)
    <3>1. Nodes[nd.kids[2]].k \in StmtKind /\ Nodes[nd.kids[3]].k \in StmtKind
      BY <1>3, <1>4, <1>5, <1>13, <2>3, StmtKids
    <3>2. 2 \in 1 .. m /\ 3 \in 1 .. m
      BY <2>3
    <3>3. f.rs[2] = Returns <=> MustReturn(nd.kids[2])
      BY <1>8, <3>1, <3>2
    <3>4. f.rs[3] = Returns <=> MustReturn(nd.kids[3])
      BY <1>8, <3>1, <3>2
    <3> QED BY <2>1, <2>2, <2>3, <3>3, <3>4, Zenon
  <2>4. m # 3 => (ReturnsOnAllPaths(f) <=> MustReturn(n))
    BY <2>1, <2>2
  <2> QED BY <1>1, <1>2, <2>3, <2>4
<1>14. CASE nd.k \notin {"Block", "Func", "If"}
  BY <1>1, <1>2, <1>9, <1>10, <1>14
<1> QED BY <1>12, <1>13, <1>14

LEMMA StmtRules ==
  ASSUME TypeInv, NestInv, SilenceInv, RetInv, PassedInv, JudgeInv, errors = <<>>, Report(Top) = <<>>,
         calls # <<>>, Here.k \notin ExprKind, Complete(Top)
  PROVE  \A n, ty : n = Top.n /\ ty = types => StmtRule(ty, RetOf(prog, n), n)
<1>1. PICK n : n = Top.n
  OBVIOUS
<1>2. PICK f : f = Top
  OBVIOUS
<1>3. PICK nd : nd = Nodes[n]
  OBVIOUS
<1>4. PICK ty : ty = types
  OBVIOUS
<1>5. PICK ret : ret = RetOf(prog, n)
  OBVIOUS
<1>6. /\ n \in NodeId /\ f.n = n /\ Here = nd /\ Activation(f) /\ nd.ty \in Type
      /\ f = calls[Len(calls)] /\ Len(calls) \in Nat \ {0}
  BY <1>1, <1>2, <1>3, TopType, NodeType
<1>7. PICK m : m = Len(nd.kids)
  OBVIOUS
<1>8. Len(f.rs) = m /\ Done = m /\ \A i \in 1 .. m : SoundAnswer(f, i)
  BY <1>2, <1>6, <1>7, StmtAnswers
<1>9. m \in Nat /\ DOMAIN nd.kids = 1 .. m
  BY <1>3, <1>6, <1>7, NodeType
<1>10. ASSUME NEW i \in 1 .. m, Nodes[nd.kids[i]].k \in ExprKind
       PROVE  ty[nd.kids[i]] = f.rs[i] /\ (Expected(f, i) # None => f.rs[i] = Expected(f, i))
  BY <1>3, <1>4, <1>6, <1>8, <1>10 DEF SoundAnswer
<1>11. /\ \A c : c = Condition(nd) => ~(c > 0 /\ Len(f.rs) = c /\ f.rs[c] \notin {None, TBool})
       /\ ReportStmt(f, nd) = <<>>
  <2>1. Report(f) = <<>>
    BY <1>2
  <2> QED BY <1>3, <1>6, <2>1, StmtReported
<1>12. CASE nd.k = "VarDecl"
  <2>1. ASSUME NEW i \in 1 .. m PROVE ty[nd.kids[i]] = nd.ty
    <3>1. Nodes[nd.kids[i]].k \in ExprKind
      BY <1>3, <1>6, <1>7, <1>12, KidKinds
    <3>2. Expected(f, i) = nd.ty
      BY <1>3, <1>6, <1>12 DEF Expected
    <3> QED BY <1>6, <1>10, <3>1, <3>2, BaseTypes
  <2> QED BY <1>1, <1>3, <1>4, <1>9, <1>12, <2>1 DEF StmtRule
<1>13. CASE nd.k = "Return"
  <2>1. f.exp = ret
    <3>1. Len(calls) # 1
      <4>1. Nodes[calls[1].n].k \in {"VarDecl", "Func"}
        BY OuterActivation
      <4> QED BY <1>3, <1>6, <1>13, <4>1
    <3>2. Len(calls) \in 2 .. Len(calls)
      BY <3>1, Places
    <3>3. nd.k \in StmtKind
      BY <1>13 DEF StmtKind
    <3>4. f.exp = Nodes[calls[1].n].ty
      BY <1>3, <1>6, <3>2, <3>3 DEF RetInv
    <3>5. /\ item - 1 \in 1 .. Len(prog) /\ calls[1].n = prog[item - 1] /\ prog \in Programs
          /\ n \in Below(prog[item - 1])
      BY <1>6, InProgram, Places
    <3>6. RetOf(prog, n) = Nodes[prog[item - 1]].ty
      BY <3>5, RetOfDecl
    <3> QED BY <1>5, <3>4, <3>5, <3>6
  <2>2. (nd.kids = <<>>) <=> (ret = TVoid)
    <3>1. ReportStmt(f, nd) = Said(Complete(f) /\ (nd.kids = <<>>) # (f.exp = TVoid), "TypeMismatch")
      BY <1>13 DEF ReportStmt
    <3>2. Complete(f)
      BY <1>2
    <3>3. ~(Complete(f) /\ (nd.kids = <<>>) # (f.exp = TVoid))
      BY <1>11, <3>1, SaidNothing
    <3> QED BY <2>1, <3>2, <3>3
  <2>3. ASSUME NEW i \in 1 .. m PROVE ty[nd.kids[i]] = ret
    <3>1. Nodes[nd.kids[i]].k \in ExprKind
      BY <1>3, <1>6, <1>7, <1>13, KidKinds
    <3>2. nd.kids # <<>>
      BY <1>7, <1>9, <2>3
    <3>3. f.exp # TVoid
      BY <2>1, <2>2, <3>2
    <3>4. Expected(f, i) = ret
      BY <1>3, <1>6, <1>13, <2>1, <3>3 DEF Expected
    <3>5. ret # None
      <4>1. item - 1 \in 1 .. Len(prog) /\ prog \in Programs /\ n \in Below(prog[item - 1])
        BY <1>6, InProgram, Places
      <4>2. ret = Nodes[prog[item - 1]].ty
        BY <1>5, <4>1, RetOfDecl
      <4>3. prog[item - 1] \in NodeId
        BY <4>1, ProgramNodes
      <4> QED BY <4>2, <4>3, NodeType, BaseTypes
    <3> QED BY <1>10, <3>1, <3>4, <3>5
  <2> QED BY <1>1, <1>3, <1>4, <1>5, <1>9, <1>13, <2>2, <2>3 DEF StmtRule
<1>14. CASE nd.k \in {"If", "While", "For"}
  <2>1. PICK c : c = Condition(nd)
    OBVIOUS
  <2>2. c = IF nd.k = "For" THEN 2 ELSE 1
    BY <1>14, <2>1 DEF Condition
  <2>3. c > 0 /\ c = Condition(Here)
    BY <1>6, <2>1, <2>2
  <2>4. c \in 1 .. Len(Nodes[n].kids) /\ Nodes[Nodes[n].kids[c]].k \in ExprKind
    BY <1>3, <1>6, <2>1, <2>3, ConditionKid
  <2>5. c \in 1 .. m /\ Nodes[nd.kids[c]].k \in ExprKind /\ c <= Done
    BY <1>3, <1>7, <1>8, <2>4
  <2>6. Top.rs[c] = TBool
    BY <2>3, <2>5, ConditionPassed
  <2>7. ty[nd.kids[c]] = TBool
    BY <1>2, <1>10, <2>5, <2>6
  <2> QED BY <1>1, <1>3, <1>4, <1>14, <2>2, <2>7 DEF StmtRule
<1>15. CASE nd.k \notin {"VarDecl", "Return", "If", "While", "For"}
  BY <1>1, <1>3, <1>4, <1>15 DEF StmtRule
<1> QED BY <1>12, <1>13, <1>14, <1>15

\* A statement or a function that returns without an error hands over what it should.
LEMMA StmtHandsOver ==
  ASSUME TypeInv, NestInv, SilenceInv, RetInv, PassedInv, JudgeInv, calls # <<>>, Here.k \notin ExprKind,
         Complete(Top), Log(Top.n, Report(Top)), errors' = <<>>,
         UNCHANGED <<prog, types, var_refs>>,
         NEW ds \in Seq(NodeId), declared' = declared \o ds,
         NEW r, r = Returns <=> ReturnsOnAllPaths(Top)
  PROVE  HandsOver(r)
<1>1. errors = <<>> /\ Report(Top) = <<>>
  BY TopLogs
<1>2. PICK n : n = Top.n
  OBVIOUS
<1>3. /\ n \in NodeId /\ Here = Nodes[n] /\ Top.n = n /\ prog \in Programs
      /\ Len(Top.rs) = Len(Here.kids)
  BY <1>1, <1>2, TopType, StmtAnswers, TypeOKParts DEF TypeInv
<1>4. Grown
  <2>1. declared \in Seq(NodeId)
    BY TypeParts
  <2> QED BY <2>1, DeclaredStay DEF Grown
<1>5. ASSUME NEW c \in NodeId PROVE Kept(c)
  BY DEF Kept
<1>6. \A q : q = n => Sound(q)'
  <2>1. \A c \in NodeId : Top.n \notin Below(c) => Kept(c)
    BY <1>5
  <2>2. \A i \in 1 .. Len(Here.kids) : \A q : q = Here.kids[i] => Sound(q)'
    BY <1>1, <1>3, <1>4, <2>1, KidsStay
  <2>3. \A i \in 1 .. Len(Nodes[n].kids) : \A q : q = Nodes[n].kids[i] => Sound(q)'
    BY <1>3, <2>2
  <2>4. StmtRule(types, RetOf(prog, n), n)
    BY <1>1, <1>3, StmtRules
  <2>5. Nodes[n].k \notin ExprKind /\ Nodes[n].k # "Ident"
    BY <1>3 DEF ExprKind
  <2>6. Judged(types', prog', n)
    BY <2>4, <2>5 DEF Judged
  <2>7. \A q : q = n => Meant(q)'
    BY <2>5 DEF Meant
  <2> QED BY <1>3, <2>3, <2>6, <2>7, SoundUp
<1>7. ReturnsOnAllPaths(Top) <=> MustReturn(Top.n)
  BY <1>1, StmtReturns
<1>8. ASSUME Here.k = "Func", Here.ty # TVoid PROVE MustReturn(Top.n)
  <2>1. PICK f : f = Top
    OBVIOUS
  <2>2. PICK nd : nd = Here
    OBVIOUS
  <2>3. ReportStmt(f, nd) = <<>>
    <3>1. Report(f) = <<>> /\ nd = Nodes[f.n] /\ nd.k \notin ExprKind
      BY <1>1, <1>3, <2>1, <2>2
    <3> QED BY <3>1, StmtReported
  <2>4. ReportStmt(f, nd) = Said(Complete(f) /\ nd.ty # TVoid /\ ~ReturnsOnAllPaths(f), "MissingReturn")
    BY <1>8, <2>2 DEF ReportStmt
  <2>5. ~(Complete(f) /\ nd.ty # TVoid /\ ~ReturnsOnAllPaths(f))
    BY <2>3, <2>4, SaidNothing
  <2>6. ReturnsOnAllPaths(Top)
    BY <1>8, <2>1, <2>2, <2>5
  <2> QED BY <1>7, <2>6
<1>9. \A c \in NodeId : Top.n \notin Below(c) => Kept(c)
  BY <1>5
<1>10. \A q : q = Top.n => Sound(q)'
  BY <1>3, <1>6
<1>11. r = Returns <=> MustReturn(Top.n)
  BY <1>7, Zenon
<1> QED BY <1>1, <1>4, <1>8, <1>9, <1>10, <1>11 DEF HandsOver

LEMMA DeclareLocalVarJudge ==
  ASSUME TypeInv, NestInv, SilenceInv, RetInv, PassedInv, JudgeInv, DeclareLocalVar PROVE JudgeInv'
<1>1. /\ calls # <<>> /\ Here.k = "VarDecl" /\ Complete(Top) /\ calls' = Popped(None)
      /\ Log(Top.n, Report(Top)) /\ declared' = Append(declared, Top.n)
      /\ UNCHANGED <<prog, pass, item, types, var_refs, functions>>
  BY DEF DeclareLocalVar, Walking
<1>2. Top.n \in NodeId /\ declared \in Seq(NodeId)
  BY <1>1, TopType, TypeParts
<1>3. PICK ds \in Seq(NodeId) : declared' = declared \o ds
  <2>1. Append(declared, Top.n) = declared \o <<Top.n>> /\ <<Top.n>> \in Seq(NodeId)
    BY <1>2, AppendOne
  <2> QED BY <1>1, <2>1, Zenon
<1>4. Here.k \notin ExprKind
  BY <1>1, KindsApart
<1>5. PICK r : r = None
  OBVIOUS
<1>6. r = Returns <=> ReturnsOnAllPaths(Top)
  <2>1. ~ReturnsOnAllPaths(Top)
    BY <1>1, TopType DEF ReturnsOnAllPaths
  <2>2. r # Returns
    BY <1>5, BaseTypes
  <2> QED BY <2>1, <2>2, Zenon
<1>7. errors' = <<>> => HandsOver(r)
  BY <1>1, <1>3, <1>4, <1>6, StmtHandsOver
<1>8. calls' = Popped(r)
  BY <1>1, <1>5
<1> QED BY <1>1, <1>7, <1>8, PopJudge

LEMMA CheckStmtJudge ==
  ASSUME TypeInv, NestInv, SilenceInv, RetInv, PassedInv, JudgeInv, CheckStmt PROVE JudgeInv'
<1>1. PICK r : r = IF ReturnsOnAllPaths(Top) THEN Returns ELSE None
  OBVIOUS
<1>2. /\ calls # <<>> /\ Here.k \in StmtKind \cup {"Func"} /\ Complete(Top) /\ calls' = Popped(r)
      /\ Log(Top.n, Report(Top)) /\ declared' = declared
      /\ UNCHANGED <<prog, pass, item, types, var_refs, functions>>
  BY <1>1 DEF CheckStmt, Walking
<1>3. PICK ds \in Seq(NodeId) : declared' = declared \o ds
  <2>1. declared = declared \o <<>> /\ <<>> \in Seq(NodeId)
    BY TypeParts
  <2> QED BY <1>2, <2>1
<1>4. Here.k \notin ExprKind
  BY <1>2, KindsApart
<1>5. r = Returns <=> ReturnsOnAllPaths(Top)
  <2>1. None # Returns
    BY BaseTypes
  <2>2. CASE ReturnsOnAllPaths(Top)
    BY <1>1, <2>2
  <2>3. CASE ~ReturnsOnAllPaths(Top)
    <3>1. r # Returns
      BY <1>1, <2>1, <2>3
    <3> QED BY <2>3, <3>1, Zenon
  <2> QED BY <2>2, <2>3
<1>6. errors' = <<>> => HandsOver(r)
  BY <1>2, <1>3, <1>4, <1>5, StmtHandsOver
<1> QED BY <1>2, <1>6, PopJudge

\* A step that leaves the tables leaves what was found sound.
LEMMA TablesStay ==
  ASSUME TypeInv, UNCHANGED <<prog, types, var_refs>>, Grown
  PROVE  /\ \A c \in NodeId : Kept(c)
         /\ \A i \in 1 .. Len(prog) : SoundDecl(i) => SoundDecl(i)'
<1>1. prog \in Programs
  BY TypeOKParts DEF TypeInv
<1>2. \A c \in NodeId : Kept(c)
  BY DEF Kept
<1>3. ASSUME NEW i \in 1 .. Len(prog), SoundDecl(i) PROVE SoundDecl(i)'
  <2>1. PICK c : c = prog[i]
    OBVIOUS
  <2>2. c \in NodeId
    BY <1>1, <2>1, ProgramNodes
  <2> QED BY <1>1, <1>2, <1>3, <2>1, <2>2, SoundDeclStays
<1> QED BY <1>2, <1>3

LEMMA CheckChildJudge == ASSUME TypeInv, JudgeInv, CheckChild PROVE JudgeInv'
<1>1. /\ calls # <<>> /\ pass = 2 /\ calls' # <<>> /\ Len(calls) \in Nat \ {0} /\ Len(calls') = Len(calls) + 1
      /\ \A j \in 1 .. Len(calls) : calls'[j] = calls[j]
      /\ UNCHANGED <<prog, pass, item, functions, declared, types, var_refs>>
  BY Pushed
<1>2. Len(calls'[Len(calls) + 1].rs) = 0
  <2>1. PICK g : g = calls'[Len(calls) + 1]
    OBVIOUS
  <2>2. g.rs = <<>>
    BY <2>1, Pushed
  <2> QED BY <2>1, <2>2
<1> SUFFICES ASSUME errors' = <<>> PROVE JudgeInv'
  BY DEF JudgeInv
<1>3. errors = <<>>
  BY Pushed
<1>4. prog \in Programs
  BY TypeOKParts DEF TypeInv
<1>5. Grown
  BY <1>1, TypeParts DEF Grown
<1>6. (\A c \in NodeId : Kept(c)) /\ (\A i \in 1 .. Len(prog) : SoundDecl(i) => SoundDecl(i)')
  BY <1>1, <1>5, TablesStay
<1>7. ASSUME NEW j \in 1 .. Len(calls'), NEW i \in 1 .. Len(calls'[j].rs)
      PROVE  \A g : g = calls'[j] => SoundAnswer(g, i)'
  <2>1. j # Len(calls) + 1
    <3>1. j = Len(calls) + 1 => Len(calls'[j].rs) = 0
      BY <1>2
    <3> QED BY <3>1
  <2>2. j \in 1 .. Len(calls) /\ calls'[j] = calls[j]
    BY <1>1, <2>1
  <2>3. PICK f : f = calls[j]
    OBVIOUS
  <2>4. Activation(f) /\ i \in 1 .. Len(f.rs) /\ SoundAnswer(f, i)
    <3>1. SoundAnswer(calls[j], i)
      BY <1>3, <2>2 DEF JudgeInv
    <3> QED BY <2>2, <2>3, <3>1 DEF TypeInv, CallsInv
  <2>5. PICK c : c = Nodes[f.n].kids[i]
    OBVIOUS
  <2>6. c \in NodeId
    BY <2>4, <2>5, ActivationType, NodeType
  <2>7. SoundAnswer(f, i)'
    BY <1>1, <1>4, <1>5, <1>6, <2>4, <2>5, <2>6, AnswerStays
  <2> QED BY <2>2, <2>3, <2>7
<1>8. (\A j \in 1 .. Len(calls) : \A i \in 1 .. Len(calls[j].rs) : SoundAnswer(calls[j], i))'
  BY <1>7
<1>9. ASSUME NEW i \in 1 .. Walked' PROVE SoundDecl(i)'
  <2>1. Walked' = Walked /\ Walked = item - 2
    BY <1>1 DEF Walked
  <2>2. item \in 1 .. Len(prog) + 1 /\ Len(prog) \in Nat
    BY TypeParts
  <2>3. i \in 1 .. Len(prog) /\ i \in 1 .. Walked
    BY <2>1, <2>2
  <2> QED BY <1>1, <1>3, <1>6, <2>3 DEF JudgeInv
<1>10. (\A i \in 1 .. Walked : SoundDecl(i))'
  BY <1>9
<1> QED BY <1>1, <1>8, <1>10 DEF JudgeInv

LEMMA CheckDeclJudge == ASSUME TypeInv, JudgeInv, CheckDecl PROVE JudgeInv'
<1>1. /\ calls = <<>> /\ calls' # <<>> /\ Len(calls') = 1 /\ pass = 2 /\ pass' = 2
      /\ item \in 1 .. Len(prog) /\ item' = item + 1 /\ item \in Nat
      /\ UNCHANGED <<prog, types, var_refs, errors>>
  BY Taken
<1>2. Len(calls'[1].rs) = 0
  <2>1. PICK g : g = calls'[1]
    OBVIOUS
  <2>2. g.rs = <<>>
    BY <2>1, Taken
  <2> QED BY <2>1, <2>2
<1> SUFFICES ASSUME errors' = <<>> PROVE JudgeInv'
  BY DEF JudgeInv
<1>3. Grown
  <2>1. /\ declared \in Seq(NodeId) /\ Decl.params \in Seq(NodeId)
        /\ declared' = declared \/ declared' = declared \o Decl.params
    <3>1. declared' = declared \/ declared' = declared \o Decl.params
      BY Zenon DEF CheckDecl
    <3>2. item <= Len(prog)
      BY <1>1
    <3> QED BY <3>1, <3>2, TypeParts, DeclType, NodeType
  <2>2. CASE declared' = declared
    BY <2>2 DEF Grown
  <2>3. CASE declared' = declared \o Decl.params
    BY <2>1, <2>3, DeclaredStay DEF Grown
  <2> QED BY <2>1, <2>2, <2>3
<1>4. (\A j \in 1 .. Len(calls) : \A i \in 1 .. Len(calls[j].rs) : SoundAnswer(calls[j], i))'
  <2>1. \A j \in 1 .. Len(calls') : \A i \in 1 .. Len(calls'[j].rs) : FALSE
    BY <1>1, <1>2
  <2> QED BY <2>1
<1>5. ASSUME NEW i \in 1 .. Walked' PROVE SoundDecl(i)'
  <2>1. Walked' = Walked /\ Walked = item - 1
    BY <1>1 DEF Walked
  <2>2. i \in 1 .. Len(prog) /\ i \in 1 .. Walked
    BY <1>1, <2>1, TypeParts
  <2>3. SoundDecl(i)
    BY <1>1, <2>2 DEF JudgeInv
  <2> QED BY <1>1, <1>3, <2>2, <2>3, TablesStay
<1>6. (\A i \in 1 .. Walked : SoundDecl(i))'
  BY <1>5
<1> QED BY <1>1, <1>4, <1>6 DEF JudgeInv

LEMMA NoAnswers ==
  ASSUME calls' = <<>>
  PROVE  (\A j \in 1 .. Len(calls) : \A i \in 1 .. Len(calls[j].rs) : SoundAnswer(calls[j], i))'
<1>1. Len(calls') = 0
  OBVIOUS
<1>2. \A j \in 1 .. Len(calls') : FALSE
  BY <1>1
<1> QED BY <1>2

LEMMA HoistFuncJudge == ASSUME TypeInv, HoistFunc PROVE JudgeInv'
<1>1. calls' = <<>> /\ pass' = 1
  BY DEF HoistFunc, TypeInv, PhaseInv
<1> QED BY <1>1, NoAnswers DEF JudgeInv

LEMMA RequireMainJudge == ASSUME TypeInv, RequireMain PROVE JudgeInv'
<1>1. calls' = <<>> /\ pass' = 2 /\ item' = 1
  BY DEF RequireMain, TypeInv, PhaseInv
<1>2. Walked' = 0
  BY <1>1 DEF Walked
<1>3. (\A i \in 1 .. Walked : SoundDecl(i))'
  <2>1. \A i \in 1 .. Walked' : FALSE
    BY <1>2
  <2> QED BY <2>1
<1> QED BY <1>1, <1>3, NoAnswers DEF JudgeInv

LEMMA ConcludeJudge == ASSUME TypeInv, JudgeInv, Conclude PROVE JudgeInv'
<1>1. /\ calls = <<>> /\ calls' = <<>> /\ pass = 2 /\ pass' = 3 /\ item > Len(prog)
      /\ UNCHANGED <<prog, declared, types, var_refs, errors>>
  BY DEF Conclude
<1> SUFFICES ASSUME errors' = <<>> PROVE JudgeInv'
  BY DEF JudgeInv
<1>2. Walked = Len(prog)
  BY <1>1, TypeParts DEF Walked
<1>3. Grown
  BY <1>1 DEF Grown
<1>4. \A i \in 1 .. Len(prog) : SoundDecl(i)
  BY <1>1, <1>2 DEF JudgeInv
<1>5. \A i \in 1 .. Len(prog) : SoundDecl(i)'
  BY <1>1, <1>3, <1>4, TablesStay
<1>6. (\A i \in 1 .. Len(prog) : SoundDecl(i))'
  BY <1>1, <1>5
<1> QED BY <1>1, <1>6, NoAnswers DEF JudgeInv

LEMMA IdleJudge == ASSUME JudgeInv, UNCHANGED vars PROVE JudgeInv'
<1>1. /\ calls' = calls /\ pass' = pass /\ item' = item /\ prog' = prog /\ errors' = errors
      /\ types' = types /\ var_refs' = var_refs /\ declared' = declared /\ functions' = functions
  BY DEF vars
<1>2. \A c : Sound(c) => Sound(c)'
  BY <1>1 DEF Sound, Meant, Sc
<1>3. \A f, i : SoundAnswer(f, i) => SoundAnswer(f, i)'
  BY <1>1, <1>2, ExpectedSame DEF SoundAnswer
<1>4. \A i : SoundDecl(i) => SoundDecl(i)'
  BY <1>1, <1>2 DEF SoundDecl, IsFunc
<1>5. Walked' = Walked
  BY <1>1 DEF Walked
<1> QED BY <1>1, <1>3, <1>4, <1>5 DEF JudgeInv

LEMMA JudgeStep ==
  ASSUME TypeInv, NestInv, SilenceInv, SymbolsInv, ScopingInv, RetInv, HoistInv, PassedInv, JudgeInv,
         [Next]_vars
  PROVE  JudgeInv'
BY CheckChildJudge, CheckExprJudge, DeclareLocalVarJudge, CheckStmtJudge, HoistFuncJudge,
   RequireMainJudge, CheckDeclJudge, ConcludeJudge, IdleJudge DEF Next, Step

LEMMA InitJudge == ASSUME Init PROVE JudgeInv
<1>1. pass = 1 /\ calls = <<>> /\ Len(calls) = 0
  BY DEF Init
<1>2. \A j \in 1 .. Len(calls) : FALSE
  BY <1>1
<1> QED BY <1>1, <1>2 DEF JudgeInv

(***************************************************************************)
(* What these invariants say of an accepted program.                       *)
(***************************************************************************)
LEMMA HoistMeans ==
  ASSUME TypeInv, HoistInv, Accepted PROVE OneEach(prog, "Func") /\ HasMain(prog)
<1>1. pass = 3 /\ errors = <<>>
  BY DEF Accepted
<1>2. Hoisted = Len(prog) /\ DOMAIN prog = 1 .. Len(prog)
  BY <1>1, TypeParts DEF Hoisted
<1>3. OneEach(prog, "Func")
  BY <1>1, <1>2 DEF HoistInv, OneEach, IsFunc
<1>4. "main" \in Name /\ functions["main"] = [params |-> <<>>, ret |-> TVoid]
  BY <1>1 DEF HoistInv
<1>5. functions["main"] # NoSig
  <2>1. functions["main"].ret = TVoid
    BY <1>4
  <2>2. NoSig.ret = None
    BY DEF NoSig
  <2> QED BY <2>1, <2>2, BaseTypes
<1>6. "main" \notin DOMAIN BuiltinParams
  BY DEF BuiltinParams
<1>7. PICK i \in 1 .. Len(prog) : IsFunc(i) /\ Nodes[prog[i]].name = "main"
  BY <1>1, <1>2, <1>4, <1>5, <1>6 DEF HoistInv
<1>8. PICK nd : nd = Nodes[prog[i]]
  OBVIOUS
<1>9. Signature(nd) = [params |-> <<>>, ret |-> TVoid]
  BY <1>1, <1>2, <1>4, <1>7, <1>8 DEF HoistInv
<1>10. nd.params = <<>> /\ nd.ty = TVoid
  <2>1. PICK ps : ps = nd.params
    OBVIOUS
  <2>2. ps \in Seq(NodeId)
    BY <1>7, <1>8, <2>1, TypeParts, NodeType
  <2>3. Signature(nd).params = <<>> /\ Signature(nd).ret = TVoid
    BY <1>9
  <2>4. [j \in DOMAIN ps |-> Nodes[ps[j]].ty] = <<>> /\ nd.ty = TVoid
    BY <2>1, <2>3 DEF Signature
  <2>5. DOMAIN ps = {}
    <3>1. DOMAIN [j \in DOMAIN ps |-> Nodes[ps[j]].ty] = DOMAIN ps
      OBVIOUS
    <3> QED BY <2>4, <3>1
  <2>6. ps = <<>>
    BY <2>2, <2>5
  <2> QED BY <2>1, <2>4, <2>6
<1>11. HasMain(prog)
  BY <1>2, <1>7, <1>8, <1>10 DEF HasMain, IsFunc
<1> QED BY <1>3, <1>11

LEMMA VarsMean == ASSUME TypeInv, VarsInv, Accepted PROVE OneEach(prog, "VarDecl")
<1>1. \A i \in 1 .. Len(prog) : NewVar(i)
  BY DEF Accepted, VarsInv
<1>2. DOMAIN prog = 1 .. Len(prog) /\ Len(prog) \in Nat
  BY TypeParts
<1> SUFFICES ASSUME NEW i \in 1 .. Len(prog), NEW j \in 1 .. Len(prog), IsVar(i), IsVar(j),
                    Nodes[prog[i]].name = Nodes[prog[j]].name
             PROVE  i = j
  BY <1>2 DEF OneEach, IsVar
<1>3. ~(i < j)
  <2>1. i < j => i \in 1 .. j - 1
    OBVIOUS
  <2> QED BY <1>1, <2>1 DEF NewVar
<1>4. ~(j < i)
  <2>1. j < i => j \in 1 .. i - 1
    OBVIOUS
  <2> QED BY <1>1, <2>1 DEF NewVar
<1> QED BY <1>3, <1>4

LEMMA JudgeMeans ==
  ASSUME TypeInv, JudgeInv, Accepted
  PROVE  /\ Returning(prog)
         /\ \A n \in NodesOf(prog) : Judged(types, prog, n) /\ Meant(n)
<1>1. \A i \in 1 .. Len(prog) : SoundDecl(i)
  BY DEF Accepted, JudgeInv
<1>2. DOMAIN prog = 1 .. Len(prog) /\ prog \in Programs
  BY TypeParts, TypeOKParts DEF TypeInv
<1>3. Returning(prog)
  BY <1>1, <1>2 DEF SoundDecl, Returning, IsFunc
<1>4. ASSUME NEW n \in NodesOf(prog) PROVE Judged(types, prog, n) /\ Meant(n)
  <2>1. PICK i \in 1 .. Len(prog) : n \in Below(prog[i])
    BY <1>2, ProgramNodes
  <2>2. Sound(prog[i])
    BY <1>1 DEF SoundDecl
  <2> QED BY <2>1, <2>2 DEF Sound
<1> QED BY <1>3, <1>4

LEMMA SoundMeans ==
  ASSUME TypeInv, HoistInv, VarsInv, JudgeInv PROVE AcceptedIsWellTyped
<1> SUFFICES ASSUME Accepted PROVE AcceptedIsWellTyped
  BY DEF AcceptedIsWellTyped
<1>1. WellTyped(types, prog)
  BY HoistMeans, VarsMean, JudgeMeans DEF WellTyped
<1>2. ASSUME NEW n \in NodesOf(prog), Nodes[n].k = "Ident"
      PROVE  declared[var_refs[n] + 1] = Means(ScopesOf(prog)[n], Nodes[n].name)
  BY <1>2, JudgeMeans DEF Meant, Sc
<1> QED BY <1>1, <1>2 DEF AcceptedIsWellTyped

(***************************************************************************)
(* The checker is sound: whatever program it accepts is well typed, by     *)
(* rules that know nothing of the order of checking, every name means the  *)
(* declaration its scopes give it, every function that has to return does  *)
(* on every path, and there is one main.  This is what sema/mod.rs and     *)
(* types.rs promise the interpreter and code generation.                   *)
(***************************************************************************)
THEOREM AcceptedPrograms == Spec => []AcceptedIsWellTyped
<1>1. Init => /\ ScopeInv /\ SilenceInv /\ SymbolsInv /\ NestInv /\ ScopingInv /\ RetInv /\ HoistInv
              /\ VarsInv /\ PassedInv /\ JudgeInv
  BY InitScope, InitSilence, InitSymbols, InitNest, InitScoping, InitRet, InitHoist, InitVars, InitPassed,
     InitJudge
<1>2. /\ TypeInv /\ ScopeInv /\ [Next]_vars => ScopeInv'
      /\ TypeInv /\ SilenceInv /\ [Next]_vars => SilenceInv'
      /\ TypeInv /\ SymbolsInv /\ [Next]_vars => SymbolsInv'
      /\ TypeInv /\ NestInv /\ [Next]_vars => NestInv'
  BY CheckChildScope, CheckExprScope, DeclareLocalVarScope, CheckStmtScope, HoistFuncScope, RequireMainScope,
     CheckDeclScope, ConcludeScope, IdleScope, SilenceStep, SymbolsStep, NestStep DEF Next, Step
<1>3. /\ TypeInv /\ SymbolsInv /\ NestInv /\ ScopingInv /\ [Next]_vars => ScopingInv'
      /\ TypeInv /\ NestInv /\ RetInv /\ [Next]_vars => RetInv'
      /\ TypeInv /\ HoistInv /\ [Next]_vars => HoistInv'
      /\ TypeInv /\ ScopeInv /\ VarsInv /\ [Next]_vars => VarsInv'
      /\ TypeInv /\ SilenceInv /\ PassedInv /\ [Next]_vars => PassedInv'
  BY ScopingStep, RetStep, HoistStep, VarsStep, PassedStep
<1>4. /\ TypeInv /\ NestInv /\ SilenceInv /\ SymbolsInv /\ ScopingInv /\ RetInv /\ HoistInv /\ PassedInv
      /\ JudgeInv /\ [Next]_vars
      => JudgeInv'
  BY JudgeStep
<1>5. TypeInv /\ HoistInv /\ VarsInv /\ JudgeInv => AcceptedIsWellTyped
  BY SoundMeans
<1> QED BY <1>1, <1>2, <1>3, <1>4, <1>5, TypesHold, PTL DEF Spec
===============================================================================
