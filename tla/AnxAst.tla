-------------------------------- MODULE AnxAst --------------------------------
(***************************************************************************)
(* The abstract syntax tree that the parser hands to the checker, to the   *)
(* interpreter and to code generation (ast/mod.rs), as a table from node   *)
(* ids to nodes.  A child is named by its id, and `kids` lists the         *)
(* children of a node in the order of its Rust fields:                     *)
(*                                                                         *)
(*   Binary         <<left, right>>        Index        <<array, index>>   *)
(*   Assign         <<target, value>>      FieldAccess  <<object>>         *)
(*   CompoundAssign <<target, value>>      ArrayLiteral its elements       *)
(*   IncDec         <<target>>             ArrayCreation <<size>>          *)
(*   Unary          <<operand>>            Call         its arguments      *)
(*   Ternary        <<cond, then_branch, else_branch>>                     *)
(*   VarDecl        <<init>>, or <<>>      Return       <<value>>, or <<>> *)
(*   If             <<cond, then_branch>> or <<cond, then, else_branch>>   *)
(*   While          <<cond, body>>         For <<init, cond, update, body>> *)
(*   Block          its statements         Func         its body's         *)
(*                                                                         *)
(* Line numbers are left out: a node's id stands for its place.            *)
(***************************************************************************)
EXTENDS Integers, Sequences

CONSTANTS
  Nodes,      \* NodeId -> node: every node of every program of an instance
  Programs,   \* the programs: each the sequence of its declarations' ids
  Name,       \* the identifiers that occur in them
  MinInt, MaxInt,       \* the range of an int (i64 in the code)
  MaxFloat,             \* the largest finite float, in half units
  NaN, PosInf, NegInf   \* the floats that are not finite

NodeId == DOMAIN Nodes

(***************************************************************************)
(* A type is a base type under `dim` array brackets: int[] is              *)
(* [base |-> "Int", dim |-> 1].                                            *)
(***************************************************************************)
Type == [base: {"Int", "Float", "Bool", "Str", "Void"}, dim: Nat]

Ty(b)        == [base |-> b, dim |-> 0]
TInt         == Ty("Int")
TFloat       == Ty("Float")
TBool        == Ty("Bool")
TStr         == Ty("Str")
TVoid        == Ty("Void")
ArrayOf(t)   == [t EXCEPT !.dim = @ + 1]
ElemOf(t)    == [t EXCEPT !.dim = @ - 1]
IsArray(t)   == t.dim > 0

ExprKind == {"IntLiteral", "FloatLiteral", "BoolLiteral", "StringLiteral", "Null",
             "Ident", "Binary", "Unary", "Assign", "CompoundAssign", "IncDec",
             "Ternary", "Call", "Index", "FieldAccess", "ArrayLiteral",
             "ArrayCreation"}
StmtKind == {"Expr", "VarDecl", "If", "While", "For", "Return", "Block"}
DeclKind == {"VarDecl", "Func"}

Arith   == {"Add", "Sub", "Mul", "Div", "Mod"}
Bitwise == {"BitAnd", "BitOr", "BitXor", "Shl", "Shr", "UShr"}
Compare == {"Lt", "LtEq", "Gt", "GtEq"}
Equality == {"Eq", "NotEq"}
Lazy    == {"And", "Or"}
BinOp   == Arith \cup Bitwise \cup Compare \cup Equality \cup Lazy
UnOp    == {"Neg", "Not", "BitNot"}
IncDecOp == {"Inc", "Dec"}

Int64 == MinInt .. MaxInt
Byte  == 0 .. 255
Float == (-MaxFloat .. MaxFloat) \cup {NaN, PosInf, NegInf}

(***************************************************************************)
(* A scalar of the language, tagged as Value (interp/value.rs) tags it.    *)
(* A string is the sequence of its UTF-8 bytes.                            *)
(***************************************************************************)
IntV(i)   == [k |-> "Int", i |-> i]
FloatV(f) == [k |-> "Float", f |-> f]
BoolV(b)  == [k |-> "Bool", b |-> b]
StrV(s)   == [k |-> "Str", s |-> s]
VoidV     == [k |-> "Void"]

Scalar == [k: {"Int"}, i: Int64] \cup [k: {"Float"}, f: Float]
          \cup [k: {"Bool"}, b: BOOLEAN] \cup [k: {"Str"}, s: Seq(Byte)]
          \cup {VoidV}

NodeKind == ExprKind \cup StmtKind \cup DeclKind \cup {"Param"}

\* A node: `lit` is a literal's value, `ty` a declared or element type, `name`
\* an identifier, callee, field or declared name, `prefix` IncDec's is_prefix.
Node == [k: NodeKind, op: BinOp \cup UnOp \cup IncDecOp \cup {"none"},
         name: Name, ty: Type, lit: Scalar, prefix: BOOLEAN,
         params: Seq(NodeId), kids: Seq(NodeId)]

AllIn(s, K) == \A i \in DOMAIN s : Nodes[s[i]].k \in K

(***************************************************************************)
(* What the parser's output always satisfies, node by node: the shape of   *)
(* each kind.  Whether an assignment's target is an lvalue is not the      *)
(* parser's concern (the checker decides it), so it is not required here.  *)
(***************************************************************************)
Shape(nd) ==
  CASE nd.k \in {"Binary"} -> Len(nd.kids) = 2 /\ AllIn(nd.kids, ExprKind) /\ nd.op \in BinOp
    [] nd.k \in {"Assign", "Index"} -> Len(nd.kids) = 2 /\ AllIn(nd.kids, ExprKind)
    [] nd.k = "CompoundAssign" ->
         Len(nd.kids) = 2 /\ AllIn(nd.kids, ExprKind) /\ nd.op \in Arith \cup Bitwise
    [] nd.k = "Unary" -> Len(nd.kids) = 1 /\ AllIn(nd.kids, ExprKind) /\ nd.op \in UnOp
    [] nd.k = "IncDec" -> Len(nd.kids) = 1 /\ AllIn(nd.kids, ExprKind) /\ nd.op \in IncDecOp
    [] nd.k \in {"FieldAccess", "ArrayCreation", "Expr"} ->
         Len(nd.kids) = 1 /\ AllIn(nd.kids, ExprKind)
    [] nd.k = "Ternary" -> Len(nd.kids) = 3 /\ AllIn(nd.kids, ExprKind)
    [] nd.k \in {"Call", "ArrayLiteral"} -> AllIn(nd.kids, ExprKind)
    [] nd.k \in {"VarDecl", "Return"} -> Len(nd.kids) \in {0, 1} /\ AllIn(nd.kids, ExprKind)
    [] nd.k = "If" ->
         /\ Len(nd.kids) \in {2, 3} /\ Nodes[nd.kids[1]].k \in ExprKind
         /\ AllIn(Tail(nd.kids), StmtKind)
    [] nd.k = "While" ->
         /\ Len(nd.kids) = 2
         /\ Nodes[nd.kids[1]].k \in ExprKind /\ Nodes[nd.kids[2]].k \in StmtKind
    [] nd.k = "For" ->
         /\ Len(nd.kids) = 4 /\ Nodes[nd.kids[1]].k = "VarDecl"
         /\ Nodes[nd.kids[2]].k \in ExprKind /\ Nodes[nd.kids[3]].k \in ExprKind
         /\ Nodes[nd.kids[4]].k \in StmtKind
    [] nd.k \in {"Block", "Func"} -> AllIn(nd.kids, StmtKind) /\ AllIn(nd.params, {"Param"})
    [] OTHER -> nd.kids = <<>>

(***************************************************************************)
(* Trees: a node, and everything below it.                                 *)
(***************************************************************************)
Below(n) ==
  LET below[m \in NodeId] ==
        {m} \cup UNION {below[c] : c \in {Nodes[m].kids[i] : i \in DOMAIN Nodes[m].kids}}
  IN  below[n]
NodesOf(p) == UNION {Below(p[i]) : i \in DOMAIN p}

\* The kind of the value that a literal stands for.
LitKind == [IntLiteral |-> "Int", FloatLiteral |-> "Float", BoolLiteral |-> "Bool",
            StringLiteral |-> "Str", Null |-> "Void"]

ASSUME IntAssumption == /\ MinInt \in Int /\ MaxInt \in Nat /\ MinInt = -MaxInt - 1
                        /\ MaxFloat \in Nat \ {0, 1}
                        /\ {NaN, PosInf, NegInf} \cap Int = {}
                        /\ NaN # PosInf /\ NaN # NegInf /\ PosInf # NegInf
\* 0 is no node: it stands for "none".
ASSUME AstAssumption == /\ 0 \notin NodeId
                        /\ \A n \in NodeId : Nodes[n] \in Node /\ Shape(Nodes[n])
ASSUME ProgramAssumption ==
  \A p \in Programs : p \in Seq(NodeId) /\ AllIn(p, DeclKind)
\* A node gets its id once its children have theirs, and is owned once (a Box or an
\* element of a Vec): no two children of a node, or declarations of a program, share one.
ASSUME TreeAssumption ==
  /\ NodeId \subseteq Nat
  /\ \A n \in NodeId : \A i \in DOMAIN Nodes[n].kids :
       /\ Nodes[n].kids[i] < n
       /\ \A j \in DOMAIN Nodes[n].kids \ {i} : Below(Nodes[n].kids[i]) \cap Below(Nodes[n].kids[j]) = {}
  /\ \A p \in Programs : \A i, j \in DOMAIN p : i # j => Below(p[i]) \cap Below(p[j]) = {}
\* A literal stands for a value of its kind.
ASSUME LiteralAssumption ==
  \A n \in NodeId : Nodes[n].k \in DOMAIN LitKind => Nodes[n].lit.k = LitKind[Nodes[n].k]
===============================================================================
