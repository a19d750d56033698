---------------------------- MODULE AnxTypingProofs ----------------------------
(***************************************************************************)
(* What holds of the trees, the scopes and the typing rules of AnxTyping,  *)
(* whatever walks them: the checker and the interpreter.                   *)
(***************************************************************************)
EXTENDS AnxTyping, SequenceTheorems, WellFoundedInduction, TLAPS

(***************************************************************************)
(* Nodes and types.                                                        *)
(***************************************************************************)
\* What the assumptions say of a node.
LEMMA NodeType ==
  ASSUME NEW n \in NodeId
  PROVE  /\ Nodes[n] \in Node /\ Shape(Nodes[n])
         /\ Nodes[n].kids \in Seq(NodeId) /\ Nodes[n].params \in Seq(NodeId)
         /\ Nodes[n].name \in Name /\ Nodes[n].lit \in Scalar
         /\ Nodes[n].ty \in Type /\ Nodes[n].k \in NodeKind
BY AstAssumption DEF Node

LEMMA ArrayTypes ==
  ASSUME NEW t \in Type
  PROVE  /\ ArrayOf(t) \in Type /\ IsArray(ArrayOf(t)) /\ ElemOf(ArrayOf(t)) = t
         /\ IsArray(t) => ElemOf(t) \in Type /\ ArrayOf(ElemOf(t)) = t
<1>1. t = [base |-> t.base, dim |-> t.dim] /\ t.dim \in Nat
  BY DEF Type
<1>2. ArrayOf(t) = [base |-> t.base, dim |-> t.dim + 1]
  BY DEF Type, ArrayOf
<1>3. ArrayOf(t) \in Type /\ ArrayOf(t).dim = t.dim + 1
  BY <1>1, <1>2 DEF Type
<1> DEFINE e == ElemOf(t)
<1>4. ElemOf(t) = [base |-> t.base, dim |-> t.dim - 1]
  BY DEF Type, ElemOf
<1>5. ElemOf(ArrayOf(t)) = t
  BY <1>1, <1>2 DEF ElemOf
<1>6. IsArray(t) => ElemOf(t) \in Type /\ ArrayOf(ElemOf(t)) = t
  BY <1>1, <1>4 DEF ArrayOf, Type, IsArray
<1> QED BY <1>1, <1>3, <1>5, <1>6 DEF IsArray

\* The children of an expression, of a declaration and of a return are expressions, and
\* the other children are expressions or statements.
LEMMA KidKinds ==
  ASSUME NEW n \in NodeId, NEW i \in 1 .. Len(Nodes[n].kids)
  PROVE  /\ Nodes[n].kids[i] \in NodeId
         /\ Nodes[Nodes[n].kids[i]].k \in ExprKind \cup StmtKind
         /\ Nodes[n].k \in ExprKind \cup {"Expr", "VarDecl", "Return"}
              => Nodes[Nodes[n].kids[i]].k \in ExprKind
<1> DEFINE nd == Nodes[n]
<1>1. nd.kids \in Seq(NodeId) /\ Shape(nd) /\ nd.k \in NodeKind
  BY NodeType
<1>2. nd.kids[i] \in NodeId
  BY <1>1
<1>3. "VarDecl" \in StmtKind
  BY DEF StmtKind
<1>4. CASE nd.k \in {"Binary", "Assign", "Index", "CompoundAssign", "Unary", "IncDec", "FieldAccess",
                     "ArrayCreation", "Expr", "Ternary", "Call", "ArrayLiteral", "VarDecl", "Return"}
  <2>1. AllIn(nd.kids, ExprKind)
    BY <1>1, <1>4 DEF Shape
  <2> QED BY <1>1, <1>2, <2>1 DEF AllIn
<1>5. CASE nd.k \in {"Block", "Func"}
  <2>1. AllIn(nd.kids, StmtKind)
    BY <1>1, <1>5 DEF Shape
  <2> QED BY <1>1, <1>2, <1>5, <2>1 DEF AllIn, ExprKind
<1>6. CASE nd.k = "If"
  <2>1. Len(nd.kids) \in {2, 3} /\ Nodes[nd.kids[1]].k \in ExprKind /\ AllIn(Tail(nd.kids), StmtKind)
    BY <1>1, <1>6 DEF Shape
  <2>2. CASE i = 1
    BY <1>2, <1>6, <2>1, <2>2 DEF ExprKind
  <2>3. CASE i # 1
    <3>1. i - 1 \in 1 .. Len(Tail(nd.kids)) /\ Tail(nd.kids)[i - 1] = nd.kids[i]
      BY <1>1, <2>1, <2>3
    <3>2. i - 1 \in DOMAIN Tail(nd.kids)
      BY <1>1, <2>1, <3>1
    <3> QED BY <1>2, <1>6, <2>1, <3>1, <3>2 DEF AllIn, ExprKind
  <2> QED BY <2>2, <2>3
<1>7. CASE nd.k = "While"
  BY <1>1, <1>2, <1>7 DEF Shape, ExprKind
<1>8. CASE nd.k = "For"
  BY <1>1, <1>2, <1>3, <1>8 DEF Shape, ExprKind
<1>9. CASE nd.k \in {"IntLiteral", "FloatLiteral", "BoolLiteral", "StringLiteral", "Null", "Ident", "Param"}
  BY <1>1, <1>9 DEF Shape
<1> QED BY <1>1, <1>4, <1>5, <1>6, <1>7, <1>8, <1>9 DEF NodeKind, ExprKind, StmtKind, DeclKind

\* How many children an expression has.
LEMMA KidCounts ==
  ASSUME NEW n \in NodeId
  PROVE  LET nd == Nodes[n]
         IN  /\ Len(nd.kids) \in Nat
             /\ nd.k \in {"Binary", "Assign", "Index", "CompoundAssign"} => Len(nd.kids) = 2
             /\ nd.k \in {"Unary", "IncDec", "FieldAccess", "ArrayCreation", "Expr"} => Len(nd.kids) = 1
             /\ nd.k = "Ternary" => Len(nd.kids) = 3
             /\ nd.k \in {"IntLiteral", "FloatLiteral", "BoolLiteral", "StringLiteral", "Null", "Ident"}
                  => Len(nd.kids) = 0
BY NodeType DEF Shape

LEMMA KindsApart ==
  /\ ExprKind \cap StmtKind = {} /\ "Func" \notin ExprKind \cup StmtKind /\ "VarDecl" \in StmtKind
  /\ "VarDecl" \notin ExprKind
BY DEF ExprKind, StmtKind

LEMMA NodeParts ==
  ASSUME NEW nd \in Node
  PROVE  nd.kids \in Seq(NodeId) /\ DOMAIN nd.kids = 1 .. Len(nd.kids) /\ Len(nd.kids) \in Nat
BY DEF Node

LEMMA IsNode == ASSUME NEW n \in NodeId, NEW nd, nd = Nodes[n] PROVE nd \in Node
BY NodeType

LEMMA StmtKids ==
  ASSUME NEW n \in NodeId
  PROVE  /\ Nodes[n].k \in {"Block", "Func"} =>
              \A i \in 1 .. Len(Nodes[n].kids) : Nodes[Nodes[n].kids[i]].k \in StmtKind
         /\ Nodes[n].k = "If" /\ Len(Nodes[n].kids) = 3 =>
              Nodes[Nodes[n].kids[2]].k \in StmtKind /\ Nodes[Nodes[n].kids[3]].k \in StmtKind
<1>1. PICK nd : nd = Nodes[n]
  OBVIOUS
<1>2. PICK ks : ks = nd.kids
  OBVIOUS
<1>3. Shape(nd) /\ ks \in Seq(NodeId) /\ nd.kids = ks
  BY <1>1, <1>2, NodeType
<1>4. CASE nd.k \in {"Block", "Func"}
  <2>1. AllIn(ks, StmtKind)
    BY <1>3, <1>4 DEF Shape
  <2>2. DOMAIN ks = 1 .. Len(ks)
    BY <1>3
  <2> QED BY <1>1, <1>3, <1>4, <2>1, <2>2 DEF AllIn
<1>5. CASE nd.k = "If" /\ Len(ks) = 3
  <2>1. AllIn(Tail(ks), StmtKind)
    BY <1>3, <1>5 DEF Shape
  <2>2. ks # <<>>
    BY <1>5
  <2>3. PICK t : t = Tail(ks) /\ t \in Seq(NodeId) /\ Len(t) = Len(ks) - 1 /\ \A i \in 1 .. Len(t) : t[i] = ks[i + 1]
    BY <1>3, <2>2, HeadTailProperties, Zenon
  <2>4. AllIn(t, StmtKind)
    BY <2>1, <2>3
  <2>5. Len(t) = 2
    BY <1>5, <2>3
  <2>6. t[1] = ks[2] /\ t[2] = ks[3] /\ DOMAIN t = 1 .. 2
    BY <2>3, <2>5
  <2>7. Nodes[t[1]].k \in StmtKind /\ Nodes[t[2]].k \in StmtKind
    BY <2>4, <2>6 DEF AllIn
  <2> QED BY <1>1, <1>3, <1>5, <2>6, <2>7
<1> QED BY <1>1, <1>3, <1>4, <1>5

(***************************************************************************)
(* Sets of numbers, and sequences.                                         *)
(***************************************************************************)
\* Every set of natural numbers has a least element.
LEMMA Least ==
  ASSUME NEW P, P \subseteq Nat, P # {}
  PROVE  \E p \in P : \A q \in P : p <= q
<1>1. PICK p \in P : \A q \in P : ~ (<<q, p>> \in OpToRel(<, Nat))
  BY NatLessThanWellFounded, WFMin
<1>2. \A q \in P : ~(q < p)
  BY <1>1 DEF OpToRel
<1> QED BY <1>2

\* And so has a set of positions a greatest.
LEMMA Greatest ==
  ASSUME NEW m \in Nat, NEW P, P \subseteq 1 .. m, P # {}
  PROVE  \E p \in P : \A q \in P : q <= p
<1> DEFINE M == {m - p : p \in P}
<1>1. M \subseteq Nat /\ M # {}
  <2>1. \A p \in P : m - p \in Nat
    OBVIOUS
  <2> QED BY <2>1
<1>2. PICK d \in M : \A e \in M : d <= e
  BY <1>1, Least
<1>3. PICK p \in P : d = m - p
  BY <1>2
<1>4. ASSUME NEW q \in P PROVE q <= p
  <2>1. m - p <= m - q
    BY <1>2, <1>3
  <2>2. p \in 1 .. m /\ q \in 1 .. m
    OBVIOUS
  <2> QED BY <2>1, <2>2
<1> QED BY <1>4

\* One element more.
LEMMA OneMore ==
  ASSUME NEW S, NEW s \in Seq(S), NEW e \in S, NEW t, t = Append(s, e)
  PROVE  /\ t \in Seq(S) /\ Len(t) = Len(s) + 1 /\ DOMAIN t = 1 .. Len(s) + 1 /\ t # <<>>
         /\ t[Len(s) + 1] = e /\ \A j \in 1 .. Len(s) : t[j] = s[j]
<1>1. t \in Seq(S) /\ Len(t) = Len(s) + 1 /\ \A j \in 1 .. Len(s) : t[j] = s[j]
  BY AppendProperties
<1>2. t[Len(s) + 1] = e
  BY AppendProperties
<1>3. Len(s) \in Nat
  OBVIOUS
<1> QED BY <1>1, <1>2, <1>3

LEMMA NothingJoined ==
  ASSUME NEW S, NEW a \in Seq(S), NEW b \in Seq(S), a \o b = <<>> PROVE a = <<>> /\ b = <<>>
<1>1. Len(a \o b) = Len(a) + Len(b) /\ Len(a \o b) = 0
  BY ConcatProperties
<1> QED BY <1>1

LEMMA AppendOne ==
  ASSUME NEW S, NEW s \in Seq(S), NEW e \in S PROVE Append(s, e) = s \o <<e>> /\ <<e>> \in Seq(S)
OBVIOUS

(***************************************************************************)
(* Trees.                                                                  *)
(***************************************************************************)
\* Below is what its recursion says: the node, and what is below its children.  (The
\* least sets closed under children are a solution, so there is one to choose.)
LEMMA BelowStep ==
  ASSUME NEW n \in NodeId
  PROVE  Below(n) = {n} \cup UNION {Below(c) : c \in {Nodes[n].kids[i] : i \in DOMAIN Nodes[n].kids}}
<1> DEFINE Kids(m) == {Nodes[m].kids[i] : i \in DOMAIN Nodes[m].kids}
           Solves(f) == f = [m \in NodeId |-> {m} \cup UNION {f[c] : c \in Kids(m)}]
           Closed(S) == \A x \in S : Kids(x) \subseteq S
           Least0(m) == {x \in NodeId : \A S \in SUBSET NodeId : m \in S /\ Closed(S) => x \in S}
           g == [m \in NodeId |-> Least0(m)]
<1>1. ASSUME NEW m \in NodeId PROVE Kids(m) \subseteq NodeId
  BY NodeType
<1>2. ASSUME NEW m \in NodeId PROVE Least0(m) = {m} \cup UNION {Least0(c) : c \in Kids(m)}
  <2>1. Least0(m) \subseteq NodeId /\ m \in Least0(m)
    OBVIOUS
  <2>2. \A c \in Kids(m) : Least0(c) \subseteq Least0(m)
    BY <1>1
  <2> DEFINE S == {m} \cup UNION {Least0(c) : c \in Kids(m)}
  <2>3. S \subseteq NodeId
    OBVIOUS
  <2>4. Kids(m) \subseteq S
    BY <1>1
  <2>5. ASSUME NEW c \in Kids(m), NEW x \in Least0(c) PROVE Kids(x) \subseteq Least0(c)
    BY <1>1
  <2>6. ASSUME NEW x \in S PROVE Kids(x) \subseteq S
    <3>1. CASE x = m
      BY <2>4, <3>1
    <3>2. ASSUME NEW c \in Kids(m), x \in Least0(c) PROVE Kids(x) \subseteq S
      <4>1. Kids(x) \subseteq Least0(c)
        BY <2>5, <3>2
      <4> HIDE DEF Least0, Kids
      <4> QED BY <3>2, <4>1
    <3> QED BY <3>1, <3>2
  <2>7. Least0(m) \subseteq S
    BY <2>3, <2>6
  <2> HIDE DEF Least0, Kids
  <2> QED BY <2>1, <2>2, <2>7
<1>3. Solves(g)
  <2>1. \A m \in NodeId : g[m] = Least0(m)
    OBVIOUS
  <2>2. ASSUME NEW m \in NodeId PROVE Least0(m) = {m} \cup UNION {g[c] : c \in Kids(m)}
    <3> HIDE DEF Least0, Kids, g
    <3>1. {g[c] : c \in Kids(m)} = {Least0(c) : c \in Kids(m)}
      BY <1>1, <2>1
    <3> QED BY <1>2, <3>1
  <2> QED BY <2>2
<1> DEFINE f == CHOOSE f : Solves(f)
<1>4. Solves(f)
  BY <1>3
<1>5. \A m \in NodeId : Below(m) = f[m]
  BY DEF Below
<1> HIDE DEF f
<1>6. f[n] = {n} \cup UNION {f[c] : c \in Kids(n)}
  BY <1>4
<1>7. UNION {f[c] : c \in Kids(n)} = UNION {Below(c) : c \in Kids(n)}
  BY <1>1, <1>5
<1> QED BY <1>5, <1>6, <1>7

LEMMA KidsFirst ==
  ASSUME NEW n \in NodeId, NEW i \in 1 .. Len(Nodes[n].kids)
  PROVE  Nodes[n].kids[i] \in NodeId /\ Nodes[n].kids[i] < n /\ n \in Nat /\ Nodes[n].kids[i] \in Nat
<1>1. i \in DOMAIN Nodes[n].kids /\ Nodes[n].kids[i] \in NodeId
  BY NodeType
<1>2. NodeId \subseteq Nat
  BY TreeAssumption
<1>3. Nodes[n].kids[i] < n
  BY <1>1, TreeAssumption, Zenon
<1> QED BY <1>1, <1>2, <1>3

\* What is below a node is closed under children, and has smaller ids.
LEMMA BelowClosed ==
  ASSUME NEW n \in NodeId
  PROVE  /\ n \in Below(n) /\ Below(n) \subseteq NodeId
         /\ \A m \in Below(n) : m <= n
         /\ \A m \in Below(n) : \A i \in 1 .. Len(Nodes[m].kids) : Nodes[m].kids[i] \in Below(n)
<1> DEFINE Kids(m) == {Nodes[m].kids[i] : i \in DOMAIN Nodes[m].kids}
           Good(m) == /\ Below(m) \subseteq NodeId /\ \A x \in Below(m) : x <= m
                      /\ \A x \in Below(m) : Kids(x) \subseteq Below(m)
           bad == {m \in NodeId : ~Good(m)}
<1>1. NodeId \subseteq Nat
  BY TreeAssumption
<1>2. ASSUME NEW m \in NodeId, NEW c \in Kids(m) PROVE c \in NodeId /\ c < m
  <2>1. PICK i \in DOMAIN Nodes[m].kids : c = Nodes[m].kids[i]
    OBVIOUS
  <2>2. i \in 1 .. Len(Nodes[m].kids)
    BY NodeType
  <2> QED BY <2>1, <2>2, KidsFirst
<1>3. ASSUME NEW m \in NodeId PROVE Below(m) = {m} \cup UNION {Below(c) : c \in Kids(m)}
  BY BelowStep
<1>4. bad = {}
  <2> SUFFICES ASSUME bad # {} PROVE FALSE
    OBVIOUS
  <2>1. bad \subseteq Nat
    BY <1>1
  <2>2. PICK m \in bad : \A q \in bad : m <= q
    BY <2>1, Least
  <2>3. m \in NodeId /\ ~Good(m) /\ m \in Nat
    BY <2>1
  <2>4. ASSUME NEW c \in Kids(m) PROVE Good(c) /\ c \in NodeId /\ c < m
    <3>1. c \in NodeId /\ c < m
      BY <1>2, <2>3
    <3>2. c \notin bad
      BY <1>1, <2>2, <2>3, <3>1
    <3> QED BY <3>1, <3>2
  <2>5. ASSUME NEW x \in Below(m) PROVE x \in NodeId /\ x <= m /\ Kids(x) \subseteq Below(m)
    <3>1. CASE x = m
      <4>1. \A c \in Kids(m) : c \in Below(c)
        BY <1>3, <2>4
      <4>2. Kids(m) \subseteq Below(m)
        <5> HIDE DEF Kids
        <5> QED BY <1>3, <2>3, <4>1
      <4> HIDE DEF Kids
      <4> QED BY <2>3, <3>1, <4>2
    <3>2. CASE x # m
      <4>1. PICK c \in Kids(m) : x \in Below(c)
        <5> HIDE DEF Kids
        <5> QED BY <1>3, <2>3, <2>5, <3>2
      <4>2. x \in NodeId /\ x <= c /\ Kids(x) \subseteq Below(c) /\ c < m /\ c \in NodeId
        BY <2>4, <4>1
      <4>3. Below(c) \subseteq Below(m)
        <5> HIDE DEF Kids
        <5> QED BY <1>3, <2>3, <4>1
      <4>4. x <= m
        BY <1>1, <2>3, <4>2
      <4> HIDE DEF Kids
      <4> QED BY <4>2, <4>3, <4>4
    <3> QED BY <3>1, <3>2
  <2> HIDE DEF Kids
  <2> QED BY <2>3, <2>5
<1>5. Good(n)
  BY <1>4
<1>6. n \in Below(n)
  BY <1>3
<1>7. \A m \in Below(n) : \A i \in 1 .. Len(Nodes[m].kids) : Nodes[m].kids[i] \in Kids(m)
  <2> SUFFICES ASSUME NEW m \in Below(n), NEW i \in 1 .. Len(Nodes[m].kids) PROVE Nodes[m].kids[i] \in Kids(m)
    OBVIOUS
  <2>1. m \in NodeId
    BY <1>5
  <2>2. i \in DOMAIN Nodes[m].kids
    BY <2>1, NodeType
  <2> QED BY <2>2
<1>8. \A m \in Below(n) : \A i \in 1 .. Len(Nodes[m].kids) : Nodes[m].kids[i] \in Below(n)
  <2> HIDE DEF Kids
  <2> QED BY <1>5, <1>7
<1> QED BY <1>5, <1>6, <1>8

\* A child is below its parent, is not above it, and shares nothing with its siblings.
LEMMA BelowKid ==
  ASSUME NEW n \in NodeId, NEW i \in 1 .. Len(Nodes[n].kids)
  PROVE  /\ Below(Nodes[n].kids[i]) \subseteq Below(n) /\ n \notin Below(Nodes[n].kids[i])
         /\ \A j \in 1 .. Len(Nodes[n].kids) :
              i # j => Below(Nodes[n].kids[i]) \cap Below(Nodes[n].kids[j]) = {}
<1> DEFINE c == Nodes[n].kids[i]
<1>1. i \in DOMAIN Nodes[n].kids /\ c \in NodeId /\ DOMAIN Nodes[n].kids = 1 .. Len(Nodes[n].kids)
  BY NodeType
<1>2. c < n /\ c \in Nat /\ n \in Nat
  BY KidsFirst
<1>3. \A m \in Below(c) : m <= c
  BY <1>1, BelowClosed
<1>4. n \notin Below(c)
  <2> HIDE DEF c
  <2> QED BY <1>2, <1>3
<1>5. Below(c) \subseteq Below(n)
  BY <1>1, BelowStep
<1>6. \A j \in DOMAIN Nodes[n].kids \ {i} : Below(c) \cap Below(Nodes[n].kids[j]) = {}
  BY <1>1, TreeAssumption
<1> QED BY <1>1, <1>4, <1>5, <1>6

\* No node is the child of two nodes below n, or twice the child of one.
LEMMA OneAbove ==
  ASSUME NEW n \in NodeId
  PROVE  \A a, b \in Below(n) : \A i \in 1 .. Len(Nodes[a].kids) : \A j \in 1 .. Len(Nodes[b].kids) :
           Nodes[a].kids[i] = Nodes[b].kids[j] => a = b /\ i = j
<1> DEFINE Good(m) == \A a, b \in Below(m) :
             \A i \in 1 .. Len(Nodes[a].kids) : \A j \in 1 .. Len(Nodes[b].kids) :
               Nodes[a].kids[i] = Nodes[b].kids[j] => a = b /\ i = j
           bad == {m \in NodeId : ~Good(m)}
<1>1. bad \subseteq Nat
  BY TreeAssumption
<1>2. SUFFICES ASSUME bad # {} PROVE FALSE
  <2> HIDE DEF Good
  <2>1. bad = {}
    BY <1>2
  <2>2. Good(n)
    BY <2>1
  <2> QED BY <2>2 DEF Good
<1>3. PICK m \in bad : \A q \in bad : m <= q
  <2> HIDE DEF bad
  <2> QED BY <1>1, <1>2, Least
<1>4. m \in NodeId /\ ~Good(m)
  OBVIOUS
<1> DEFINE K == 1 .. Len(Nodes[m].kids)
           kid(i) == Nodes[m].kids[i]
<1>5. ASSUME NEW x \in Below(m), x # m PROVE \E i \in K : x \in Below(kid(i))
  <2>1. PICK c \in {Nodes[m].kids[i] : i \in DOMAIN Nodes[m].kids} : x \in Below(c)
    BY <1>4, <1>5, BelowStep
  <2>2. DOMAIN Nodes[m].kids = K
    BY <1>4, NodeType
  <2> QED BY <2>1, <2>2
<1>6. ASSUME NEW i \in K PROVE Good(kid(i))
  <2>1. kid(i) \in NodeId /\ kid(i) < m /\ m \in Nat /\ kid(i) \in Nat
    BY <1>4, KidsFirst
  <2> HIDE DEF Good, kid, K
  <2>2. kid(i) \notin bad
    <3> SUFFICES ASSUME kid(i) \in bad PROVE FALSE
      OBVIOUS
    <3>1. m <= kid(i)
      BY <1>3
    <3> QED BY <2>1, <3>1
  <2> QED BY <2>1, <2>2
<1>7. ASSUME NEW i \in K, NEW j \in K, NEW x \in Below(kid(i)), x \in Below(kid(j)) PROVE i = j
  BY <1>4, <1>7, BelowKid
<1>8. ASSUME NEW x \in Below(m), x # m, NEW j \in 1 .. Len(Nodes[x].kids), NEW i \in K PROVE kid(i) # Nodes[x].kids[j]
  <2> SUFFICES ASSUME kid(i) = Nodes[x].kids[j] PROVE FALSE
    OBVIOUS
  <2>1. PICK k \in K : x \in Below(kid(k))
    BY <1>5, <1>8
  <2>2. kid(k) \in NodeId /\ kid(i) \in NodeId
    BY <1>4, KidsFirst
  <2>3. x \in NodeId /\ x <= kid(k) /\ Nodes[x].kids[j] \in Below(kid(k))
    <3> HIDE DEF kid, K
    <3> QED BY <2>1, <2>2, BelowClosed
  <2>4. kid(i) \in Below(kid(i))
    <3> HIDE DEF kid, K
    <3> QED BY <2>2, BelowClosed
  <2>5. i = k
    <3> HIDE DEF kid, K
    <3> QED BY <1>7, <2>3, <2>4
  <2>6. Nodes[x].kids[j] < x /\ x \in Nat /\ Nodes[x].kids[j] \in Nat
    BY <2>3, KidsFirst
  <2>7. kid(k) \in Nat
    BY <1>4, KidsFirst
  <2> HIDE DEF kid, K
  <2> QED BY <2>3, <2>5, <2>6, <2>7
<1>9. ASSUME NEW a \in Below(m), NEW b \in Below(m),
             NEW i \in 1 .. Len(Nodes[a].kids), NEW j \in 1 .. Len(Nodes[b].kids),
             Nodes[a].kids[i] = Nodes[b].kids[j]
      PROVE  a = b /\ i = j
  <2>1. CASE a = m /\ b = m
    <3>1. kid(j) \in NodeId
      BY <1>4, <2>1, KidsFirst
    <3>2. kid(j) \in Below(kid(j)) /\ kid(i) = kid(j) /\ i \in K /\ j \in K
      BY <1>9, <2>1, <3>1, BelowClosed
    <3>3. i = j
      BY <1>7, <3>2
    <3> QED BY <2>1, <3>3
  <2>2. CASE a = m /\ b # m
    BY <1>8, <1>9, <2>2
  <2>3. CASE a # m /\ b = m
    BY <1>8, <1>9, <2>3
  <2>4. CASE a # m /\ b # m
    <3>1. PICK k \in K : a \in Below(kid(k))
      BY <1>5, <2>4
    <3>2. PICK l \in K : b \in Below(kid(l))
      BY <1>5, <2>4
    <3>3. kid(k) \in NodeId /\ kid(l) \in NodeId
      BY <1>4, KidsFirst
    <3> HIDE DEF kid, K
    <3>4. Nodes[a].kids[i] \in Below(kid(k)) /\ Nodes[b].kids[j] \in Below(kid(l))
      BY <3>1, <3>2, <3>3, BelowClosed
    <3>5. k = l
      BY <1>7, <1>9, <3>4
    <3>6. Good(kid(k))
      BY <1>6
    <3> QED BY <1>9, <3>1, <3>2, <3>5, <3>6
  <2> QED BY <2>1, <2>2, <2>3, <2>4
<1> QED BY <1>4, <1>9

LEMMA ProgramNodes ==
  ASSUME NEW p \in Programs
  PROVE  /\ p \in Seq(NodeId) /\ DOMAIN p = 1 .. Len(p) /\ Len(p) \in Nat
         /\ \A i \in 1 .. Len(p) : /\ p[i] \in NodeId /\ Below(p[i]) \subseteq NodesOf(p)
                                   /\ Nodes[p[i]].k \in {"VarDecl", "Func"} /\ p[i] \in NodesOf(p)
         /\ \A n \in NodesOf(p) : n \in NodeId /\ \E i \in 1 .. Len(p) : n \in Below(p[i])
         /\ \A n \in NodesOf(p) : \A i \in 1 .. Len(Nodes[n].kids) : Nodes[n].kids[i] \in NodesOf(p)
         /\ \A i, j \in 1 .. Len(p) : \A n : n \in Below(p[i]) /\ n \in Below(p[j]) => i = j
<1>1. p \in Seq(NodeId) /\ DOMAIN p = 1 .. Len(p) /\ Len(p) \in Nat /\ AllIn(p, DeclKind)
  BY ProgramAssumption
<1>2. ASSUME NEW i \in 1 .. Len(p)
      PROVE  /\ p[i] \in NodeId /\ Below(p[i]) \subseteq NodesOf(p)
             /\ Nodes[p[i]].k \in {"VarDecl", "Func"} /\ p[i] \in NodesOf(p)
  <2>1. p[i] \in NodeId
    BY <1>1
  <2>2. Nodes[p[i]].k \in {"VarDecl", "Func"}
    BY <1>1 DEF AllIn, DeclKind
  <2>3. Below(p[i]) \subseteq NodesOf(p)
    BY <1>1 DEF NodesOf
  <2>4. p[i] \in Below(p[i])
    BY <2>1, BelowClosed
  <2> QED BY <2>1, <2>2, <2>3, <2>4
<1>3. ASSUME NEW n \in NodesOf(p) PROVE \E i \in 1 .. Len(p) : n \in Below(p[i])
  BY <1>1 DEF NodesOf
<1>4. ASSUME NEW n \in NodesOf(p)
      PROVE  n \in NodeId /\ \A i \in 1 .. Len(Nodes[n].kids) : Nodes[n].kids[i] \in NodesOf(p)
  <2>1. PICK i \in 1 .. Len(p) : n \in Below(p[i])
    BY <1>3
  <2>2. p[i] \in NodeId /\ Below(p[i]) \subseteq NodesOf(p)
    BY <1>2
  <2> QED BY <2>1, <2>2, BelowClosed
<1>5. \A i, j \in 1 .. Len(p) : \A n : n \in Below(p[i]) /\ n \in Below(p[j]) => i = j
  BY <1>1, TreeAssumption
<1> QED BY <1>1, <1>2, <1>3, <1>4, <1>5

LEMMA RetOfDecl ==
  ASSUME NEW p \in Programs, NEW i \in 1 .. Len(p), NEW n \in Below(p[i])
  PROVE  RetOf(p, n) = Nodes[p[i]].ty
<1>1. DOMAIN p = 1 .. Len(p) /\ \A j \in 1 .. Len(p) : n \in Below(p[j]) => j = i
  BY ProgramNodes
<1>2. (CHOOSE j \in DOMAIN p : n \in Below(p[j])) = i
  BY <1>1
<1> QED BY <1>2 DEF RetOf

\* A node of a program is a declaration, or the child of one node.
LEMMA OneAboveIn ==
  ASSUME NEW p \in Programs, NEW a \in NodesOf(p), NEW i \in 1 .. Len(Nodes[a].kids)
  PROVE  /\ \A b \in NodesOf(p) : \A j \in 1 .. Len(Nodes[b].kids) :
              Nodes[a].kids[i] = Nodes[b].kids[j] => a = b /\ i = j
         /\ \A j \in 1 .. Len(p) : p[j] # Nodes[a].kids[i]
<1> DEFINE m == Nodes[a].kids[i]
<1>1. PICK k \in 1 .. Len(p) : a \in Below(p[k])
  BY ProgramNodes
<1>2. p[k] \in NodeId /\ a \in NodeId
  BY ProgramNodes
<1>3. m \in Below(p[k]) /\ m \in NodeId /\ m < a /\ a <= p[k] /\ m \in Nat /\ a \in Nat
  BY <1>1, <1>2, BelowClosed, KidsFirst
<1>4. ASSUME NEW b \in NodesOf(p), NEW j \in 1 .. Len(Nodes[b].kids), m = Nodes[b].kids[j]
      PROVE  a = b /\ i = j
  <2>1. PICK l \in 1 .. Len(p) : b \in Below(p[l])
    BY ProgramNodes
  <2>2. p[l] \in NodeId
    BY ProgramNodes
  <2>3. m \in Below(p[l])
    BY <1>4, <2>1, <2>2, BelowClosed
  <2>4. k = l
    BY <1>3, <2>3, ProgramNodes
  <2> QED BY <1>1, <1>2, <1>4, <2>1, <2>4, OneAbove
<1>5. ASSUME NEW j \in 1 .. Len(p), p[j] = m PROVE FALSE
  <2>1. p[j] \in Below(p[j]) /\ p[j] \in NodeId
    BY ProgramNodes, BelowClosed
  <2>2. j = k
    BY <1>3, <1>5, <2>1, ProgramNodes
  <2>3. p[k] \in Nat
    BY <1>3, <1>5, <2>2
  <2> HIDE DEF m
  <2> QED BY <1>3, <1>5, <2>2, <2>3
<1> QED BY <1>4, <1>5

\* Below n, every node but n is a child.
LEMMA HasAbove ==
  ASSUME NEW n \in NodeId, NEW m \in Below(n), m # n
  PROVE  \E a \in Below(n) : \E i \in 1 .. Len(Nodes[a].kids) : Nodes[a].kids[i] = m
<1> DEFINE Good(x) == \A y \in Below(x) : y = x \/ \E a \in Below(x) : \E i \in 1 .. Len(Nodes[a].kids) : Nodes[a].kids[i] = y
           bad == {x \in NodeId : ~Good(x)}
<1>1. bad \subseteq Nat
  BY TreeAssumption
<1>2. SUFFICES ASSUME bad # {} PROVE FALSE
  <2> HIDE DEF Good
  <2>1. bad = {}
    BY <1>2
  <2>2. Good(n)
    BY <2>1
  <2> QED BY <2>2 DEF Good
<1>3. PICK x \in bad : \A q \in bad : x <= q
  <2> HIDE DEF bad
  <2> QED BY <1>1, <1>2, Least
<1>4. x \in NodeId /\ ~Good(x)
  OBVIOUS
<1>5. ASSUME NEW y \in Below(x), y # x
      PROVE  \E a \in Below(x) : \E i \in 1 .. Len(Nodes[a].kids) : Nodes[a].kids[i] = y
  <2>1. PICK c \in {Nodes[x].kids[i] : i \in DOMAIN Nodes[x].kids} : y \in Below(c)
    BY <1>4, <1>5, BelowStep
  <2>2. DOMAIN Nodes[x].kids = 1 .. Len(Nodes[x].kids)
    BY <1>4, NodeType
  <2>3. PICK i \in 1 .. Len(Nodes[x].kids) : c = Nodes[x].kids[i]
    BY <2>1, <2>2
  <2>4. c \in NodeId /\ c < x /\ x \in Nat /\ c \in Nat /\ Below(c) \subseteq Below(x)
    BY <1>4, <2>3, KidsFirst, BelowKid
  <2>5. Good(c)
    <3> HIDE DEF Good
    <3>1. c \notin bad
      <4> SUFFICES ASSUME c \in bad PROVE FALSE
        OBVIOUS
      <4>1. x <= c
        BY <1>3
      <4> QED BY <2>4, <4>1
    <3> QED BY <2>4, <3>1
  <2>6. CASE y = c
    <3>1. x \in Below(x)
      BY <1>4, BelowClosed
    <3> QED BY <2>3, <2>6, <3>1
  <2>7. CASE y # c
    BY <2>1, <2>4, <2>5, <2>7
  <2> QED BY <2>6, <2>7
<1> QED BY <1>4, <1>5

(***************************************************************************)
(* The scopes and the returns of a node.                                   *)
(***************************************************************************)
\* Everything below n can be put in scopes, whatever the scopes of n.
Laid(f, n, ss) ==
  /\ f[n] = ss
  /\ \A m \in Below(n) : \A i \in 1 .. Len(Nodes[m].kids) : f[Nodes[m].kids[i]] = Inside(f[m], Nodes[m], i)

LEMMA ScopesBelow ==
  ASSUME NEW n \in NodeId, NEW ss
  PROVE  \E f : Laid(f, n, ss)
<1> DEFINE Good(m) == \A s : \E f : Laid(f, m, s)
           bad == {m \in NodeId : ~Good(m)}
<1>1. bad \subseteq Nat
  BY TreeAssumption
<1>2. SUFFICES ASSUME bad # {} PROVE FALSE
  <2> HIDE DEF Good
  <2>1. bad = {}
    BY <1>2
  <2>2. Good(n)
    BY <2>1
  <2> QED BY <2>2 DEF Good
<1>3. PICK m \in bad : \A q \in bad : m <= q
  <2> HIDE DEF bad
  <2> QED BY <1>1, <1>2, Least
<1>4. m \in NodeId /\ ~Good(m)
  OBVIOUS
<1>5. PICK s : ~\E f : Laid(f, m, s)
  BY <1>4
<1> DEFINE K == 1 .. Len(Nodes[m].kids)
           kid(i) == Nodes[m].kids[i]
           F == [i \in K |-> CHOOSE f : Laid(f, kid(i), Inside(s, Nodes[m], i))]
           g == [x \in NodeId |-> IF x = m THEN s ELSE F[CHOOSE i \in K : x \in Below(kid(i))][x]]
<1>6. ASSUME NEW i \in K PROVE Laid(F[i], kid(i), Inside(s, Nodes[m], i))
  <2>1. kid(i) \in NodeId /\ kid(i) < m /\ m \in Nat /\ kid(i) \in Nat
    BY <1>4, KidsFirst
  <2>2. Good(kid(i))
    <3> HIDE DEF Good, kid, K
    <3>1. kid(i) \notin bad
      <4> SUFFICES ASSUME kid(i) \in bad PROVE FALSE
        OBVIOUS
      <4>1. m <= kid(i)
        BY <1>3
      <4> QED BY <2>1, <4>1
    <3> QED BY <2>1, <3>1
  <2>3. \E f : Laid(f, kid(i), Inside(s, Nodes[m], i))
    <3> HIDE DEF kid, K
    <3> QED BY <2>2
  <2> HIDE DEF kid, K
  <2>4. F[i] = CHOOSE f : Laid(f, kid(i), Inside(s, Nodes[m], i))
    OBVIOUS
  <2> QED BY <2>3, <2>4
<1>7. ASSUME NEW i \in K, NEW x \in Below(kid(i)) PROVE x \in NodeId /\ x # m /\ g[x] = F[i][x]
  <2>1. kid(i) \in NodeId /\ m \notin Below(kid(i))
    BY <1>4, BelowKid, KidsFirst
  <2>2. \A j \in K : x \in Below(kid(j)) => j = i
    BY <1>4, <1>7, BelowKid
  <2> HIDE DEF kid, K
  <2>3. x \in NodeId /\ x # m
    BY <2>1, BelowClosed
  <2>4. (CHOOSE j \in K : x \in Below(kid(j))) = i
    BY <2>2, <1>7
  <2> HIDE DEF F
  <2> QED BY <2>3, <2>4
<1>8. g[m] = s
  BY <1>4
<1>9. ASSUME NEW x \in Below(m), NEW i \in 1 .. Len(Nodes[x].kids)
      PROVE  g[Nodes[x].kids[i]] = Inside(g[x], Nodes[x], i)
  <2>1. CASE x = m
    <3>1. kid(i) \in NodeId /\ i \in K
      BY <1>4, <2>1, KidsFirst
    <3> HIDE DEF g, F, kid, K
    <3>2. kid(i) \in Below(kid(i))
      BY <3>1, BelowClosed
    <3>3. g[kid(i)] = F[i][kid(i)]
      BY <1>7, <3>1, <3>2
    <3>4. F[i][kid(i)] = Inside(s, Nodes[m], i)
      BY <1>6, <3>1 DEF Laid
    <3>5. kid(i) = Nodes[x].kids[i]
      BY <2>1 DEF kid
    <3> QED BY <1>8, <2>1, <3>3, <3>4, <3>5
  <2>2. CASE x # m
    <3>1. PICK c \in {Nodes[m].kids[j] : j \in DOMAIN Nodes[m].kids} : x \in Below(c)
      BY <1>4, <2>2, BelowStep
    <3>2. DOMAIN Nodes[m].kids = K
      BY <1>4, NodeType
    <3>3. PICK k \in K : x \in Below(kid(k))
      BY <3>1, <3>2
    <3>4. kid(k) \in NodeId
      BY <1>4, KidsFirst
    <3> HIDE DEF g, F, kid, K
    <3>5. Nodes[x].kids[i] \in Below(kid(k))
      BY <3>3, <3>4, BelowClosed
    <3>6. F[k][Nodes[x].kids[i]] = Inside(F[k][x], Nodes[x], i)
      BY <1>6, <3>3 DEF Laid
    <3> QED BY <1>7, <3>3, <3>5, <3>6
  <2> QED BY <2>1, <2>2
<1>10. Laid(g, m, s)
  <2> HIDE DEF g
  <2> QED BY <1>8, <1>9 DEF Laid
<1> QED BY <1>5, <1>10

\* ScopesOf is what its recursion says.
LEMMA ScopesStep ==
  ASSUME NEW p \in Programs
  PROVE  /\ \A i \in 1 .. Len(p) : ScopesOf(p)[p[i]] = DeclScopes(p, i)
         /\ \A n \in NodesOf(p) : \A i \in 1 .. Len(Nodes[n].kids) :
              ScopesOf(p)[Nodes[n].kids[i]] = Inside(ScopesOf(p)[n], Nodes[n], i)
<1> DEFINE nodes == NodesOf(p)
           above(m) == CHOOSE n \in nodes : \E i \in DOMAIN Nodes[n].kids : Nodes[n].kids[i] = m
           place(n, m) == CHOOSE i \in DOMAIN Nodes[n].kids : Nodes[n].kids[i] = m
           Rule(f, m) == IF \E i \in DOMAIN p : p[i] = m THEN DeclScopes(p, CHOOSE i \in DOMAIN p : p[i] = m)
                         ELSE Inside(f[above(m)], Nodes[above(m)], place(above(m), m))
           Solves(f) == f = [m \in nodes |-> Rule(f, m)]
           F == [i \in 1 .. Len(p) |-> CHOOSE f : Laid(f, p[i], DeclScopes(p, i))]
           g == [m \in nodes |-> F[CHOOSE i \in 1 .. Len(p) : m \in Below(p[i])][m]]
<1>1. DOMAIN p = 1 .. Len(p)
  BY ProgramNodes
<1>2. ASSUME NEW i \in 1 .. Len(p) PROVE (CHOOSE j \in DOMAIN p : p[j] = p[i]) = i
  <2>1. p[i] \in Below(p[i])
    BY ProgramNodes, BelowClosed
  <2>2. \A j \in 1 .. Len(p) : p[j] = p[i] => j = i
    BY <2>1, ProgramNodes
  <2> QED BY <1>1, <2>2
<1>3. ASSUME NEW n \in nodes, NEW i \in 1 .. Len(Nodes[n].kids)
      PROVE  /\ above(Nodes[n].kids[i]) = n /\ place(n, Nodes[n].kids[i]) = i
             /\ ~\E j \in DOMAIN p : p[j] = Nodes[n].kids[i]
             /\ Nodes[n].kids[i] \in nodes
  <2>1. \A b \in nodes : DOMAIN Nodes[b].kids = 1 .. Len(Nodes[b].kids)
    BY ProgramNodes, NodeType
  <2>2. \A b \in nodes : \A j \in DOMAIN Nodes[b].kids : Nodes[n].kids[i] = Nodes[b].kids[j] => n = b /\ i = j
    BY <2>1, OneAboveIn
  <2>3. ~\E j \in DOMAIN p : p[j] = Nodes[n].kids[i]
    BY <1>1, OneAboveIn
  <2>4. Nodes[n].kids[i] \in nodes
    BY ProgramNodes
  <2> HIDE DEF nodes
  <2>5. above(Nodes[n].kids[i]) = n /\ place(n, Nodes[n].kids[i]) = i
    BY <2>1, <2>2
  <2> QED BY <2>3, <2>4, <2>5
<1>4. ASSUME NEW f,
             \A i \in 1 .. Len(p) : f[p[i]] = DeclScopes(p, i),
             \A n \in nodes : \A i \in 1 .. Len(Nodes[n].kids) :
               f[Nodes[n].kids[i]] = Inside(f[n], Nodes[n], i),
             NEW m \in nodes
      PROVE  f[m] = Rule(f, m)
  <2>1. CASE \E i \in DOMAIN p : p[i] = m
    <3>1. PICK i \in 1 .. Len(p) : p[i] = m
      BY <1>1, <2>1
    <3> QED BY <1>2, <1>4, <2>1, <3>1
  <2>2. CASE ~\E i \in DOMAIN p : p[i] = m
    <3>1. PICK k \in 1 .. Len(p) : m \in Below(p[k])
      BY ProgramNodes
    <3>2. p[k] \in NodeId /\ m # p[k] /\ Below(p[k]) \subseteq nodes
      BY <1>1, <2>2, ProgramNodes
    <3>3. \E n \in Below(p[k]) : \E i \in 1 .. Len(Nodes[n].kids) : Nodes[n].kids[i] = m
      BY <3>1, <3>2, HasAbove
    <3>4. PICK n \in nodes : \E i \in 1 .. Len(Nodes[n].kids) : Nodes[n].kids[i] = m
      BY <3>2, <3>3
    <3>5. PICK i \in 1 .. Len(Nodes[n].kids) : Nodes[n].kids[i] = m
      BY <3>4
    <3>6. above(m) = n /\ place(above(m), m) = i
      <4>1. above(Nodes[n].kids[i]) = n /\ place(n, Nodes[n].kids[i]) = i
        BY <1>3
      <4> HIDE DEF above, place
      <4> QED BY <3>5, <4>1
    <3>7. f[m] = Inside(f[n], Nodes[n], i)
      BY <1>4, <3>5
    <3> HIDE DEF above, place
    <3> QED BY <2>2, <3>6, <3>7
  <2> QED BY <2>1, <2>2
<1>5. ASSUME NEW i \in 1 .. Len(p) PROVE Laid(F[i], p[i], DeclScopes(p, i))
  <2>1. p[i] \in NodeId
    BY ProgramNodes
  <2>2. \E f : Laid(f, p[i], DeclScopes(p, i))
    BY <2>1, ScopesBelow
  <2> QED BY <2>2
<1>6. ASSUME NEW i \in 1 .. Len(p), NEW m \in Below(p[i]) PROVE g[m] = F[i][m]
  <2>1. m \in nodes
    BY ProgramNodes
  <2>2. (CHOOSE j \in 1 .. Len(p) : m \in Below(p[j])) = i
    BY ProgramNodes
  <2> HIDE DEF F
  <2> QED BY <2>1, <2>2
<1>7. \A i \in 1 .. Len(p) : g[p[i]] = DeclScopes(p, i)
  <2> SUFFICES ASSUME NEW i \in 1 .. Len(p) PROVE g[p[i]] = DeclScopes(p, i)
    OBVIOUS
  <2>1. p[i] \in Below(p[i])
    BY ProgramNodes, BelowClosed
  <2> HIDE DEF g, F
  <2> QED BY <1>5, <1>6, <2>1 DEF Laid
<1>8. \A n \in nodes : \A i \in 1 .. Len(Nodes[n].kids) : g[Nodes[n].kids[i]] = Inside(g[n], Nodes[n], i)
  <2> SUFFICES ASSUME NEW n \in nodes, NEW i \in 1 .. Len(Nodes[n].kids)
               PROVE  g[Nodes[n].kids[i]] = Inside(g[n], Nodes[n], i)
    OBVIOUS
  <2>1. PICK k \in 1 .. Len(p) : n \in Below(p[k])
    BY ProgramNodes
  <2>2. Nodes[n].kids[i] \in Below(p[k])
    BY <2>1, ProgramNodes, BelowClosed
  <2> HIDE DEF g, F
  <2>3. F[k][Nodes[n].kids[i]] = Inside(F[k][n], Nodes[n], i)
    BY <1>5, <2>1 DEF Laid
  <2> QED BY <1>6, <2>1, <2>2, <2>3
<1>9. Solves(g)
  <2>1. \A m \in nodes : g[m] = Rule(g, m)
    <3> HIDE DEF g, Rule
    <3> QED BY <1>4, <1>7, <1>8
  <2>2. g = [m \in nodes |-> g[m]]
    OBVIOUS
  <2> HIDE DEF g, Rule
  <2> QED BY <2>1, <2>2
<1> DEFINE f == CHOOSE f : Solves(f)
<1>10. Solves(f)
  <2> HIDE DEF Solves, g
  <2> QED BY <1>9
<1>11. ScopesOf(p) = f
  BY DEF ScopesOf
<1> HIDE DEF f
<1>12. \A m \in nodes : f[m] = Rule(f, m)
  <2> HIDE DEF Rule
  <2> QED BY <1>10
<1>13. ASSUME NEW i \in 1 .. Len(p) PROVE f[p[i]] = DeclScopes(p, i)
  <2>1. p[i] \in nodes
    BY ProgramNodes
  <2> QED BY <1>1, <1>2, <1>12, <2>1
<1>14. ASSUME NEW n \in nodes, NEW i \in 1 .. Len(Nodes[n].kids)
       PROVE  f[Nodes[n].kids[i]] = Inside(f[n], Nodes[n], i)
  <2> DEFINE m == Nodes[n].kids[i]
  <2>1. m \in nodes /\ above(m) = n /\ place(n, m) = i /\ ~\E j \in DOMAIN p : p[j] = m
    BY <1>3
  <2>2. f[m] = Rule(f, m)
    BY <1>12, <2>1
  <2> HIDE DEF m, above, place
  <2>3. f[m] = Inside(f[n], Nodes[n], i)
    BY <2>1, <2>2
  <2> QED BY <2>3 DEF m
<1> QED BY <1>11, <1>13, <1>14

\* MustReturn is what its recursion says.  (The least set that is closed under the rule
\* is a solution, so there is one to choose.)
LEMMA MustReturnStep ==
  ASSUME NEW n \in NodeId
  PROVE  MustReturn(n) <=>
           \/ Nodes[n].k = "Return"
           \/ /\ Nodes[n].k \in {"Block", "Func"}
              /\ \E i \in 1 .. Len(Nodes[n].kids) : MustReturn(Nodes[n].kids[i])
           \/ /\ Nodes[n].k = "If" /\ Len(Nodes[n].kids) = 3
              /\ MustReturn(Nodes[n].kids[2]) /\ MustReturn(Nodes[n].kids[3])
<1> DEFINE Rule(f, m) ==
             LET nd == Nodes[m]
             IN  \/ nd.k = "Return"
                 \/ nd.k \in {"Block", "Func"} /\ \E i \in DOMAIN nd.kids : f[nd.kids[i]]
                 \/ nd.k = "If" /\ Len(nd.kids) = 3 /\ f[nd.kids[2]] /\ f[nd.kids[3]]
           InRule(R, m) ==
             LET nd == Nodes[m]
             IN  \/ nd.k = "Return"
                 \/ nd.k \in {"Block", "Func"} /\ \E i \in DOMAIN nd.kids : nd.kids[i] \in R
                 \/ nd.k = "If" /\ Len(nd.kids) = 3 /\ nd.kids[2] \in R /\ nd.kids[3] \in R
           Closed(R) == \A m \in NodeId : InRule(R, m) => m \in R
           L == {m \in NodeId : \A R \in SUBSET NodeId : Closed(R) => m \in R}
           g == [m \in NodeId |-> m \in L]
           Solves(f) == f = [m \in NodeId |-> Rule(f, m)]
<1>1. ASSUME NEW m \in NodeId
      PROVE  /\ DOMAIN Nodes[m].kids = 1 .. Len(Nodes[m].kids)
             /\ \A i \in DOMAIN Nodes[m].kids : Nodes[m].kids[i] \in NodeId
             /\ Len(Nodes[m].kids) = 3 => Nodes[m].kids[2] \in NodeId /\ Nodes[m].kids[3] \in NodeId
  BY NodeType
<1>2. ASSUME NEW m \in NodeId, NEW R \in SUBSET NodeId, L \subseteq R, InRule(L, m) PROVE InRule(R, m)
  <2> HIDE DEF L
  <2> QED BY <1>2
<1>3. ASSUME NEW m \in NodeId, InRule(L, m) PROVE m \in L
  <2>1. ASSUME NEW R \in SUBSET NodeId, Closed(R) PROVE m \in R
    <3>1. L \subseteq R
      BY <2>1
    <3> HIDE DEF L, InRule
    <3> QED BY <1>2, <1>3, <2>1, <3>1
  <2> HIDE DEF Closed
  <2> QED BY <2>1
<1>4. ASSUME NEW m \in L PROVE InRule(L, m)
  <2> DEFINE R == L \ {m}
  <2>1. SUFFICES ASSUME ~InRule(L, m) PROVE FALSE
    OBVIOUS
  <2>2. R \in SUBSET NodeId /\ m \notin R /\ m \in NodeId /\ R \subseteq L
    OBVIOUS
  <2>3. ASSUME NEW x \in NodeId, InRule(R, x) PROVE x \in R
    <3>1. InRule(L, x)
      <4> HIDE DEF L
      <4> QED BY <2>3
    <3>2. x # m
      <4> HIDE DEF L, R, InRule
      <4> QED BY <2>1, <3>1
    <3>3. x \in L
      BY <1>3, <3>1
    <3> HIDE DEF L, InRule
    <3> QED BY <3>2, <3>3
  <2>4. Closed(R)
    <3> HIDE DEF InRule, R
    <3> QED BY <2>3
  <2>5. m \in R
    <3> HIDE DEF Closed, R
    <3> QED BY <2>2, <2>4
  <2> QED BY <2>2, <2>5
<1>5. ASSUME NEW m \in NodeId PROVE (m \in L) <=> InRule(L, m)
  <2> HIDE DEF L, InRule
  <2> QED BY <1>3, <1>4
<1>6. ASSUME NEW m \in NodeId PROVE InRule(L, m) <=> Rule(g, m)
  <2>1. \A x \in NodeId : g[x] <=> x \in L
    <3> HIDE DEF L
    <3> QED OBVIOUS
  <2> HIDE DEF L, g
  <2>2. CASE Nodes[m].k = "Return"
    BY <2>2
  <2>3. CASE Nodes[m].k \in {"Block", "Func"}
    BY <1>1, <2>1, <2>3
  <2>4. CASE Nodes[m].k = "If"
    BY <1>1, <2>1, <2>4
  <2>5. CASE Nodes[m].k \notin {"Return", "Block", "Func", "If"}
    BY <2>5
  <2> QED BY <2>2, <2>3, <2>4, <2>5
<1>7. Solves(g)
  <2>1. ASSUME NEW m \in NodeId PROVE (m \in L) = Rule(g, m)
    <3> HIDE DEF L, g, InRule
    <3>1. (m \in L) <=> Rule(g, m)
      <4> HIDE DEF Rule
      <4> QED BY <1>5, <1>6
    <3>2. CASE Rule(g, m)
      <4>1. (m \in L) = TRUE
        <5> HIDE DEF Rule
        <5> QED BY <3>1, <3>2
      <4>2. Rule(g, m) = TRUE
        BY <3>2
      <4> HIDE DEF Rule
      <4> QED BY <4>1, <4>2
    <3>3. CASE ~Rule(g, m)
      <4>1. (m \in L) = FALSE
        <5> HIDE DEF Rule
        <5> QED BY <3>1, <3>3
      <4>2. Rule(g, m) = FALSE
        BY <3>3
      <4> HIDE DEF Rule
      <4> QED BY <4>1, <4>2
    <3> QED BY <3>2, <3>3
  <2> DEFINE h == [m \in NodeId |-> Rule(g, m)]
  <2>2. \A m \in NodeId : g[m] = (m \in L)
    <3> HIDE DEF L
    <3> QED OBVIOUS
  <2>3. \A m \in NodeId : h[m] = Rule(g, m)
    <3> HIDE DEF Rule, g
    <3> QED OBVIOUS
  <2>4. \A m \in NodeId : g[m] = h[m]
    <3> HIDE DEF Rule, g, h, L
    <3> QED BY <2>1, <2>2, <2>3
  <2>5. g = [m \in NodeId |-> g[m]] /\ h = [m \in NodeId |-> h[m]]
    <3> HIDE DEF L, Rule
    <3> QED OBVIOUS
  <2>6. g = h
    <3> HIDE DEF g, h
    <3> QED BY <2>4, <2>5
  <2> HIDE DEF Rule, g
  <2> QED BY <2>6
<1> DEFINE f == CHOOSE f : Solves(f)
<1>8. Solves(f)
  <2> HIDE DEF Solves, g
  <2> QED BY <1>7
<1>9. \A m \in NodeId : MustReturn(m) = f[m]
  BY DEF MustReturn
<1> HIDE DEF f
<1>10. f[n] = Rule(f, n)
  <2> HIDE DEF Rule
  <2> QED BY <1>8
<1>11. CASE Nodes[n].k = "Return"
  BY <1>9, <1>10, <1>11
<1>12. CASE Nodes[n].k \in {"Block", "Func"}
  <2>1. f[n] <=> \E i \in DOMAIN Nodes[n].kids : f[Nodes[n].kids[i]]
    BY <1>10, <1>12
  <2> QED BY <1>1, <1>9, <1>12, <2>1
<1>13. CASE Nodes[n].k = "If"
  <2>1. f[n] <=> Len(Nodes[n].kids) = 3 /\ f[Nodes[n].kids[2]] /\ f[Nodes[n].kids[3]]
    BY <1>10, <1>13
  <2> QED BY <1>1, <1>9, <1>13, <2>1
<1>14. CASE Nodes[n].k \notin {"Return", "Block", "Func", "If"}
  BY <1>9, <1>10, <1>14
<1> QED BY <1>11, <1>12, <1>13, <1>14

(***************************************************************************)
(* Scopes.                                                                 *)
(***************************************************************************)
Decls == [Name -> NodeId \cup {NoDecl}]

\* The last declaration of a name is one of the declarations, or none.
LEMMA LastOfType ==
  ASSUME NEW m \in Nat, NEW I, NEW ds, \A i \in I : i \in 1 .. m /\ ds[i] \in NodeId, NEW x
  PROVE  LastOf(ds, I, x) \in NodeId \cup {NoDecl} /\ LastOf(ds, {}, x) = NoDecl
<1> DEFINE named == {i \in I : Nodes[ds[i]].name = x}
           c == CHOOSE i \in named : \A j \in named : j <= i
<1>1. LastOf(ds, {}, x) = NoDecl
  BY DEF LastOf
<1>2. CASE named = {}
  BY <1>1, <1>2 DEF LastOf
<1>3. CASE named # {}
  <2>1. named \subseteq 1 .. m
    OBVIOUS
  <2>2. c \in named
    <3> HIDE DEF named
    <3>1. \E i \in named : \A j \in named : j <= i
      BY <1>3, <2>1, Greatest
    <3> QED BY <3>1
  <2>3. LastOf(ds, I, x) = ds[c]
    BY <1>3 DEF LastOf
  <2> HIDE DEF c
  <2> QED BY <1>1, <2>2, <2>3
<1> QED BY <1>2, <1>3

\* The last declaration of a name, when there is one more.
LEMMA LastOfNext ==
  ASSUME NEW l \in Nat, NEW I, \A i \in I : i \in Nat /\ i < l, NEW ds, NEW x
  PROVE  LastOf(ds, I \cup {l}, x) = IF Nodes[ds[l]].name = x THEN ds[l] ELSE LastOf(ds, I, x)
<1> DEFINE named(J) == {i \in J : Nodes[ds[i]].name = x}
           Pick(S) == IF S = {} THEN NoDecl ELSE ds[CHOOSE i \in S : \A j \in S : j <= i]
<1>1. \A J : LastOf(ds, J, x) = Pick(named(J))
  BY DEF LastOf
<1>2. CASE Nodes[ds[l]].name = x
  <2>1. l \in named(I \cup {l}) /\ \A j \in named(I \cup {l}) : j \in Nat /\ j <= l
    BY <1>2
  <2> HIDE DEF named
  <2>2. ASSUME NEW i \in named(I \cup {l}), \A j \in named(I \cup {l}) : j <= i PROVE i = l
    <3>1. i \in Nat /\ i <= l /\ l <= i
      BY <2>1, <2>2
    <3> QED BY <3>1
  <2>3. (CHOOSE i \in named(I \cup {l}) : \A j \in named(I \cup {l}) : j <= i) = l
    BY <2>1, <2>2
  <2>4. Pick(named(I \cup {l})) = ds[l]
    BY <2>1, <2>3
  <2> HIDE DEF Pick
  <2> QED BY <1>1, <1>2, <2>4
<1>3. CASE Nodes[ds[l]].name # x
  <2>1. named(I \cup {l}) = named(I)
    BY <1>3
  <2> HIDE DEF Pick, named
  <2> QED BY <1>1, <1>3, <2>1
<1> QED BY <1>2, <1>3

LEMMA BindersType ==
  ASSUME NEW nd \in Node, NEW k \in Nat
  PROVE  /\ Binders(nd, k) \subseteq 1 .. k
         /\ \A i \in Binders(nd, k) : nd.kids[i] \in NodeId
         /\ \A x \in Name : LastOf(nd.kids, Binders(nd, k), x) \in NodeId \cup {NoDecl}
<1>1. \A i \in Binders(nd, k) : i \in 1 .. Len(nd.kids) /\ i <= k /\ nd.kids[i] \in NodeId
  BY NodeParts DEF Binders
<1>2. Binders(nd, k) \subseteq 1 .. k
  BY <1>1
<1>3. \A x \in Name : LastOf(nd.kids, Binders(nd, k), x) \in NodeId \cup {NoDecl}
  <2>1. \A i \in Binders(nd, k) : i \in 1 .. k /\ nd.kids[i] \in NodeId
    BY <1>1, <1>2
  <2> QED BY <2>1, LastOfType
<1> QED BY <1>1, <1>2, <1>3

LEMMA WithType ==
  ASSUME NEW nd \in Node, NEW k \in Nat, NEW s \in Decls
  PROVE  /\ With(s, nd, k) \in Decls
         /\ \A x \in Name : With(s, nd, k)[x] =
              LET d == LastOf(nd.kids, Binders(nd, k), x) IN IF d = NoDecl THEN s[x] ELSE d
<1>1. \A x \in Name : LastOf(nd.kids, Binders(nd, k), x) \in NodeId \cup {NoDecl}
  BY BindersType
<1> QED BY <1>1 DEF With, Decls

\* A name that is declared by the next child means that child, and others keep their meaning.
LEMMA WithNext ==
  ASSUME NEW nd \in Node, NEW k \in Nat, k + 1 <= Len(nd.kids), NEW s \in Decls
  PROVE  LET c == nd.kids[k + 1]
             binds == Nodes[c].k = "VarDecl" /\ ~Scoped(nd, k + 1)
         IN  /\ ~binds => With(s, nd, k + 1) = With(s, nd, k)
             /\ binds => \A x \in Name : With(s, nd, k + 1)[x] =
                           IF Nodes[c].name = x THEN c ELSE With(s, nd, k)[x]
<1> DEFINE c == nd.kids[k + 1]
           binds == Nodes[c].k = "VarDecl" /\ ~Scoped(nd, k + 1)
<1>1. DOMAIN nd.kids = 1 .. Len(nd.kids) /\ k + 1 \in DOMAIN nd.kids /\ c \in NodeId /\ Len(nd.kids) \in Nat
  BY NodeParts
<1>2. CASE ~binds
  <2>1. Binders(nd, k + 1) = Binders(nd, k)
    <3>1. ASSUME NEW i \in 1 .. Len(nd.kids), i <= k + 1, Nodes[nd.kids[i]].k = "VarDecl" /\ ~Scoped(nd, i) PROVE i <= k
      <4>1. i # k + 1
        BY <1>2, <3>1
      <4> QED BY <3>1, <4>1
    <3>2. \A i \in 1 .. Len(nd.kids) : i <= k => i <= k + 1
      OBVIOUS
    <3> QED BY <1>1, <3>1, <3>2 DEF Binders
  <2>2. With(s, nd, k + 1) = With(s, nd, k)
    <3> QED BY <2>1 DEF With
  <2> QED BY <1>2, <2>2
<1>3. CASE binds
  <2>1. Binders(nd, k + 1) = Binders(nd, k) \cup {k + 1}
    <3>1. \A i \in 1 .. Len(nd.kids) : i <= k + 1 <=> (i <= k \/ i = k + 1)
      OBVIOUS
    <3> QED BY <1>1, <1>3, <3>1 DEF Binders
  <2>2. \A x \in Name : LastOf(nd.kids, Binders(nd, k) \cup {k + 1}, x) =
                          IF Nodes[c].name = x THEN c ELSE LastOf(nd.kids, Binders(nd, k), x)
    <3>1. Binders(nd, k) \subseteq 1 .. k /\ \A i \in Binders(nd, k) : nd.kids[i] \in NodeId
      BY BindersType
    <3>2. PICK l \in Nat : l = k + 1
      OBVIOUS
    <3>3. \A i \in Binders(nd, k) : i \in Nat /\ i < l
      BY <3>1, <3>2
    <3>4. PICK ds : ds = nd.kids
      OBVIOUS
    <3>5. \A x \in Name : LastOf(ds, Binders(nd, k) \cup {l}, x) =
                            IF Nodes[ds[l]].name = x THEN ds[l] ELSE LastOf(ds, Binders(nd, k), x)
      BY <3>2, <3>3, LastOfNext
    <3> QED BY <3>2, <3>4, <3>5
  <2>3. c # NoDecl
    BY <1>1, AstAssumption DEF NoDecl
  <2>4. ASSUME NEW x \in Name
        PROVE  With(s, nd, k + 1)[x] = IF Nodes[c].name = x THEN c ELSE With(s, nd, k)[x]
    <3>1. With(s, nd, k + 1)[x] = LET d == LastOf(nd.kids, Binders(nd, k + 1), x) IN IF d = NoDecl THEN s[x] ELSE d
      BY WithType
    <3>2. With(s, nd, k)[x] = LET d == LastOf(nd.kids, Binders(nd, k), x) IN IF d = NoDecl THEN s[x] ELSE d
      BY WithType
    <3> HIDE DEF c
    <3> QED BY <2>1, <2>2, <2>3, <3>1, <3>2
  <2> QED BY <1>3, <2>4
<1> QED BY <1>2, <1>3

LEMMA WithNothing ==
  ASSUME NEW nd \in Node, NEW k \in Nat, NEW s \in Decls, Binders(nd, k) = {}
  PROVE  With(s, nd, k) = s
<1>1. \A x \in Name : LastOf(nd.kids, {}, x) = NoDecl
  BY DEF LastOf
<1>2. ASSUME NEW x \in Name PROVE With(s, nd, k)[x] = s[x]
  <2>1. LastOf(nd.kids, Binders(nd, k), x) = NoDecl
    BY <1>1
  <2> QED BY <2>1 DEF With
<1>3. With(s, nd, k) \in Decls
  BY WithType
<1> QED BY <1>2, <1>3 DEF Decls

\* Only blocks, for loops and functions have declarations among their children.
LEMMA NoBinders ==
  ASSUME NEW n \in NodeId, NEW k \in Nat
  PROVE  /\ k = 0 => Binders(Nodes[n], k) = {}
         /\ Nodes[n].k \notin {"Block", "For", "Func"} => Binders(Nodes[n], k) = {}
<1>1. DOMAIN Nodes[n].kids = 1 .. Len(Nodes[n].kids)
  BY NodeType
<1>2. k = 0 => Binders(Nodes[n], k) = {}
  BY <1>1 DEF Binders
<1>3. ASSUME Nodes[n].k \notin {"Block", "For", "Func"}, NEW i \in 1 .. Len(Nodes[n].kids),
             Nodes[Nodes[n].kids[i]].k = "VarDecl"
      PROVE  Scoped(Nodes[n], i)
  <2>1. Nodes[Nodes[n].kids[i]].k \notin ExprKind
    BY <1>3, KindsApart
  <2>2. Nodes[n].k \notin ExprKind \cup {"Expr", "VarDecl", "Return"}
    BY <2>1, KidKinds
  <2>3. Shape(Nodes[n]) /\ Nodes[n].k \in NodeKind
    BY NodeType
  <2>4. Nodes[n].k # "Param"
    BY <2>3, <1>3 DEF Shape
  <2>5. Nodes[n].k \in {"If", "While"}
    BY <1>3, <2>2, <2>3, <2>4 DEF NodeKind, StmtKind, DeclKind
  <2>6. i # 1
    BY <2>1, <2>3, <2>5 DEF Shape
  <2>7. Nodes[n].k = "While" => i = 2
    BY <1>3, <2>3, <2>6 DEF Shape
  <2> QED BY <2>5, <2>6, <2>7 DEF Scoped
<1>4. Nodes[n].k \notin {"Block", "For", "Func"} => Binders(Nodes[n], k) = {}
  BY <1>1, <1>3 DEF Binders
<1> QED BY <1>2, <1>4

LEMMA AfterAt ==
  ASSUME NEW nd \in Node, NEW k \in Nat, NEW ss \in Seq(Decls), ss # <<>>, NEW a, a = After(ss, nd, k)
  PROVE  /\ a[Len(ss)] = With(ss[Len(ss)], nd, k)
         /\ \A s \in 1 .. Len(ss) : s # Len(ss) => a[s] = ss[s]
<1> DEFINE w == With(ss[Len(ss)], nd, k)
<1>1. a = [ss EXCEPT ![Len(ss)] = w]
  BY DEF After
<1> HIDE DEF w
<1>2. a[Len(ss)] = w /\ \A s \in 1 .. Len(ss) : s # Len(ss) => a[s] = ss[s]
  BY <1>1
<1> QED BY <1>2 DEF w

LEMMA AfterType ==
  ASSUME NEW nd \in Node, NEW k \in Nat, NEW ss \in Seq(Decls), ss # <<>>, NEW a, a = After(ss, nd, k)
  PROVE  a \in Seq(Decls) /\ a # <<>> /\ Len(a) = Len(ss) /\ Len(ss) \in Nat \ {0}
<1>1. Len(ss) \in Nat \ {0} /\ ss[Len(ss)] \in Decls
  OBVIOUS
<1>2. With(ss[Len(ss)], nd, k) \in Decls
  BY <1>1, WithType
<1> DEFINE w == With(ss[Len(ss)], nd, k)
<1>3. a = [ss EXCEPT ![Len(ss)] = w]
  BY DEF After
<1> HIDE DEF w
<1>4. a \in Seq(Decls) /\ a # <<>> /\ Len(a) = Len(ss)
  BY <1>1, <1>2, <1>3 DEF w
<1> QED BY <1>1, <1>4

LEMMA AfterNothing ==
  ASSUME NEW nd \in Node, NEW k \in Nat, NEW ss \in Seq(Decls), ss # <<>>, Binders(nd, k) = {}
  PROVE  After(ss, nd, k) = ss
<1>1. Len(ss) \in Nat \ {0} /\ ss[Len(ss)] \in Decls
  OBVIOUS
<1>2. With(ss[Len(ss)], nd, k) = ss[Len(ss)]
  BY <1>1, WithNothing
<1>3. After(ss, nd, k) = [ss EXCEPT ![Len(ss)] = ss[Len(ss)]]
  BY <1>2 DEF After
<1> QED BY <1>1, <1>3

Fresh(w) == [s \in 1 .. w |-> NoDecls]

LEMMA NoDeclsMore ==
  ASSUME NEW w \in Nat, NEW b \in Seq(Decls), NEW a, a = b \o Fresh(w)
  PROVE  a \in Seq(Decls) /\ Len(a) = Len(b) + w
<1>1. NoDecls \in Decls
  BY DEF NoDecls, Decls
<1>2. Fresh(w) \in Seq(Decls) /\ Len(Fresh(w)) = w
  BY <1>1 DEF Fresh
<1> QED BY <1>2, ConcatProperties

LEMMA NoDeclsAt ==
  ASSUME NEW w \in Nat, NEW b \in Seq(Decls), NEW a, a = b \o Fresh(w)
  PROVE  /\ \A s \in 1 .. Len(b) : a[s] = b[s]
         /\ \A s \in 1 .. Len(b) + w : s > Len(b) => a[s] = NoDecls
<1> DEFINE new == [s \in 1 .. w |-> NoDecls]
<1>1. NoDecls \in Decls
  BY DEF NoDecls, Decls
<1>2. new \in Seq(Decls) /\ Len(new) = w /\ \A s \in 1 .. w : new[s] = NoDecls
  BY <1>1
<1> HIDE DEF new
<1>3. /\ b \o new \in Seq(Decls) /\ Len(b \o new) = Len(b) + Len(new)
      /\ \A i \in 1 .. Len(b) + Len(new) : (b \o new)[i] = IF i <= Len(b) THEN b[i] ELSE new[i - Len(b)]
  BY <1>2, ConcatProperties
<1>4. Len(b) \in Nat
  OBVIOUS
<1>5. \A s \in 1 .. Len(b) : (b \o new)[s] = b[s]
  BY <1>2, <1>3, <1>4
<1>6. \A s \in 1 .. Len(b) + w : s > Len(b) => (b \o new)[s] = NoDecls
  <2> SUFFICES ASSUME NEW s \in 1 .. Len(b) + w, s > Len(b) PROVE (b \o new)[s] = NoDecls
    OBVIOUS
  <2>1. s \in 1 .. Len(b) + Len(new) /\ ~(s <= Len(b)) /\ s - Len(b) \in 1 .. w
    BY <1>2, <1>4
  <2> QED BY <1>2, <1>3, <2>1
<1> QED BY <1>2, <1>3, <1>5, <1>6 DEF new, Fresh

LEMMA GlobalsType ==
  ASSUME NEW p \in Programs, NEW i \in 1 .. Len(p)
  PROVE  /\ GlobalsAt(p, i) \in Decls /\ GlobalsAt(p, i + 1) \in Decls
         /\ GlobalsAt(p, 1) = NoDecls
         /\ Nodes[p[i]].k = "Func" => GlobalsAt(p, i + 1) = GlobalsAt(p, i)
         /\ Nodes[p[i]].k = "VarDecl" =>
              \A x \in Name : GlobalsAt(p, i + 1)[x] = IF Nodes[p[i]].name = x THEN p[i] ELSE GlobalsAt(p, i)[x]
<1>1. DOMAIN p = 1 .. Len(p) /\ Len(p) \in Nat /\ \A j \in 1 .. Len(p) : p[j] \in NodeId
  BY ProgramNodes
<1>2. i \in Nat /\ i - 1 \in Nat /\ i - 1 + 1 = i
  BY <1>1
<1>3. Vars(p, i) \subseteq 1 .. i - 1 /\ \A j \in Vars(p, i) : p[j] \in NodeId
  BY <1>1 DEF Vars
<1>4. Vars(p, i + 1) = IF Nodes[p[i]].k = "VarDecl" THEN Vars(p, i) \cup {i} ELSE Vars(p, i)
  <2>1. \A j \in 1 .. Len(p) : j < i + 1 <=> (j < i \/ j = i)
    BY <1>1
  <2>2. CASE Nodes[p[i]].k = "VarDecl"
    BY <1>1, <2>1, <2>2 DEF Vars
  <2>3. CASE Nodes[p[i]].k # "VarDecl"
    BY <1>1, <2>1, <2>3 DEF Vars
  <2> QED BY <2>2, <2>3
<1>5. ASSUME NEW x
      PROVE  /\ LastOf(p, Vars(p, i), x) \in NodeId \cup {NoDecl} /\ LastOf(p, {}, x) = NoDecl
             /\ LastOf(p, Vars(p, i) \cup {i}, x) = IF Nodes[p[i]].name = x THEN p[i] ELSE LastOf(p, Vars(p, i), x)
  <2>1. \A j \in Vars(p, i) : j \in Nat /\ j < i
    BY <1>1 DEF Vars
  <2>2. \A j \in Vars(p, i) : j \in 1 .. i - 1 /\ p[j] \in NodeId
    BY <1>3
  <2>3. PICK V : V = Vars(p, i)
    OBVIOUS
  <2>4. LastOf(p, V, x) \in NodeId \cup {NoDecl} /\ LastOf(p, {}, x) = NoDecl
    <3>1. i - 1 \in Nat /\ \A j \in V : j \in 1 .. i - 1 /\ p[j] \in NodeId
      BY <1>2, <2>2, <2>3
    <3> QED BY <3>1, LastOfType
  <2>5. LastOf(p, V \cup {i}, x) = IF Nodes[p[i]].name = x THEN p[i] ELSE LastOf(p, V, x)
    <3>1. i \in Nat /\ \A j \in V : j \in Nat /\ j < i
      BY <1>2, <2>1, <2>3
    <3> QED BY <3>1, LastOfNext
  <2> QED BY <2>3, <2>4, <2>5
<1>6. GlobalsAt(p, i) \in Decls
  BY <1>5 DEF GlobalsAt, Decls
<1>7. GlobalsAt(p, 1) = NoDecls
  <2>1. Vars(p, 1) = {}
    BY <1>1 DEF Vars
  <2> QED BY <1>5, <2>1 DEF GlobalsAt, NoDecls
<1>8. CASE Nodes[p[i]].k = "VarDecl"
  <2>1. \A x \in Name : GlobalsAt(p, i + 1)[x] = LastOf(p, Vars(p, i) \cup {i}, x)
    BY <1>4, <1>8 DEF GlobalsAt
  <2>2. \A x \in Name : GlobalsAt(p, i)[x] = LastOf(p, Vars(p, i), x)
    BY DEF GlobalsAt
  <2>3. \A x \in Name : GlobalsAt(p, i + 1)[x] = IF Nodes[p[i]].name = x THEN p[i] ELSE GlobalsAt(p, i)[x]
    BY <1>5, <2>1, <2>2
  <2>4. \A x \in Name : LastOf(p, Vars(p, i) \cup {i}, x) \in NodeId \cup {NoDecl}
    BY <1>1, <1>5
  <2>5. GlobalsAt(p, i + 1) \in Decls
    BY <1>4, <1>8, <2>4 DEF GlobalsAt, Decls
  <2> QED BY <1>6, <1>7, <1>8, <2>3, <2>5
<1>9. CASE Nodes[p[i]].k # "VarDecl"
  <2>1. GlobalsAt(p, i + 1) = GlobalsAt(p, i)
    BY <1>4, <1>9 DEF GlobalsAt
  <2> QED BY <1>6, <1>7, <1>9, <2>1
<1> QED BY <1>8, <1>9

LEMMA DeclScopesType ==
  ASSUME NEW p \in Programs, NEW i \in 1 .. Len(p)
  PROVE  DeclScopes(p, i) \in Seq(Decls) \ {<<>>}
<1>1. GlobalsAt(p, i) \in Decls
  BY GlobalsType
<1>2. ParamScope(Nodes[p[i]]) \in Decls
  <2> DEFINE ds == Nodes[p[i]].params  m == Len(ds)
  <2>1. p[i] \in NodeId
    BY ProgramNodes
  <2>2. ds \in Seq(NodeId)
    BY <2>1, NodeType
  <2>3. \A j \in DOMAIN ds : j \in 1 .. m /\ ds[j] \in NodeId
    BY <2>2
  <2>4. m \in Nat
    BY <2>2
  <2> HIDE DEF ds, m
  <2>5. \A x \in Name : LastOf(ds, DOMAIN ds, x) \in NodeId \cup {NoDecl}
    BY <2>3, <2>4, LastOfType
  <2> QED BY <2>5 DEF ParamScope, Decls, ds
<1> HIDE DEF DeclScopes
<1>3. DeclScopes(p, i) = <<GlobalsAt(p, i)>> \/ DeclScopes(p, i) = <<GlobalsAt(p, i), ParamScope(Nodes[p[i]])>>
  BY DEF DeclScopes
<1>4. \A g \in Decls, h \in Decls : <<g>> \in Seq(Decls) \ {<<>>} /\ <<g, h>> \in Seq(Decls) \ {<<>>}
  OBVIOUS
<1> QED BY <1>1, <1>2, <1>3, <1>4, Zenon

LEMMA NoGlobals == ASSUME NEW p \in Programs PROVE GlobalsAt(p, 1) = NoDecls
<1>1. DOMAIN p = 1 .. Len(p) /\ Len(p) \in Nat
  BY ProgramNodes
<1>2. Vars(p, 1) = {}
  BY <1>1 DEF Vars
<1> QED BY <1>2 DEF GlobalsAt, NoDecls, LastOf

(***************************************************************************)
(* The rules of expressions.                                               *)
(***************************************************************************)
LEMMA ExprRuleSame ==
  ASSUME NEW n \in NodeId, Nodes[n].k \in ExprKind, NEW ty, NEW ty2, NEW p \in Programs, NEW ss,
         ExprRule(ty, p, ss, n), ty2[n] = ty[n],
         \A i \in 1 .. Len(Nodes[n].kids) : ty2[Nodes[n].kids[i]] = ty[Nodes[n].kids[i]]
  PROVE  ExprRule(ty2, p, ss, n)
<1>1. PICK nd : nd = Nodes[n]
  OBVIOUS
<1>2. Len(nd.kids) \in Nat /\ DOMAIN nd.kids = 1 .. Len(nd.kids)
  <2>1. nd \in Node
    BY <1>1, IsNode
  <2> QED BY <2>1, NodeParts
<1>3. PICK u : u = ty[n]
  OBVIOUS
<1>4. ty2[n] = u /\ \A i \in 1 .. Len(nd.kids) : ty2[nd.kids[i]] = ty[nd.kids[i]]
  BY <1>1, <1>3
<1>5. CASE nd.k \in {"IntLiteral", "FloatLiteral", "BoolLiteral", "StringLiteral", "Null", "Ident"}
  BY <1>1, <1>3, <1>4, <1>5 DEF ExprRule
<1>6. CASE nd.k \in {"Binary", "Assign", "Index", "CompoundAssign"}
  <2>1. Len(nd.kids) = 2
    BY <1>1, <1>6, KidCounts
  <2>2. ty2[nd.kids[1]] = ty[nd.kids[1]] /\ ty2[nd.kids[2]] = ty[nd.kids[2]]
    BY <1>4, <2>1
  <2> QED BY <1>1, <1>3, <1>4, <1>6, <2>2 DEF ExprRule
<1>7. CASE nd.k \in {"Unary", "IncDec", "FieldAccess", "ArrayCreation"}
  <2>1. Len(nd.kids) = 1
    BY <1>1, <1>7, KidCounts
  <2>2. ty2[nd.kids[1]] = ty[nd.kids[1]]
    BY <1>4, <2>1
  <2> QED BY <1>1, <1>3, <1>4, <1>7, <2>2 DEF ExprRule
<1>8. CASE nd.k = "Ternary"
  <2>1. Len(nd.kids) = 3
    BY <1>1, <1>8, KidCounts
  <2>2. ty2[nd.kids[1]] = ty[nd.kids[1]] /\ ty2[nd.kids[2]] = ty[nd.kids[2]] /\ ty2[nd.kids[3]] = ty[nd.kids[3]]
    BY <1>4, <2>1
  <2> QED BY <1>1, <1>3, <1>4, <1>8, <2>2 DEF ExprRule
<1>9. CASE nd.k = "ArrayLiteral"
  <2>1. IsArray(u) /\ \A i \in DOMAIN nd.kids : ty[nd.kids[i]] = ElemOf(u)
    BY <1>1, <1>3, <1>9 DEF ExprRule
  <2>2. \A i \in DOMAIN nd.kids : ty2[nd.kids[i]] = ElemOf(u)
    BY <1>2, <1>4, <2>1
  <2> QED BY <1>1, <1>4, <1>9, <2>1, <2>2 DEF ExprRule, LitKind
<1>10. CASE nd.k = "Call"
  <2>1. CallRule(ty, p, nd, u)
    BY <1>1, <1>3, <1>10 DEF ExprRule
  <2>2. ASSUME NEW ts, Takes(ty, nd, ts), DOMAIN ts = 1 .. Len(ts) PROVE Takes(ty2, nd, ts)
    BY <1>4, <2>2 DEF Takes
  <2>3. \A x \in DOMAIN BuiltinParams : DOMAIN BuiltinParams[x] = 1 .. Len(BuiltinParams[x])
    BY DEF BuiltinParams
  <2>4. \A i \in DOMAIN p : Takes(ty, nd, ParamTypes(p[i])) => Takes(ty2, nd, ParamTypes(p[i]))
    <3> SUFFICES ASSUME NEW i \in DOMAIN p PROVE Takes(ty, nd, ParamTypes(p[i])) => Takes(ty2, nd, ParamTypes(p[i]))
      OBVIOUS
    <3>1. PICK ts : ts = ParamTypes(p[i])
      OBVIOUS
    <3>2. p[i] \in NodeId
      BY ProgramNodes
    <3>3. DOMAIN ts = DOMAIN Nodes[p[i]].params /\ Nodes[p[i]].params \in Seq(NodeId)
      BY <3>1, <3>2, NodeType DEF ParamTypes
    <3>4. DOMAIN ts = 1 .. Len(ts)
      BY <3>1, <3>3 DEF ParamTypes
    <3>5. Takes(ty, nd, ts) => Takes(ty2, nd, ts)
      BY <2>2, <3>4
    <3> QED BY <3>1, <3>5
  <2>5. CallRule(ty2, p, nd, u)
    BY <2>1, <2>2, <2>3, <2>4 DEF CallRule
  <2> QED BY <1>1, <1>4, <1>10, <2>5 DEF ExprRule, LitKind
<1> QED BY <1>1, <1>5, <1>6, <1>7, <1>8, <1>9, <1>10 DEF ExprKind

===============================================================================
