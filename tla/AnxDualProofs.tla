---------------------------- MODULE AnxDualProofs -----------------------------
(***************************************************************************)
(* Proofs about code generation, as AnxDual composes it with the checker:  *)
(* for every accepted program, each block has one terminator, and no       *)
(* function that is not void falls off its end.  BlocksInv, near the end,  *)
(* is the invariant; README.md says what it is made of.                    *)
(***************************************************************************)
EXTENDS AnxDual, AnxTypingProofs

-----------------------------------------------------------------------------
(***************************************************************************)
(* Sequences, whatever they are of.                                        *)
(***************************************************************************)
IsSeq(s) == s \in Seq({s[i] : i \in DOMAIN s})

LEMMA SeqFacts ==
  ASSUME NEW s, IsSeq(s)
  PROVE  Len(s) \in Nat /\ DOMAIN s = 1 .. Len(s)
  BY DEF IsSeq

LEMMA SeqOf == ASSUME NEW S, NEW s \in Seq(S) PROVE IsSeq(s)
  BY DEF IsSeq

LEMMA SeqBuilt ==
  ASSUME NEW m \in Nat, NEW s, s = [i \in 1 .. m |-> s[i]]
  PROVE  IsSeq(s) /\ Len(s) = m
  BY DEF IsSeq

LEMMA SeqAppend ==
  ASSUME NEW s, IsSeq(s), NEW x
  PROVE  /\ IsSeq(Append(s, x)) /\ Len(Append(s, x)) = Len(s) + 1
         /\ Append(s, x)[Len(s) + 1] = x
         /\ \A i \in 1 .. Len(s) : Append(s, x)[i] = s[i]
<1> DEFINE S == {s[i] : i \in DOMAIN s} \cup {x}
<1>1. s \in Seq(S)
  BY DEF IsSeq
<1> HIDE DEF S
<1>2. x \in S
  BY DEF S
<1>3. Append(s, x) \in Seq(S)
  BY <1>1, <1>2
<1>4. IsSeq(Append(s, x))
  BY <1>3, SeqOf
<1>5. /\ Len(Append(s, x)) = Len(s) + 1 /\ Append(s, x)[Len(s) + 1] = x
      /\ \A i \in 1 .. Len(s) : Append(s, x)[i] = s[i]
  BY <1>1, <1>2
<1> QED BY <1>4, <1>5

LEMMA SeqConcat ==
  ASSUME NEW s, NEW t, IsSeq(s), IsSeq(t)
  PROVE  /\ IsSeq(s \o t) /\ Len(s \o t) = Len(s) + Len(t)
         /\ \A i \in 1 .. Len(s) : (s \o t)[i] = s[i]
         /\ \A i \in 1 .. Len(t) : (s \o t)[Len(s) + i] = t[i]
<1> DEFINE S == {s[i] : i \in DOMAIN s} \cup {t[i] : i \in DOMAIN t}
<1>1. s \in Seq(S) /\ t \in Seq(S)
  BY DEF IsSeq
<1> HIDE DEF S
<1>2. s \o t \in Seq(S)
  BY <1>1
<1>3. IsSeq(s \o t)
  BY <1>2, SeqOf
<1>4. /\ Len(s \o t) = Len(s) + Len(t)
      /\ \A i \in 1 .. Len(s) : (s \o t)[i] = s[i]
      /\ \A i \in 1 .. Len(t) : (s \o t)[Len(s) + i] = t[i]
  BY <1>1
<1> QED BY <1>3, <1>4

\* What is where.
LEMMA SeqLeft ==
  ASSUME NEW s, NEW t, IsSeq(s), IsSeq(t), NEW k \in 1 .. Len(s)
  PROVE  (s \o t)[k] = s[k]
  BY SeqConcat

LEMMA SeqRight ==
  ASSUME NEW s, NEW t, IsSeq(s), IsSeq(t), NEW j \in 1 .. Len(t)
  PROVE  (s \o t)[Len(s) + j] = t[j]
  BY SeqConcat

LEMMA SeqIs == ASSUME NEW s, NEW t, IsSeq(s), IsSeq(t) PROVE IsSeq(s \o t)
  BY SeqConcat

LEMMA SeqLen == ASSUME NEW s, NEW t, IsSeq(s), IsSeq(t) PROVE Len(s \o t) = Len(s) + Len(t)
  BY SeqConcat

LEMMA SeqEmpty == ASSUME NEW s, IsSeq(s), Len(s) = 0 PROVE s = <<>>
  BY DEF IsSeq

LEMMA SeqSmall ==
  /\ IsSeq(<<>>) /\ Len(<<>>) = 0
  /\ \A x : IsSeq(<<x>>) /\ Len(<<x>>) = 1 /\ <<x>>[1] = x
  /\ \A x, y : IsSeq(<<x, y>>) /\ Len(<<x, y>>) = 2 /\ <<x, y>>[1] = x /\ <<x, y>>[2] = y
  BY DEF IsSeq

-----------------------------------------------------------------------------
(***************************************************************************)
(* What is taken from a plan.                                              *)
(***************************************************************************)
Taken(p, k) == Codegen!Taken(p, k)

\* From a plan that is put together: from one part or from the other.
LEMMA TakenJoin ==
  ASSUME NEW a, NEW b, IsSeq(a), IsSeq(b), NEW k \in Nat \ {0}
  PROVE  Taken(a \o b, k) = IF k <= Len(a) THEN Taken(a, k) ELSE Taken(b, k - Len(a))
<1> PICK m : m = Len(a)
  OBVIOUS
<1> PICK n : n = Len(b)
  OBVIOUS
<1>1. /\ m \in Nat /\ DOMAIN a = 1 .. m /\ n \in Nat /\ DOMAIN b = 1 .. n
      /\ IsSeq(a \o b) /\ Len(a \o b) = m + n
  BY SeqFacts, SeqConcat
<1> PICK p : p = a \o b
  OBVIOUS
<1>2. DOMAIN p = 1 .. m + n
  BY <1>1, SeqFacts
<1>3. CASE k \in 1 .. m
  <2>1. p[k] = a[k]
    BY <1>1, <1>3, SeqLeft
  <2>2. k <= m /\ k \in 1 .. m + n
    BY <1>1, <1>3
  <2> QED BY <1>1, <1>2, <1>3, <2>1, <2>2 DEF Taken, Codegen!Taken
<1>4. CASE k > m
  <2>1. PICK j : j = k - m
    OBVIOUS
  <2>2. j \in Nat /\ k = m + j /\ (k \in 1 .. m + n <=> j \in 1 .. n) /\ ~(k <= m)
    BY <1>1, <1>4, <2>1
  <2>3. ASSUME j \in 1 .. n PROVE p[k] = b[j]
    BY <1>1, <2>2, <2>3, SeqRight
  <2> QED BY <1>1, <1>2, <2>1, <2>2, <2>3 DEF Taken, Codegen!Taken
<1> QED BY <1>1, <1>3, <1>4

LEMMA TakenNone == \A k : Taken(<<>>, k) = Codegen!Unreachable
  BY DEF Taken, Codegen!Taken

LEMMA TakenOne == \A a : \A k : Taken(<<a>>, k) = IF k = 1 THEN a ELSE Codegen!Unreachable
  BY DEF Taken, Codegen!Taken

-----------------------------------------------------------------------------
(***************************************************************************)
(* Plans that go straight on: no blocks of their own, no terminator, and   *)
(* only expressions for children.                                          *)
(***************************************************************************)
Terminator == Codegen!Terminator
StraightStep(s) ==
  \/ s.do \in {"gen", "value"} /\ s.n \in NodesOf(prog) /\ Nodes[s.n].k \in ExprKind
  \/ s.do = "emit" /\ s.op \notin Terminator
  \/ s.do = "guard" /\ s.f \notin Terminator
  \/ s.do \in {"alloca", "bind", "give", "panic"}
Straight(p) == IsSeq(p) /\ \A i \in DOMAIN p : StraightStep(p[i])

LEMMA StraightValue ==
  ASSUME NEW n \in NodesOf(prog), Nodes[n].k \in ExprKind
  PROVE  StraightStep(Codegen!Value(n)) /\ StraightStep(Codegen!Gen(n))
  BY DEF StraightStep, Codegen!Value, Codegen!Gen

LEMMA StraightEmit ==
  ASSUME NEW op, op \notin Terminator, NEW t, NEW as
  PROVE  StraightStep(Codegen!Emit(op, t, as))
  BY DEF StraightStep, Codegen!Emit

LEMMA StraightCall == ASSUME NEW t, NEW as, NEW d PROVE StraightStep(Codegen!CallTo(t, as, d))
  BY DEF StraightStep, Codegen!CallTo, Terminator, Codegen!Terminator

LEMMA StraightGuard ==
  ASSUME NEW ok, NEW f, f \notin Terminator, NEW as
  PROVE  StraightStep(Codegen!Guard(ok, f, as))
  BY DEF StraightStep, Codegen!Guard

LEMMA StraightOther ==
  /\ \A x : StraightStep(Codegen!Give(x))
  /\ \A x : StraightStep(Codegen!Bind(x)) /\ StraightStep(Codegen!Alloca(x))
  /\ StraightStep(Codegen!Unreachable)
  BY DEF StraightStep, Codegen!Give, Codegen!Bind, Codegen!Alloca, Codegen!Unreachable

LEMMA StraightTaken == ASSUME NEW p, Straight(p), NEW k PROVE StraightStep(Taken(p, k))
  BY StraightOther DEF Straight, Taken, Codegen!Taken

LEMMA StraightJoin == ASSUME NEW a, NEW b, Straight(a), Straight(b) PROVE Straight(a \o b)
<1>1. IsSeq(a) /\ IsSeq(b)
  BY DEF Straight
<1> PICK p : p = a \o b
  OBVIOUS
<1>2. IsSeq(p)
  BY <1>1, SeqIs
<1>3. ASSUME NEW i \in DOMAIN p PROVE StraightStep(p[i])
  <2>1. i \in Nat \ {0} /\ p[i] = Taken(p, i)
    BY <1>2, SeqFacts DEF Taken, Codegen!Taken
  <2>2. Taken(p, i) = Taken(a, i) \/ Taken(p, i) = Taken(b, i - Len(a))
    BY <1>1, <2>1, TakenJoin
  <2> QED BY <2>1, <2>2, StraightTaken
<1> QED BY <1>2, <1>3 DEF Straight

LEMMA StraightNone == Straight(<<>>)
  BY SeqSmall DEF Straight

LEMMA Straight1 == ASSUME NEW a, StraightStep(a) PROVE Straight(<<a>>)
  BY SeqSmall DEF Straight

LEMMA Straight2 == ASSUME NEW a, NEW b, StraightStep(a), StraightStep(b) PROVE Straight(<<a, b>>)
  BY SeqSmall DEF Straight

LEMMA Straight3 ==
  ASSUME NEW a, NEW b, NEW c, StraightStep(a), StraightStep(b), StraightStep(c)
  PROVE  Straight(<<a, b, c>>)
<1> PICK s : s = <<a, b, c>>
  OBVIOUS
<1>1. IsSeq(s) /\ DOMAIN s = 1 .. 3 /\ s[1] = a /\ s[2] = b /\ s[3] = c
  BY DEF IsSeq
<1> QED BY <1>1 DEF Straight

LEMMA Straight6 ==
  ASSUME NEW a, NEW b, NEW c, NEW d, NEW e, NEW f,
         StraightStep(a), StraightStep(b), StraightStep(c), StraightStep(d), StraightStep(e), StraightStep(f)
  PROVE  Straight(<<a, b, c, d, e, f>>)
<1> PICK s : s = <<a, b, c, d, e, f>>
  OBVIOUS
<1>1. /\ IsSeq(s) /\ DOMAIN s = 1 .. 6
      /\ s[1] = a /\ s[2] = b /\ s[3] = c /\ s[4] = d /\ s[5] = e /\ s[6] = f
  BY DEF IsSeq
<1> QED BY <1>1 DEF Straight

LEMMA Straight7 ==
  ASSUME NEW a, NEW b, NEW c, NEW d, NEW e, NEW f, NEW g,
         StraightStep(a), StraightStep(b), StraightStep(c), StraightStep(d), StraightStep(e), StraightStep(f),
         StraightStep(g)
  PROVE  Straight(<<a, b, c, d, e, f, g>>)
<1> PICK s : s = <<a, b, c, d, e, f, g>>
  OBVIOUS
<1>1. /\ IsSeq(s) /\ DOMAIN s = 1 .. 7
      /\ s[1] = a /\ s[2] = b /\ s[3] = c /\ s[4] = d /\ s[5] = e /\ s[6] = f /\ s[7] = g
  BY DEF IsSeq
<1> QED BY <1>1 DEF Straight

LEMMA Straight12 ==
  ASSUME NEW a, NEW b, NEW c, NEW d, NEW e, NEW f, NEW g, NEW h, NEW i, NEW j, NEW k, NEW l,
         StraightStep(a), StraightStep(b), StraightStep(c), StraightStep(d), StraightStep(e), StraightStep(f),
         StraightStep(g), StraightStep(h), StraightStep(i), StraightStep(j), StraightStep(k), StraightStep(l)
  PROVE  Straight(<<a, b, c, d, e, f, g, h, i, j, k, l>>)
<1> PICK s : s = <<a, b, c, d, e, f, g, h, i, j, k, l>>
  OBVIOUS
<1>1. /\ IsSeq(s) /\ DOMAIN s = 1 .. 12
      /\ s[1] = a /\ s[2] = b /\ s[3] = c /\ s[4] = d /\ s[5] = e /\ s[6] = f /\ s[7] = g
      /\ s[8] = h /\ s[9] = i /\ s[10] = j /\ s[11] = k /\ s[12] = l
  BY DEF IsSeq
<1>2. 1 .. 12 = {1, 2, 3, 4, 5, 6, 7, 8, 9, 10, 11, 12}
  OBVIOUS
<1> QED BY <1>1, <1>2 DEF Straight

-----------------------------------------------------------------------------
(***************************************************************************)
(* What the parser and the checker have seen to.                           *)
(***************************************************************************)
Vetted == prog \in Programs /\ WellTyped(types, prog)
Plain  == BinOp \ Lazy

LEMMA SameKinds == Codegen!ExprKind = ExprKind /\ Codegen!Lazy = Lazy
  BY DEF Codegen!ExprKind, ExprKind, Codegen!Lazy, Lazy

\* The nodes of a program, and what is known of their children.
LEMMA KidsOf ==
  ASSUME Vetted, NEW n \in NodesOf(prog)
  PROVE  /\ n \in NodeId /\ Shape(Nodes[n]) /\ IsSeq(Nodes[n].kids)
         /\ \A i \in 1 .. Len(Nodes[n].kids) :
              /\ Nodes[n].kids[i] \in NodesOf(prog)
              /\ Nodes[n].k \in ExprKind \cup {"Expr", "VarDecl", "Return"}
                   => Nodes[Nodes[n].kids[i]].k \in ExprKind
<1>1. n \in NodeId /\ \A i \in 1 .. Len(Nodes[n].kids) : Nodes[n].kids[i] \in NodesOf(prog)
  BY ProgramNodes DEF Vetted
<1>2. Shape(Nodes[n]) /\ Nodes[n].kids \in Seq(NodeId)
  BY <1>1, NodeType
<1>3. IsSeq(Nodes[n].kids)
  BY <1>2, SeqOf
<1> QED BY <1>1, <1>2, <1>3, KidKinds

LEMMA ExprKids ==
  ASSUME Vetted, NEW n \in NodesOf(prog), Nodes[n].k \in ExprKind \cup {"Expr", "VarDecl", "Return"},
         NEW ks, ks = Nodes[n].kids
  PROVE  \A i \in 1 .. Len(ks) :
           /\ ks[i] \in NodesOf(prog) /\ Nodes[ks[i]].k \in ExprKind
           /\ StraightStep(Codegen!Value(ks[i])) /\ StraightStep(Codegen!Gen(ks[i]))
<1>1. TAKE i \in 1 .. Len(ks)
<1>2. Nodes[n].kids[i] \in NodesOf(prog) /\ Nodes[Nodes[n].kids[i]].k \in ExprKind
  BY KidsOf
<1> QED BY <1>2, StraightValue

\* How many children an expression has that the checker has seen to.
LEMMA CallCounts ==
  ASSUME Vetted, NEW n \in NodesOf(prog), Nodes[n].k = "Call"
  PROVE  /\ Nodes[n].name \in {"print", "length"} => Len(Nodes[n].kids) = 1
         /\ Nodes[n].name = "charAt" => Len(Nodes[n].kids) = 2
         /\ Nodes[n].name = "substring" => Len(Nodes[n].kids) = 3
<1>1. CallRule(types, prog, Nodes[n], types[n])
  BY DEF Vetted, WellTyped, Judged, ExprRule, ExprKind
<1>2. CASE Nodes[n].name = "print"
  <2>1. "print" \notin DOMAIN BuiltinParams
    BY DEF BuiltinParams
  <2> QED BY <1>1, <1>2, <2>1 DEF CallRule
<1>3. CASE Nodes[n].name \in {"length", "charAt", "substring"}
  <2>1. {"length", "charAt", "substring"} = DOMAIN BuiltinParams
    BY DEF BuiltinParams
  <2>2. Takes(types, Nodes[n], BuiltinParams[Nodes[n].name])
    BY <1>1, <1>3, <2>1 DEF CallRule
  <2>3. /\ Len(BuiltinParams["length"]) = 1 /\ Len(BuiltinParams["charAt"]) = 2
        /\ Len(BuiltinParams["substring"]) = 3
    BY DEF BuiltinParams
  <2> QED BY <1>3, <2>2, <2>3 DEF Takes
<1> QED BY <1>2, <1>3

-----------------------------------------------------------------------------
(***************************************************************************)
(* The plans of operators, and of what an operator is applied to.          *)
(***************************************************************************)
LEMMA OpNames ==
  /\ \A op \in Plain : Codegen!IntOp[op] \notin Terminator
  /\ \A op \in DOMAIN Codegen!FloatOp : Codegen!FloatOp[op] \notin Terminator
  /\ {"add", "sub", "fadd", "fsub"} \cap Terminator = {}
  /\ {"load", "store", "length", "data", "ult", "ule", "sle", "sge", "and", "gep", "ne", "not", "neg", "fneg",
      "trunc", "zext", "pack", "init", "malloc", "calloc", "strlit", "phi", "call",
      "anx_str_concat", "anx_str_equals", "anx_print_bool", "anx_print_int", "anx_print_float",
      "anx_print_str", "anx_print_array", "anx_str_char_at", "anx_str_substring",
      "anx_panic_div_zero", "anx_panic_oob", "anx_panic_str_oob", "anx_panic_neg_size"} \cap Terminator = {}
<1>1. \A op \in Plain : Codegen!IntOp[op] \notin Terminator
  BY DEF Plain, BinOp, Arith, Bitwise, Compare, Equality, Lazy, Codegen!IntOp, Terminator, Codegen!Terminator
<1>2. \A op \in DOMAIN Codegen!FloatOp : Codegen!FloatOp[op] \notin Terminator
  BY DEF Codegen!FloatOp, Terminator, Codegen!Terminator
<1> QED BY <1>1, <1>2 DEF Terminator, Codegen!Terminator

LEMMA BinopStraight ==
  ASSUME NEW f, NEW op \in Plain, NEW l, NEW r
  PROVE  Straight(Codegen!ApplyBinop(f, op, l, r))
<1>1. CASE Codegen!Class(l) = "int"
  <2> DEFINE g == <<Codegen!Emit("ne", "i1", <<r, Codegen!I64(0)>>),
                    Codegen!Guard(Codegen!Last(f), "anx_panic_div_zero", <<>>)>>
  <2>1. PICK t : t = IF op \in Codegen!Compare \cup Codegen!Equality THEN "i1" ELSE l.t
    OBVIOUS
  <2>2. PICK a : a = IF op \in {"Div", "Mod"} THEN g ELSE <<>>
    OBVIOUS
  <2>3. Codegen!ApplyBinop(f, op, l, r) = a \o <<Codegen!Emit(Codegen!IntOp[op], t, <<l, r>>)>>
    BY <1>1, <2>1, <2>2 DEF Codegen!ApplyBinop, Codegen!ApplyIntBinop
  <2>4. Straight(g)
    BY OpNames, StraightEmit, StraightGuard, Straight2
  <2>5. Straight(a)
    BY <2>2, <2>4, StraightNone
  <2>6. Straight(<<Codegen!Emit(Codegen!IntOp[op], t, <<l, r>>)>>)
    BY OpNames, StraightEmit, Straight1
  <2> QED BY <2>3, <2>5, <2>6, StraightJoin
<1>2. CASE Codegen!Class(l) = "struct"
  <2> DEFINE a == <<Codegen!Emit("anx_str_equals", "i8", <<l, r>>), Codegen!Emit("trunc", "i1", <<Codegen!Last(f)>>)>>
             n == <<Codegen!Emit("not", "i1", <<Codegen!Last(f)>>)>>
  <2>1. Codegen!ApplyBinop(f, op, l, r) = Codegen!ApplyStrBinop(f, op, l, r)
    BY <1>2 DEF Codegen!ApplyBinop
  <2>2. CASE op = "Add"
    <3>1. Codegen!ApplyStrBinop(f, op, l, r) = <<Codegen!Emit("anx_str_concat", "struct", <<l, r>>)>>
      BY <2>2 DEF Codegen!ApplyStrBinop, Codegen!Equality
    <3>2. Straight(<<Codegen!Emit("anx_str_concat", "struct", <<l, r>>)>>)
      BY OpNames, StraightEmit, Straight1
    <3> QED BY <2>1, <3>1, <3>2
  <2>3. CASE op \in {"Eq", "NotEq"}
    <3>1. PICK b : b = IF op = "NotEq" THEN n ELSE <<>>
      OBVIOUS
    <3>2. Codegen!ApplyStrBinop(f, op, l, r) = a \o b
      BY <2>3, <3>1 DEF Codegen!ApplyStrBinop, Codegen!Equality
    <3>3. Straight(a)
      BY OpNames, StraightEmit, Straight2
    <3>4. Straight(n)
      BY OpNames, StraightEmit, Straight1
    <3>5. Straight(b)
      BY <3>1, <3>4, StraightNone
    <3> QED BY <2>1, <3>2, <3>3, <3>5, StraightJoin
  <2>4. CASE op \notin {"Add", "Eq", "NotEq"}
    <3>1. Codegen!ApplyStrBinop(f, op, l, r) = <<Codegen!Unreachable>>
      BY <2>4 DEF Codegen!ApplyStrBinop, Codegen!Equality
    <3> QED BY <2>1, <3>1, StraightOther, Straight1
  <2> QED BY <2>2, <2>3, <2>4
<1>3. CASE Codegen!Class(l) = "double" /\ op \in DOMAIN Codegen!FloatOp
  <2>1. PICK t : Codegen!ApplyBinop(f, op, l, r) = <<Codegen!Emit(Codegen!FloatOp[op], t, <<l, r>>)>>
    BY <1>3 DEF Codegen!ApplyBinop
  <2> QED BY <1>3, <2>1, OpNames, StraightEmit, Straight1
<1>4. CASE Codegen!Class(l) \notin {"int", "struct"} /\ ~(Codegen!Class(l) = "double" /\ op \in DOMAIN Codegen!FloatOp)
  <2>1. Codegen!ApplyBinop(f, op, l, r) = <<Codegen!Unreachable>>
    BY <1>4 DEF Codegen!ApplyBinop
  <2> QED BY <2>1, StraightOther, Straight1
<1> QED BY <1>1, <1>2, <1>3, <1>4

LEMMA IndexStraight ==
  ASSUME NEW f, NEW a \in NodesOf(prog), Nodes[a].k \in ExprKind, NEW i \in NodesOf(prog), Nodes[i].k \in ExprKind,
         NEW k
  PROVE  Straight(Codegen!IndexPtr(f, a, i, k))
<1> DEFINE p == <<Codegen!Value(a), Codegen!Emit("length", "i64", <<Codegen!V(f, k + 1)>>),
                  Codegen!Emit("data", "ptr", <<Codegen!V(f, k + 1)>>), Codegen!Value(i),
                  Codegen!Emit("ult", "i1", <<Codegen!V(f, k + 4), Codegen!V(f, k + 2)>>),
                  Codegen!Guard(Codegen!V(f, k + 5), "anx_panic_oob", <<Codegen!V(f, k + 4), Codegen!V(f, k + 2)>>)>>
           g == <<Codegen!Emit("gep", "ptr", <<Codegen!V(f, k + 3), Codegen!V(f, k + 4)>>)>>
<1>1. Straight(p)
  <2>1. StraightStep(Codegen!Value(a)) /\ StraightStep(Codegen!Value(i))
    BY StraightValue
  <2>2. \A t, as : /\ StraightStep(Codegen!Emit("length", t, as)) /\ StraightStep(Codegen!Emit("data", t, as))
                   /\ StraightStep(Codegen!Emit("ult", t, as))
    BY OpNames, StraightEmit
  <2>3. \A ok, as : StraightStep(Codegen!Guard(ok, "anx_panic_oob", as))
    BY OpNames, StraightGuard
  <2> QED BY <2>1, <2>2, <2>3, Straight6
<1>2. Straight(g)
  BY OpNames, StraightEmit, Straight1
<1>3. Straight(<<Codegen!Unreachable>>)
  BY StraightOther, Straight1
<1>4. PICK b : b = IF Codegen!ElemType(a) = "void" THEN <<Codegen!Unreachable>> ELSE g
  OBVIOUS
<1>5. Straight(b)
  BY <1>2, <1>3, <1>4
<1>6. Codegen!IndexPtr(f, a, i, k) = p \o b
  BY <1>4 DEF Codegen!IndexPtr
<1> QED BY <1>1, <1>5, <1>6, StraightJoin

\* Where an assignment stores.
LEMMA TargetStraight ==
  ASSUME Vetted, NEW t \in NodesOf(prog), NEW f, NEW k
  PROVE  Straight(Codegen!Target(f, t, k).plan)
<1>1. CASE Nodes[t].k = "Ident"
  <2>1. Codegen!Target(f, t, k).plan = <<>>
    BY <1>1 DEF Codegen!Target
  <2> QED BY <2>1, StraightNone
<1>2. CASE Nodes[t].k = "Index"
  <2>1. Codegen!Target(f, t, k).plan = Codegen!IndexPtr(f, Nodes[t].kids[1], Nodes[t].kids[2], k)
    BY <1>2 DEF Codegen!Target
  <2>2. Len(Nodes[t].kids) = 2 /\ Nodes[t].k \in ExprKind
    BY <1>2, KidsOf, KidCounts DEF ExprKind
  <2> PICK ks : ks = Nodes[t].kids
    OBVIOUS
  <2>3. \A i \in 1 .. Len(ks) : ks[i] \in NodesOf(prog) /\ Nodes[ks[i]].k \in ExprKind
    BY <2>2, ExprKids
  <2>4. \A i \in {1, 2} : ks[i] \in NodesOf(prog) /\ Nodes[ks[i]].k \in ExprKind
    BY <2>2, <2>3
  <2> QED BY <2>1, <2>4, IndexStraight
<1>3. CASE Nodes[t].k \notin {"Ident", "Index"}
  <2>1. Codegen!Target(f, t, k).plan = <<Codegen!Unreachable>>
    BY <1>3 DEF Codegen!Target
  <2> QED BY <2>1, StraightOther, Straight1
<1> QED BY <1>1, <1>2, <1>3

LEMMA AssignStraight ==
  ASSUME Vetted, NEW n \in NodesOf(prog), Nodes[n].k \in {"Assign", "CompoundAssign", "IncDec"}, NEW f
  PROVE  /\ Nodes[n].k = "Assign" => Straight(Codegen!Assign(f, Nodes[n]))
         /\ Nodes[n].k = "CompoundAssign" => Straight(Codegen!CompoundAssign(f, Nodes[n]))
         /\ Nodes[n].k = "IncDec" => Straight(Codegen!IncDec(f, Nodes[n]))
<1> PICK nd : nd = Nodes[n]
  OBVIOUS
<1>0. nd.k \in ExprKind
  BY DEF ExprKind
<1>1. /\ nd.k \in {"Assign", "CompoundAssign"} => Len(nd.kids) = 2
      /\ nd.k = "IncDec" => Len(nd.kids) = 1
  BY KidsOf, KidCounts
<1>9. \A i \in 1 .. Len(nd.kids) : nd.kids[i] \in NodesOf(prog) /\ StraightStep(Codegen!Value(nd.kids[i]))
  BY <1>0, ExprKids
<1>2. nd.kids[1] \in NodesOf(prog)
  BY <1>1, <1>9
<1>3. \A k : Straight(Codegen!Target(f, nd.kids[1], k).plan)
  BY <1>2, TargetStraight
<1>4. /\ \A t, as : StraightStep(Codegen!Emit("store", t, as)) /\ StraightStep(Codegen!Emit("load", t, as))
      /\ \A x : StraightStep(Codegen!Give(x))
  BY OpNames, StraightEmit, StraightOther
<1>5. nd.k \in {"Assign", "CompoundAssign"} => StraightStep(Codegen!Value(nd.kids[2]))
  BY <1>1, <1>9
<1>6. ASSUME nd.k = "Assign" PROVE Straight(Codegen!Assign(f, nd))
  <2> PICK to : to = Codegen!Target(f, nd.kids[1], 1)
    OBVIOUS
  <2>1. Codegen!Assign(f, nd) = (<<Codegen!Value(nd.kids[2])>> \o to.plan)
          \o <<Codegen!Emit("store", "none", <<to.ptr, Codegen!V(f, 1)>>), Codegen!Give(Codegen!V(f, 1))>>
    BY DEF Codegen!Assign
  <2>2. Straight(<<Codegen!Emit("store", "none", <<to.ptr, Codegen!V(f, 1)>>), Codegen!Give(Codegen!V(f, 1))>>)
    BY <1>4, Straight2
  <2>3. Straight(<<Codegen!Value(nd.kids[2])>>) /\ Straight(to.plan)
    BY <1>3, <1>5, <1>6, Straight1
  <2> QED BY <2>1, <2>2, <2>3, StraightJoin
<1>7. ASSUME nd.k = "CompoundAssign" PROVE Straight(Codegen!CompoundAssign(f, nd))
  <2> PICK to : to = Codegen!Target(f, nd.kids[1], 0)
    OBVIOUS
  <2> DEFINE a == <<Codegen!Emit("load", to.ty, <<to.ptr>>), Codegen!Value(nd.kids[2])>>
             b == Codegen!ApplyBinop(f, nd.op, Codegen!V(f, to.used + 1), Codegen!V(f, to.used + 2))
             c == <<Codegen!Emit("store", "none", <<to.ptr, Codegen!Last(f)>>), Codegen!Give(Codegen!Last(f))>>
  <2>1. Codegen!CompoundAssign(f, nd) = ((to.plan \o a) \o b) \o c
    BY DEF Codegen!CompoundAssign
  <2>2. Straight(a) /\ Straight(c)
    BY <1>4, <1>5, <1>7, Straight2
  <2>3. nd.op \in Plain
    BY <1>7, KidsOf DEF Shape, Plain, Arith, Bitwise, Lazy, BinOp
  <2>4. Straight(b)
    BY <2>3, BinopStraight
  <2>5. Straight(to.plan)
    BY <1>3
  <2> HIDE DEF a, b, c
  <2> QED BY <2>1, <2>2, <2>4, <2>5, StraightJoin
<1>8. ASSUME nd.k = "IncDec" PROVE Straight(Codegen!IncDec(f, nd))
  <2>a. PICK to : to = Codegen!Target(f, nd.kids[1], 0)
    OBVIOUS
  <2>b. PICK cur : cur = Codegen!V(f, to.used + 1)
    OBVIOUS
  <2>c. PICK add : add = IF nd.op = "Inc" THEN "Add" ELSE "Sub"
    OBVIOUS
  <2>d. PICK s : s = IF Codegen!Class(cur) = "int" THEN Codegen!Emit(Codegen!IntOp[add], cur.t, <<cur, Codegen!I64(1)>>)
                   ELSE Codegen!Emit(Codegen!FloatOp[add], "double", <<cur, Codegen!Const("double", FloatV(2))>>)
    OBVIOUS
  <2>e. PICK x : x = IF nd.prefix THEN Codegen!Last(f) ELSE cur
    OBVIOUS
  <2>1. Codegen!IncDec(f, nd) = ((to.plan \o <<Codegen!Emit("load", to.ty, <<to.ptr>>)>>) \o <<s>>)
                                \o <<Codegen!Emit("store", "none", <<to.ptr, Codegen!Last(f)>>), Codegen!Give(x)>>
    BY <2>a, <2>b, <2>c, <2>d, <2>e DEF Codegen!IncDec, Codegen!FloatV, FloatV
  <2>2. add \in Plain /\ add \in DOMAIN Codegen!FloatOp
    BY <2>c DEF Plain, BinOp, Arith, Lazy, Codegen!FloatOp
  <2>3. StraightStep(s)
    BY <2>2, <2>d, OpNames, StraightEmit
  <2>4. Straight(<<s>>) /\ Straight(<<Codegen!Emit("load", to.ty, <<to.ptr>>)>>)
    BY <1>4, <2>3, Straight1
  <2>5. Straight(<<Codegen!Emit("store", "none", <<to.ptr, Codegen!Last(f)>>), Codegen!Give(x)>>)
    BY <1>4, Straight2
  <2>6. Straight(to.plan)
    BY <1>3, <2>a
  <2> QED BY <2>1, <2>4, <2>5, <2>6, StraightJoin
<1> QED BY <1>6, <1>7, <1>8

\* What print does with its argument.
LEMMA PrintStraight == ASSUME NEW f, NEW arg PROVE Straight(Codegen!PrintValue(f, arg))
<1>a. PICK x : x = Codegen!V(f, 1)
  OBVIOUS
<1> DEFINE bool  == x.t = "i1"
           int   == x.t = "i64"
           float == x.t = "double"
           str   == x.t = "struct" /\ Codegen!TypeAt(arg) = Codegen!TStr
           array == x.t = "struct" /\ Codegen!IsArray(Codegen!TypeAt(arg))
<1>0. ~(str /\ array)
  BY DEF Codegen!TStr, Codegen!Ty, Codegen!IsArray
<1>1. CASE bool
  <2>1. Codegen!PrintValue(f, arg) =
          <<Codegen!Emit("zext", "i8", <<x>>), Codegen!Emit("anx_print_bool", "none", <<Codegen!Last(f)>>)>>
    BY <1>a, <1>1 DEF Codegen!PrintValue
  <2> QED BY <2>1, OpNames, StraightEmit, Straight2
<1>2. CASE int
  <2>1. Codegen!PrintValue(f, arg) = <<Codegen!Emit("anx_print_int", "none", <<x>>)>>
    BY <1>a, <1>2 DEF Codegen!PrintValue
  <2> QED BY <2>1, OpNames, StraightEmit, Straight1
<1>3. CASE float
  <2>1. Codegen!PrintValue(f, arg) = <<Codegen!Emit("anx_print_float", "none", <<x>>)>>
    BY <1>a, <1>3 DEF Codegen!PrintValue
  <2> QED BY <2>1, OpNames, StraightEmit, Straight1
<1>4. CASE str
  <2>1. Codegen!PrintValue(f, arg) =
          <<Codegen!Emit("data", "ptr", <<x>>), Codegen!Emit("anx_print_str", "none", <<Codegen!Last(f)>>)>>
    BY <1>a, <1>0, <1>4 DEF Codegen!PrintValue
  <2> QED BY <2>1, OpNames, StraightEmit, Straight2
<1>5. CASE array
  <2>1. Codegen!PrintValue(f, arg) =
          <<Codegen!Emit("length", "i64", <<x>>), Codegen!Emit("data", "ptr", <<x>>),
            Codegen!Emit("anx_print_array", "none", <<Codegen!V(f, 2), Codegen!V(f, 3)>>)>>
    BY <1>a, <1>0, <1>5 DEF Codegen!PrintValue
  <2> QED BY <2>1, OpNames, StraightEmit, Straight3
<1>6. CASE ~bool /\ ~int /\ ~float /\ ~str /\ ~array
  <2>1. Codegen!PrintValue(f, arg) = <<Codegen!Unreachable>>
    BY <1>a, <1>6 DEF Codegen!PrintValue
  <2> QED BY <2>1, StraightOther, Straight1
<1> HIDE DEF bool, int, float, str, array
<1> QED BY <1>1, <1>2, <1>3, <1>4, <1>5, <1>6

\* The built-in functions on strings.
LEMMA LengthStraight ==
  ASSUME NEW f, NEW n, StraightStep(Codegen!Value(n))
  PROVE  Straight(Codegen!LengthOf(f, n))
<1>1. Codegen!LengthOf(f, n) = <<Codegen!Value(n), Codegen!Emit("length", "i64", <<Codegen!V(f, 1)>>),
                                 Codegen!Give(Codegen!Last(f))>>
  BY DEF Codegen!LengthOf
<1> QED BY <1>1, OpNames, StraightEmit, StraightOther, Straight3

LEMMA CharAtStraight ==
  ASSUME NEW f, NEW as, StraightStep(Codegen!Value(as[1])), StraightStep(Codegen!Value(as[2]))
  PROVE  Straight(Codegen!CharAt(f, as))
<1>1. /\ \A t, a : /\ StraightStep(Codegen!Emit("length", t, a)) /\ StraightStep(Codegen!Emit("ult", t, a))
                   /\ StraightStep(Codegen!Emit("anx_str_char_at", t, a))
      /\ \A ok, a : StraightStep(Codegen!Guard(ok, "anx_panic_str_oob", a))
      /\ \A x : StraightStep(Codegen!Give(x))
  BY OpNames, StraightEmit, StraightGuard, StraightOther
<1> QED BY <1>1, Straight7 DEF Codegen!CharAt

LEMMA SubstringStraight ==
  ASSUME NEW f, NEW as, StraightStep(Codegen!Value(as[1])), StraightStep(Codegen!Value(as[2])),
         StraightStep(Codegen!Value(as[3]))
  PROVE  Straight(Codegen!Substring(f, as))
<1>1. /\ \A t, a : /\ StraightStep(Codegen!Emit("length", t, a)) /\ StraightStep(Codegen!Emit("ule", t, a))
                   /\ StraightStep(Codegen!Emit("sle", t, a)) /\ StraightStep(Codegen!Emit("and", t, a))
                   /\ StraightStep(Codegen!Emit("anx_str_substring", t, a))
      /\ \A ok, a : StraightStep(Codegen!Guard(ok, "anx_panic_str_oob", a))
      /\ \A x : StraightStep(Codegen!Give(x))
  BY OpNames, StraightEmit, StraightGuard, StraightOther
<1> QED BY <1>1, Straight12 DEF Codegen!Substring

\* One value after another.
LEMMA ValuesStraight ==
  ASSUME NEW as, NEW p, IsSeq(p), \A i \in DOMAIN p : i \in DOMAIN as /\ p[i] = Codegen!Value(as[i]),
         \A i \in DOMAIN as : StraightStep(Codegen!Value(as[i]))
  PROVE  Straight(p)
  BY DEF Straight

LEMMA CallStraight ==
  ASSUME Vetted, NEW n \in NodesOf(prog), Nodes[n].k = "Call", NEW f
  PROVE  Straight(Codegen!Call(f, Nodes[n]))
<1>a. PICK nd : nd = Nodes[n]
  OBVIOUS
<1>b. PICK as : as = nd.kids
  OBVIOUS
<1>1. /\ nd.name \in {"print", "length"} => Len(as) = 1
      /\ nd.name = "charAt" => Len(as) = 2
      /\ nd.name = "substring" => Len(as) = 3
  BY <1>a, <1>b, CallCounts
<1>2. \A i \in 1 .. Len(as) : StraightStep(Codegen!Value(as[i]))
  BY <1>a, <1>b, ExprKids DEF ExprKind
<1>3. IsSeq(as)
  BY <1>a, <1>b, KidsOf
<1>c. /\ Len(as) \in {1, 2, 3} => StraightStep(Codegen!Value(as[1]))
      /\ Len(as) \in {2, 3} => StraightStep(Codegen!Value(as[2]))
      /\ Len(as) = 3 => StraightStep(Codegen!Value(as[3]))
  <2>1. PICK m : m = Len(as)
    OBVIOUS
  <2>2. /\ m \in {1, 2, 3} => 1 \in 1 .. m
        /\ m \in {2, 3} => 2 \in 1 .. m
        /\ m = 3 => 3 \in 1 .. m
    OBVIOUS
  <2> QED BY <1>2, <2>1, <2>2
<1>4. CASE nd.name = "print"
  <2>1. Codegen!Call(f, nd) = (<<Codegen!Value(as[1])>> \o Codegen!PrintValue(f, as[1]))
                              \o <<Codegen!Give(Codegen!NoValue)>>
    BY <1>b, <1>4 DEF Codegen!Call
  <2>2. Straight(<<Codegen!Value(as[1])>>)
    BY <1>1, <1>c, <1>4, Straight1
  <2>3. Straight(<<Codegen!Give(Codegen!NoValue)>>)
    BY StraightOther, Straight1
  <2> QED BY <1>a, <2>1, <2>2, <2>3, PrintStraight, StraightJoin
<1>5. CASE nd.name = "length"
  <2>1. Codegen!Call(f, nd) = Codegen!LengthOf(f, as[1])
    BY <1>b, <1>5 DEF Codegen!Call
  <2> QED BY <1>a, <1>c, <1>1, <1>5, <2>1, LengthStraight
<1>6. CASE nd.name = "charAt"
  <2>1. Codegen!Call(f, nd) = Codegen!CharAt(f, as)
    BY <1>b, <1>6 DEF Codegen!Call
  <2> QED BY <1>a, <1>c, <1>1, <1>6, <2>1, CharAtStraight
<1>7. CASE nd.name = "substring"
  <2>1. Codegen!Call(f, nd) = Codegen!Substring(f, as)
    BY <1>b, <1>7 DEF Codegen!Call
  <2> QED BY <1>a, <1>c, <1>1, <1>7, <2>1, SubstringStraight
<1>8. CASE nd.name \notin {"print", "length", "charAt", "substring"} /\ Codegen!Func(nd.name) = {}
  <2>1. Codegen!Call(f, nd) = <<Codegen!Unreachable>>
    BY <1>8 DEF Codegen!Call
  <2> QED BY <1>a, <2>1, StraightOther, Straight1
<1>9. CASE nd.name \notin {"print", "length", "charAt", "substring"} /\ Codegen!Func(nd.name) # {}
  <2>1. PICK p : p = [i \in DOMAIN as |-> Codegen!Value(as[i])]
    OBVIOUS
  <2>2. PICK d, vs : Codegen!Call(f, nd) = p \o <<Codegen!CallTo(Codegen!LType(Nodes[d].ty), vs, d), Codegen!Give(Codegen!Last(f))>>
    BY <1>b, <1>9, <2>1 DEF Codegen!Call
  <2>3. DOMAIN as = 1 .. Len(as) /\ Len(as) \in Nat
    BY <1>3, SeqFacts
  <2>4. IsSeq(p) /\ DOMAIN p = DOMAIN as /\ \A i \in DOMAIN as : p[i] = Codegen!Value(as[i])
    BY <2>1, <2>3, SeqBuilt
  <2>5. Straight(p)
    BY <1>2, <2>3, <2>4, ValuesStraight
  <2>6. Straight(<<Codegen!CallTo(Codegen!LType(Nodes[d].ty), vs, d), Codegen!Give(Codegen!Last(f))>>)
    BY StraightCall, StraightOther, Straight2
  <2> QED BY <1>a, <2>2, <2>5, <2>6, StraightJoin
<1> QED BY <1>4, <1>5, <1>6, <1>7, <1>8, <1>9

LEMMA ArrayStraight ==
  ASSUME Vetted, NEW f, f.n \in NodesOf(prog), NEW nd, nd = Nodes[f.n]
  PROVE  /\ nd.k = "ArrayLiteral" => Straight(Codegen!ArrayLiteral(f, nd))
         /\ nd.k = "ArrayCreation" => Straight(Codegen!ArrayCreation(f, nd))
<1>1. nd.k \in {"ArrayLiteral", "ArrayCreation"} =>
        \A i \in 1 .. Len(nd.kids) : StraightStep(Codegen!Value(nd.kids[i]))
  BY ExprKids DEF ExprKind
<1>2. IsSeq(nd.kids)
  BY KidsOf
<1>u. Straight(<<Codegen!Unreachable>>)
  BY StraightOther, Straight1
<1>3. ASSUME nd.k = "ArrayLiteral" PROVE Straight(Codegen!ArrayLiteral(f, nd))
  <2>a. PICK es : es = nd.kids
    OBVIOUS
  <2>b. PICK m : m = Len(es)
    OBVIOUS
  <2>c. m \in Nat /\ DOMAIN es = 1 .. m
    BY <1>2, <2>a, <2>b, SeqFacts
  <2>1. CASE Codegen!ElemType(f.n) = "void"
    <3>1. Codegen!ArrayLiteral(f, nd) = <<Codegen!Unreachable>>
      BY <2>1 DEF Codegen!ArrayLiteral
    <3> QED BY <1>u, <3>1
  <2>2. CASE Codegen!ElemType(f.n) # "void"
    <3> DEFINE al == <<Codegen!Emit("malloc", "ptr", <<Codegen!I64(m)>>)>>
               in(i) == Codegen!Emit("init", "none", <<Codegen!V(f, m + 1), Codegen!I64(i - 1), Codegen!V(f, i)>>)
               e == <<Codegen!LenDataStruct(Codegen!I64(m), Codegen!V(f, m + 1)), Codegen!Give(Codegen!Last(f))>>
    <3>1. PICK p : p = [i \in 1 .. m |-> Codegen!Value(es[i])]
      OBVIOUS
    <3>2. PICK a : a = IF Codegen!HasSize(Codegen!ElemType(f.n)) THEN al ELSE <<Codegen!Unreachable>>
      OBVIOUS
    <3>3. PICK q : q = [i \in 1 .. m |-> in(i)]
      OBVIOUS
    <3>4. Codegen!ArrayLiteral(f, nd) = ((p \o a) \o q) \o e
      BY <2>a, <2>b, <2>2, <3>1, <3>2, <3>3 DEF Codegen!ArrayLiteral
    <3>5. Straight(p)
      <4>1. IsSeq(p) /\ DOMAIN p = 1 .. m /\ \A i \in 1 .. m : p[i] = Codegen!Value(es[i])
        BY <2>c, <3>1, SeqBuilt
      <4>2. \A i \in DOMAIN es : StraightStep(Codegen!Value(es[i]))
        BY <1>1, <1>3, <2>a, <2>b, <2>c
      <4> QED BY <2>c, <4>1, <4>2, ValuesStraight
    <3>6. Straight(a)
      BY <1>u, <3>2, OpNames, StraightEmit, Straight1
    <3>7. Straight(q)
      <4>1. IsSeq(q) /\ DOMAIN q = 1 .. m /\ \A i \in 1 .. m : q[i] = in(i)
        BY <2>c, <3>3, SeqBuilt
      <4>2. \A i : StraightStep(in(i))
        BY OpNames, StraightEmit
      <4> QED BY <4>1, <4>2 DEF Straight
    <3>8. Straight(e)
      BY OpNames, StraightEmit, StraightOther, Straight2 DEF Codegen!LenDataStruct
    <3> HIDE DEF e
    <3> QED BY <3>4, <3>5, <3>6, <3>7, <3>8, StraightJoin
  <2> QED BY <2>1, <2>2
<1>4. ASSUME nd.k = "ArrayCreation" PROVE Straight(Codegen!ArrayCreation(f, nd))
  <2>1. CASE ~Codegen!HasSize(Codegen!LType(nd.ty))
    <3>1. Codegen!ArrayCreation(f, nd) = <<Codegen!Unreachable>>
      BY <2>1 DEF Codegen!ArrayCreation
    <3> QED BY <1>u, <3>1
  <2>2. CASE Codegen!HasSize(Codegen!LType(nd.ty))
    <3>1. Codegen!ArrayCreation(f, nd) =
            <<Codegen!Value(nd.kids[1]), Codegen!Emit("sge", "i1", <<Codegen!V(f, 1), Codegen!I64(0)>>),
              Codegen!Guard(Codegen!V(f, 2), "anx_panic_neg_size", <<Codegen!V(f, 1)>>),
              Codegen!Emit("calloc", "ptr", <<Codegen!V(f, 1), Codegen!DefaultValue(nd.ty)>>),
              Codegen!LenDataStruct(Codegen!V(f, 1), Codegen!Last(f)), Codegen!Give(Codegen!Last(f))>>
      BY <2>2 DEF Codegen!ArrayCreation
    <3>2. Len(nd.kids) = 1
      BY <1>4, KidsOf, KidCounts
    <3>3. StraightStep(Codegen!Value(nd.kids[1]))
      BY <1>1, <1>4, <3>2
    <3>4. /\ \A t, a : StraightStep(Codegen!Emit("sge", t, a)) /\ StraightStep(Codegen!Emit("calloc", t, a))
          /\ \A ok, a : StraightStep(Codegen!Guard(ok, "anx_panic_neg_size", a))
          /\ \A m, p : StraightStep(Codegen!LenDataStruct(m, p))
          /\ \A x : StraightStep(Codegen!Give(x))
      BY OpNames, StraightEmit, StraightGuard, StraightOther DEF Codegen!LenDataStruct
    <3> QED BY <3>1, <3>3, <3>4, Straight6
  <2> QED BY <2>1, <2>2
<1> QED BY <1>3, <1>4

\* The expressions that do not choose between what they evaluate.
Lazily(n) == Nodes[n].k = "Ternary" \/ (Nodes[n].k = "Binary" /\ Nodes[n].op \in Lazy)

LEMMA ExprStraight ==
  ASSUME Vetted, NEW f, f.n \in NodesOf(prog), NEW nd, nd = Nodes[f.n], nd.k \in ExprKind, ~Lazily(f.n)
  PROVE  Straight(Codegen!ExprPlan(f, nd))
<1> PICK p : p = Codegen!ExprPlan(f, nd)
  OBVIOUS
<1>l. nd.op \in Lazy <=> nd.op \in Codegen!Lazy
  BY SameKinds
<1>0. \A i \in 1 .. Len(nd.kids) : StraightStep(Codegen!Value(nd.kids[i]))
  BY ExprKids
<1>1. /\ nd.k \in {"Binary", "Index"} => Len(nd.kids) = 2
      /\ nd.k \in {"Unary", "FieldAccess"} => Len(nd.kids) = 1
  BY KidsOf, KidCounts
<1>2. /\ nd.k \in {"Binary", "Index", "Unary", "FieldAccess"} => StraightStep(Codegen!Value(nd.kids[1]))
      /\ nd.k \in {"Binary", "Index"} => StraightStep(Codegen!Value(nd.kids[2]))
  BY <1>0, <1>1
<1>g. \A x : StraightStep(Codegen!Give(x))
  BY StraightOther
<1>3. CASE nd.k = "Ident"
  <2>1. p = <<Codegen!Emit("load", Codegen!LType(Codegen!TypeAt(f.n)), <<Codegen!Slot(nd.name)>>),
              Codegen!Give(Codegen!Last(f))>>
    BY <1>3 DEF Codegen!ExprPlan
  <2> QED BY <1>g, <2>1, OpNames, StraightEmit, Straight2
<1>4. CASE nd.k = "Binary"
  <2>1. nd.op \in Plain
    BY <1>4, KidsOf DEF Lazily, Shape, Plain
  <2>2. PICK b : b = Codegen!ApplyBinop(f, nd.op, Codegen!V(f, 1), Codegen!V(f, 2))
    OBVIOUS
  <2>3. p = (<<Codegen!Value(nd.kids[1]), Codegen!Value(nd.kids[2])>> \o b) \o <<Codegen!Give(Codegen!Last(f))>>
    BY <1>l, <1>4, <2>1, <2>2 DEF Codegen!ExprPlan, Plain
  <2>4. Straight(b)
    BY <2>1, <2>2, BinopStraight
  <2>5. Straight(<<Codegen!Value(nd.kids[1]), Codegen!Value(nd.kids[2])>>)
    BY <1>2, <1>4, Straight2
  <2>6. Straight(<<Codegen!Give(Codegen!Last(f))>>)
    BY <1>g, Straight1
  <2> QED BY <2>3, <2>4, <2>5, <2>6, StraightJoin
<1>5. CASE nd.k = "Unary"
  <2>1. PICK op, t : /\ p = <<Codegen!Value(nd.kids[1]), Codegen!Emit(op, t, <<Codegen!V(f, 1)>>), Codegen!Give(Codegen!Last(f))>>
                     /\ op \in {"neg", "fneg", "not"}
    BY <1>5 DEF Codegen!ExprPlan, Codegen!Unary
  <2>2. StraightStep(Codegen!Emit(op, t, <<Codegen!V(f, 1)>>))
    BY <2>1, OpNames, StraightEmit
  <2> QED BY <1>2, <1>5, <1>g, <2>1, <2>2, Straight3
<1>6. CASE nd.k \in {"Assign", "CompoundAssign", "IncDec"}
  <2>1. /\ nd.k = "Assign" => p = Codegen!Assign(f, nd)
        /\ nd.k = "CompoundAssign" => p = Codegen!CompoundAssign(f, nd)
        /\ nd.k = "IncDec" => p = Codegen!IncDec(f, nd)
    BY DEF Codegen!ExprPlan
  <2> QED BY <1>6, <2>1, AssignStraight
<1>7. CASE nd.k = "Call"
  <2>1. p = Codegen!Call(f, nd)
    BY <1>7 DEF Codegen!ExprPlan
  <2> QED BY <1>7, <2>1, CallStraight
<1>8. CASE nd.k = "Index"
  <2>1. p = Codegen!IndexPtr(f, nd.kids[1], nd.kids[2], 0)
            \o <<Codegen!Emit("load", Codegen!ElemType(nd.kids[1]), <<Codegen!Last(f)>>), Codegen!Give(Codegen!Last(f))>>
    BY <1>8 DEF Codegen!ExprPlan
  <2>2. \A i \in 1 .. Len(nd.kids) : nd.kids[i] \in NodesOf(prog) /\ Nodes[nd.kids[i]].k \in ExprKind
    BY ExprKids
  <2>3. /\ nd.kids[1] \in NodesOf(prog) /\ Nodes[nd.kids[1]].k \in ExprKind
        /\ nd.kids[2] \in NodesOf(prog) /\ Nodes[nd.kids[2]].k \in ExprKind
    BY <1>1, <1>8, <2>2
  <2>4. Straight(Codegen!IndexPtr(f, nd.kids[1], nd.kids[2], 0))
    BY <2>3, IndexStraight
  <2>5. Straight(<<Codegen!Emit("load", Codegen!ElemType(nd.kids[1]), <<Codegen!Last(f)>>), Codegen!Give(Codegen!Last(f))>>)
    BY <1>g, OpNames, StraightEmit, Straight2
  <2> QED BY <2>1, <2>4, <2>5, StraightJoin
<1>9. CASE nd.k = "FieldAccess"
  <2>1. p = Codegen!LengthOf(f, nd.kids[1])
    BY <1>9 DEF Codegen!ExprPlan
  <2> QED BY <1>2, <1>9, <2>1, LengthStraight
<1>10. CASE nd.k \in {"ArrayLiteral", "ArrayCreation"}
  <2>1. /\ nd.k = "ArrayLiteral" => p = Codegen!ArrayLiteral(f, nd)
        /\ nd.k = "ArrayCreation" => p = Codegen!ArrayCreation(f, nd)
    BY DEF Codegen!ExprPlan
  <2> QED BY <1>10, <2>1, ArrayStraight
<1>11. CASE nd.k = "StringLiteral"
  <2>1. p = <<Codegen!Emit("strlit", "struct", <<Codegen!Const("str", nd.lit)>>), Codegen!Give(Codegen!Last(f))>>
    BY <1>11 DEF Codegen!ExprPlan
  <2> QED BY <1>g, <2>1, OpNames, StraightEmit, Straight2
<1>12. CASE nd.k \in {"IntLiteral", "FloatLiteral", "BoolLiteral", "Null"}
  <2>1. p = <<Codegen!Give(Codegen!Literal(nd))>>
    BY <1>12 DEF Codegen!ExprPlan
  <2> QED BY <1>g, <2>1, Straight1
<1>13. nd.k \in {"Ident", "Binary", "Unary", "Assign", "CompoundAssign", "IncDec", "Call", "Index", "FieldAccess",
                 "ArrayLiteral", "ArrayCreation", "StringLiteral", "IntLiteral", "FloatLiteral", "BoolLiteral", "Null"}
  <2>1. nd.k # "Ternary"
    BY DEF Lazily
  <2>2. nd.k \in ExprKind
    OBVIOUS
  <2> QED BY <2>1, <2>2 DEF ExprKind
<1>14. Straight(p)
  BY <1>3, <1>4, <1>5, <1>6, <1>7, <1>8, <1>9, <1>10, <1>11, <1>12, <1>13
<1> QED BY <1>14

-----------------------------------------------------------------------------
(***************************************************************************)
(* An activation of code generation.  Where it stands in its plan says     *)
(* whether the builder's block is still open to it (Live), which of its    *)
(* own blocks it has yet to fill (Pending), and what values it has.        *)
(***************************************************************************)
Kind(f)   == Nodes[f.n].k
Kids(f)   == Nodes[f.n].kids
IsLazy(f) == Kind(f) = "Binary" /\ Nodes[f.n].op \in Lazy
Ended(x)  == Codegen!Ended(x)

\* Where an if stands, if it were to leave nothing out: the branches out of the two
\* statements are steps 6 and 9, and the unreachable at the end is step 11.
Skip(b)    == IF b THEN 1 ELSE 0
IfPoint(f) ==
  LET s2 == Skip(MustReturn(Kids(f)[2]))
      s3 == Skip(Len(Kids(f)) = 2 \/ MustReturn(Kids(f)[3]))
  IN  IF f.pc <= 5 THEN f.pc
      ELSE IF f.pc + s2 <= 8 THEN f.pc + s2
      ELSE IF f.pc + s2 + s3 = 11 /\ ~MustReturn(f.n) THEN 12
      ELSE f.pc + s2 + s3

\* Where a loop stands, if it had an update and left nothing out: its condition's steps
\* begin at 1, the update is step 8 and the branch back step 9.
IsLoop(f) == Kind(f) \in {"While", "For"}
Before(f) == IF Kind(f) = "For" THEN 1 ELSE 0
BodyAt(f) == IF Kind(f) = "For" THEN 4 ELSE 2
Body(f)   == Kids(f)[BodyAt(f)]
LoopPoint(f) ==
  LET p == f.pc - Before(f)
  IN  IF p <= 7 THEN p
      ELSE IF MustReturn(Body(f)) THEN p + 2
      ELSE IF Kind(f) = "While" THEN p + 1 ELSE p

IsBlock(f) == Kind(f) \in {"Block", "Func"}

Live(f) ==
  /\ IsLazy(f) => f.pc \notin {5, 9}
  /\ Kind(f) = "Ternary" => f.pc \notin {4, 8, 12}
  /\ Kind(f) = "Return" => f.pc <= Len(Kids(f)) + 1
  /\ Kind(f) = "If" => IfPoint(f) \notin {4, 7, 10} /\ (IfPoint(f) = 12 => ~MustReturn(f.n))
  /\ IsLoop(f) => LoopPoint(f) \notin {3, 6, 10}
  /\ IsBlock(f) => ~Ended(Codegen!Last(f))

Among(p, a, b, c) ==
  IF p \in a THEN {1, 2, 3} ELSE IF p \in b THEN {2, 3} ELSE IF p \in c THEN {3} ELSE {}
Pending(f) ==
  IF IsLazy(f) THEN IF f.pc \in 2 .. 5 THEN {1, 2} ELSE IF f.pc \in 6 .. 9 THEN {2} ELSE {}
  ELSE IF Kind(f) = "Ternary" THEN Among(f.pc, 2 .. 4, 5 .. 8, 9 .. 12)
  ELSE IF Kind(f) = "If" THEN Among(IfPoint(f), 3 .. 4, 5 .. 7, 8 .. 10)
  ELSE IF IsLoop(f) THEN Among(LoopPoint(f), 2 .. 3, 4 .. 6, 7 .. 10)
  ELSE {}

\* An answer that is a statement's says what MustReturn does.
Gives(n, x)     == Nodes[n].k \in ExprKind \/ (Ended(x) <=> MustReturn(n))
Answer(f, i, j) == i \in 1 .. Len(f.vs) => (Ended(f.vs[i]) <=> MustReturn(Kids(f)[j]))

PlacedIf(f) ==
  LET p == IfPoint(f)
  IN  /\ p \in 1 .. 12 /\ (p = 11 => MustReturn(f.n))
      /\ IF p <= 2 THEN f.bbs = <<>> ELSE Len(f.bbs) = 3
      /\ Len(f.vs) = IF p = 1 THEN 0 ELSE IF p <= 5 THEN 1 ELSE IF p <= 8 THEN 2 ELSE Len(Kids(f))
      /\ Answer(f, 2, 2) /\ (Len(Kids(f)) = 3 => Answer(f, 3, 3))
PlacedLoop(f) ==
  LET p == LoopPoint(f)
  IN  /\ p \in 1 - Before(f) .. 11
      /\ IF p <= 1 THEN f.bbs = <<>> ELSE Len(f.bbs) = 3
      /\ p = 0 => f.vs = <<>>
      /\ p \in 1 .. 4 => Len(f.vs) = Before(f)
      /\ p \in 5 .. 7 => Len(f.vs) = Before(f) + 1
      /\ p >= 8 => Len(f.vs) >= Before(f) + 2 /\ Answer(f, Before(f) + 2, BodyAt(f))
PlacedBlock(f) ==
  /\ Len(f.vs) <= Len(Kids(f))
  /\ \A i \in 1 .. Len(f.vs) : Answer(f, i, i) /\ (i < Len(f.vs) => ~MustReturn(Kids(f)[i]))
Placed(f) ==
  /\ IsLazy(f) => f.pc \in 1 .. 11 /\ IF f.pc = 1 THEN f.bbs = <<>> ELSE Len(f.bbs) >= 2
  /\ Kind(f) = "Ternary" => f.pc \in 1 .. 14 /\ IF f.pc = 1 THEN f.bbs = <<>> ELSE Len(f.bbs) >= 3
  /\ Kind(f) = "Return" => f.pc \in 1 .. Len(Kids(f)) + 2
  /\ Kind(f) = "If" => PlacedIf(f)
  /\ IsLoop(f) => PlacedLoop(f)
  /\ IsBlock(f) => PlacedBlock(f)
Good(f) ==
  /\ f = [n |-> f.n, pc |-> f.pc, owned |-> f.owned, vs |-> f.vs, bbs |-> f.bbs]
  /\ f.n \in NodesOf(prog) /\ Kind(f) \in ExprKind \cup StmtKind \cup {"Func"}
  /\ f.pc \in Nat \ {0} /\ IsSeq(f.vs) /\ IsSeq(f.bbs)
  /\ Placed(f)
-----------------------------------------------------------------------------
(***************************************************************************)
(* What a step of an activation does to it.  Moves says all there is to    *)
(* say of an activation g that was f before a step that gave it m values   *)
(* and k blocks.                                                           *)
(***************************************************************************)
Moves(f, g, m, k) ==
  /\ g = [n |-> g.n, pc |-> g.pc, owned |-> g.owned, vs |-> g.vs, bbs |-> g.bbs]
  /\ g.n = f.n /\ g.pc = f.pc + 1
  /\ IsSeq(g.vs) /\ Len(g.vs) = Len(f.vs) + m /\ \A i \in 1 .. Len(f.vs) : g.vs[i] = f.vs[i]
  /\ IsSeq(g.bbs) /\ Len(g.bbs) = Len(f.bbs) + k /\ \A i \in 1 .. Len(f.bbs) : g.bbs[i] = f.bbs[i]
Same(f, m, k) ==
  \A g : Moves(f, g, m, k) => Good(g) /\ Pending(g) = Pending(f) /\ (Live(g) <=> Live(f))

\* While it generates its child n, it is ready for whatever n can answer.
Awaits(f, n) ==
  \A g : Moves(f, g, 1, 0) /\ Gives(n, g.vs[Len(f.vs) + 1]) =>
    Good(g) /\ Pending(g) = Pending(f) /\ (Live(g) <=> ~MustReturn(n))

DoesGen(f, s) ==
  /\ s.do \in {"gen", "value"} /\ Live(f)
  /\ s.n \in NodesOf(prog) /\ Nodes[s.n].k \in ExprKind \cup StmtKind /\ Awaits(f, s.n)
DoesGive(f, s) ==
  s.do = "give" /\ Pending(f) = {} /\ Gives(f.n, s.x) /\ (Live(f) <=> ~MustReturn(f.n))
DoesEmit(f, s) ==
  /\ s.do = "emit" /\ Live(f)
  /\ \A g, m : m = (IF s.t = "none" THEN 0 ELSE 1) /\ Moves(f, g, m, 0) =>
       Good(g) /\ Pending(g) = Pending(f) /\ (Live(g) <=> s.op \notin Terminator)
DoesGuard(f, s)  == s.do = "guard" /\ s.f \notin Terminator /\ Live(f) /\ Same(f, 0, 0)
DoesBlocks(f, s) ==
  /\ s.do = "blocks" /\ s.m \in {2, 3} /\ f.bbs = <<>> /\ Pending(f) = {}
  /\ \A g : Moves(f, g, 0, s.m) => Good(g) /\ Pending(g) = 1 .. s.m /\ (Live(g) <=> Live(f))
DoesPosition(f, s) ==
  /\ s.do = "position" /\ ~Live(f)
  /\ \E j \in Pending(f) :
       /\ s.b = f.bbs[j]
       /\ \A g : Moves(f, g, 0, 0) => Good(g) /\ Pending(g) = Pending(f) \ {j} /\ Live(g)
DoesMark(f, s)   == s.do = "mark" /\ Same(f, 0, 1)
DoesAlloca(f, s) == s.do = "alloca" /\ Same(f, 1, 0)
DoesBind(f, s)   == s.do = "bind" /\ Same(f, 0, 0)
Does(f, s) ==
  \/ DoesGen(f, s) \/ DoesGive(f, s) \/ DoesEmit(f, s) \/ DoesGuard(f, s) \/ DoesBlocks(f, s)
  \/ DoesPosition(f, s) \/ DoesMark(f, s) \/ DoesAlloca(f, s) \/ DoesBind(f, s) \/ s.do = "panic"

\* What every Moves keeps.
LEMMA MovesKeeps ==
  ASSUME NEW f, Good(f), NEW g, NEW m \in Nat, NEW k \in Nat, Moves(f, g, m, k)
  PROVE  /\ Kind(g) = Kind(f) /\ Kids(g) = Kids(f) /\ (IsLazy(g) <=> IsLazy(f))
         /\ (IsLoop(g) <=> IsLoop(f)) /\ (IsBlock(g) <=> IsBlock(f))
         /\ g.n = f.n /\ g.pc = f.pc + 1 /\ g.pc \in Nat \ {0} /\ f.pc \in Nat \ {0}
         /\ Len(f.vs) \in Nat /\ Len(f.bbs) \in Nat
         /\ Len(g.vs) = Len(f.vs) + m /\ Len(g.bbs) = Len(f.bbs) + k
         /\ Placed(g) => Good(g)
<1>1. g.n = f.n /\ g.pc = f.pc + 1 /\ Len(g.vs) = Len(f.vs) + m /\ Len(g.bbs) = Len(f.bbs) + k
      /\ IsSeq(g.vs) /\ IsSeq(g.bbs)
      /\ g = [n |-> g.n, pc |-> g.pc, owned |-> g.owned, vs |-> g.vs, bbs |-> g.bbs]
  BY DEF Moves
<1>2. /\ f.pc \in Nat \ {0} /\ IsSeq(f.vs) /\ IsSeq(f.bbs) /\ f.n \in NodesOf(prog)
      /\ Kind(f) \in ExprKind \cup StmtKind \cup {"Func"}
  BY DEF Good
<1>3. Len(f.vs) \in Nat /\ Len(f.bbs) \in Nat
  BY <1>2, SeqFacts
<1>4. Kind(g) = Kind(f) /\ Kids(g) = Kids(f) /\ (IsLazy(g) <=> IsLazy(f))
      /\ (IsLoop(g) <=> IsLoop(f)) /\ (IsBlock(g) <=> IsBlock(f))
  BY <1>1 DEF Kind, Kids, IsLazy, IsLoop, IsBlock
<1>5. g.pc \in Nat \ {0}
  BY <1>1, <1>2
<1>6. Placed(g) => Good(g)
  BY <1>1, <1>2, <1>4, <1>5 DEF Good
<1> QED BY <1>1, <1>2, <1>3, <1>4, <1>5, <1>6

\* Expressions never end a block, nor do declarations and expression statements.
LEMMA NoReturn ==
  ASSUME NEW n \in NodeId, Nodes[n].k \notin {"Return", "Block", "Func", "If"}
  PROVE  ~MustReturn(n)
  BY MustReturnStep

LEMMA FrameNode ==
  ASSUME Vetted, NEW f, Good(f)
  PROVE  /\ f.n \in NodesOf(prog) /\ f.n \in NodeId /\ Kids(f) = Nodes[f.n].kids /\ Kind(f) = Nodes[f.n].k
         /\ Kind(f) \in ExprKind \cup StmtKind \cup {"Func"} /\ IsSeq(Kids(f)) /\ Len(Kids(f)) \in Nat
         /\ \A i \in 1 .. Len(Kids(f)) : Kids(f)[i] \in NodesOf(prog) /\ Kids(f)[i] \in NodeId
                                         /\ Nodes[Kids(f)[i]].k \in ExprKind \cup StmtKind
<1>1. f.n \in NodesOf(prog) /\ Kind(f) \in ExprKind \cup StmtKind \cup {"Func"}
  BY DEF Good
<1>2. f.n \in NodeId /\ IsSeq(Kids(f)) /\ \A i \in 1 .. Len(Kids(f)) : Kids(f)[i] \in NodesOf(prog)
  BY <1>1, KidsOf DEF Kids
<1>3. Len(Kids(f)) \in Nat
  BY <1>2, SeqFacts
<1>4. \A i \in 1 .. Len(Kids(f)) : Kids(f)[i] \in NodeId /\ Nodes[Kids(f)[i]].k \in ExprKind \cup StmtKind
  BY <1>2, KidKinds DEF Kids
<1> QED BY <1>1, <1>2, <1>3, <1>4 DEF Kids, Kind

(***************************************************************************)
(* The activations whose plan goes straight on.                            *)
(***************************************************************************)
Simple(f) == ~IsLazy(f) /\ Kind(f) \in (ExprKind \ {"Ternary"}) \cup {"Expr", "VarDecl"}

LEMMA SimpleIs ==
  ASSUME Vetted, NEW f, Good(f), Simple(f)
  PROVE  /\ Live(f) /\ Pending(f) = {} /\ ~MustReturn(f.n)
         /\ \A g, m, k : m \in Nat /\ k \in Nat /\ Moves(f, g, m, k) => Good(g) /\ Pending(g) = {} /\ Live(g)
<1>1. ASSUME NEW h, ~IsLazy(h), Kind(h) \in (ExprKind \ {"Ternary"}) \cup {"Expr", "VarDecl"}
      PROVE  Live(h) /\ Pending(h) = {} /\ Placed(h)
  <2>1. Kind(h) \notin {"Ternary", "Return", "If"} /\ ~IsLoop(h) /\ ~IsBlock(h)
    BY <1>1 DEF ExprKind, IsLoop, IsBlock
  <2> QED BY <1>1, <2>1 DEF Live, Pending, Placed
<1>2. ~MustReturn(f.n)
  BY FrameNode, NoReturn DEF Simple, ExprKind
<1>3. ASSUME NEW g, NEW m, NEW k, m \in Nat, k \in Nat, Moves(f, g, m, k)
      PROVE  Good(g) /\ Pending(g) = {} /\ Live(g)
  <2>1. /\ Kind(g) = Kind(f) /\ (IsLazy(g) <=> IsLazy(f)) /\ (Placed(g) => Good(g))
    BY <1>3, MovesKeeps
  <2> QED BY <1>1, <2>1 DEF Simple
<1> QED BY <1>1, <1>2, <1>3 DEF Simple

LEMMA SimpleDoes ==
  ASSUME Vetted, NEW f, Good(f), Simple(f), NEW s, StraightStep(s), s.do = "give" => Gives(f.n, s.x)
  PROVE  Does(f, s)
<1>1. /\ Live(f) /\ Pending(f) = {} /\ ~MustReturn(f.n)
      /\ \A g, m, k : m \in Nat /\ k \in Nat /\ Moves(f, g, m, k) => Good(g) /\ Pending(g) = {} /\ Live(g)
  BY SimpleIs
<1>2. CASE s.do \in {"gen", "value"}
  <2>1. s.n \in NodesOf(prog) /\ Nodes[s.n].k \in ExprKind
    BY <1>2 DEF StraightStep
  <2>2. ~MustReturn(s.n)
    BY <2>1, NoReturn, KidsOf DEF ExprKind
  <2>3. DoesGen(f, s)
    BY <1>1, <1>2, <2>1, <2>2 DEF DoesGen, Awaits
  <2> QED BY <2>3 DEF Does
<1>3. CASE s.do = "emit"
  <2>1. s.op \notin Terminator
    BY <1>3 DEF StraightStep
  <2>2. DoesEmit(f, s)
    BY <1>1, <1>3, <2>1 DEF DoesEmit
  <2> QED BY <2>2 DEF Does
<1>4. CASE s.do = "guard"
  <2>1. s.f \notin Terminator
    BY <1>4 DEF StraightStep
  <2>2. DoesGuard(f, s)
    BY <1>1, <1>4, <2>1 DEF DoesGuard, Same
  <2> QED BY <2>2 DEF Does
<1>5. CASE s.do = "alloca"
  BY <1>1, <1>5 DEF Does, DoesAlloca, Same
<1>6. CASE s.do = "bind"
  BY <1>1, <1>6 DEF Does, DoesBind, Same
<1>7. CASE s.do = "give"
  BY <1>1, <1>7 DEF Does, DoesGive
<1>8. CASE s.do = "panic"
  BY <1>8 DEF Does
<1> QED BY <1>2, <1>3, <1>4, <1>5, <1>6, <1>7, <1>8 DEF StraightStep

\* What a statement's plan ends with.
LEMMA Flows ==
  \A on \in BOOLEAN : /\ Codegen!Flow(on).do = "give" /\ (Ended(Codegen!Flow(on).x) <=> on)
                      /\ StraightStep(Codegen!Flow(on))
  BY DEF Codegen!Flow, Ended, Codegen!Ended, Codegen!Const, Codegen!BoolV, StraightStep

LEMMA NotFlow == ~Ended(Codegen!NoValue)
  BY DEF Ended, Codegen!Ended, Codegen!NoValue, Codegen!Const

LEMMA DeclStraight ==
  ASSUME Vetted, NEW f, f.n \in NodesOf(prog), NEW nd, nd = Nodes[f.n], nd.k \in {"Expr", "VarDecl"}, NEW k
  PROVE  LET s == Taken(Codegen!StmtPlan(f, nd), k)
         IN  StraightStep(s) /\ (s.do = "give" => ~Ended(s.x))
<1> DEFINE Quiet(p) == IsSeq(p) /\ \A i \in DOMAIN p : StraightStep(p[i]) /\ (p[i].do = "give" => ~Ended(p[i].x))
<1>u. Codegen!Unreachable.do = "panic" /\ StraightStep(Codegen!Unreachable)
  BY StraightOther DEF Codegen!Unreachable
<1>0. ASSUME NEW p, Quiet(p) PROVE LET s == Taken(p, k) IN StraightStep(s) /\ (s.do = "give" => ~Ended(s.x))
  BY <1>0, <1>u DEF Taken, Codegen!Taken
<1>j. ASSUME NEW a, NEW b, Quiet(a), Quiet(b) PROVE Quiet(a \o b)
  <2> PICK p : p = a \o b
    OBVIOUS
  <2>1. IsSeq(a) /\ IsSeq(b) /\ IsSeq(p)
    BY <1>j, SeqIs
  <2>2. ASSUME NEW i \in DOMAIN p PROVE StraightStep(p[i]) /\ (p[i].do = "give" => ~Ended(p[i].x))
    <3>1. i \in Nat \ {0} /\ p[i] = Taken(p, i)
      BY <2>1, SeqFacts DEF Taken, Codegen!Taken
    <3>2. Taken(p, i) = Taken(a, i) \/ Taken(p, i) = Taken(b, i - Len(a))
      BY <2>1, <3>1, TakenJoin
    <3> QED BY <1>j, <1>u, <3>1, <3>2 DEF Taken, Codegen!Taken
  <2> QED BY <2>1, <2>2
<1>f. StraightStep(Codegen!Flow(FALSE)) /\ ~Ended(Codegen!Flow(FALSE).x)
  BY Flows
<1>e. \A op, t, as : Codegen!Emit(op, t, as).do # "give"
  BY DEF Codegen!Emit
<1>v. \A n : Codegen!Value(n).do # "give" /\ Codegen!Gen(n).do # "give"
  BY DEF Codegen!Value, Codegen!Gen
<1>b. \A x : Codegen!Alloca(x).do # "give" /\ Codegen!Bind(x).do # "give"
  BY DEF Codegen!Alloca, Codegen!Bind
<1>1. \A i \in 1 .. Len(nd.kids) : StraightStep(Codegen!Value(nd.kids[i])) /\ StraightStep(Codegen!Gen(nd.kids[i]))
  BY ExprKids
<1>2. CASE nd.k = "Expr"
  <2>1. Codegen!StmtPlan(f, nd) = <<Codegen!Gen(nd.kids[1]), Codegen!Flow(FALSE)>>
    BY <1>2 DEF Codegen!StmtPlan
  <2>2. Len(nd.kids) = 1
    BY <1>2, KidsOf, KidCounts
  <2>3. StraightStep(Codegen!Gen(nd.kids[1]))
    BY <1>1, <2>2
  <2>4. Quiet(<<Codegen!Gen(nd.kids[1]), Codegen!Flow(FALSE)>>)
    <3>0. PICK g, h : g = Codegen!Gen(nd.kids[1]) /\ h = Codegen!Flow(FALSE)
      OBVIOUS
    <3>1. /\ StraightStep(g) /\ (g.do = "give" => ~Ended(g.x))
          /\ StraightStep(h) /\ (h.do = "give" => ~Ended(h.x))
      BY <1>f, <1>v, <2>3, <3>0
    <3>2. Quiet(<<g, h>>)
      BY <3>1, SeqSmall
    <3> QED BY <3>0, <3>2
  <2> QED BY <1>0, <2>1, <2>4
<1>3. CASE nd.k = "VarDecl" /\ Codegen!LType(nd.ty) = "void"
  <2>1. Codegen!StmtPlan(f, nd) = <<Codegen!Unreachable>>
    BY <1>3 DEF Codegen!StmtPlan
  <2>2. Quiet(<<Codegen!Unreachable>>)
    BY <1>u, SeqSmall
  <2> QED BY <1>0, <2>1, <2>2
<1>4. CASE nd.k = "VarDecl" /\ Codegen!LType(nd.ty) # "void"
  <2>1. PICK a : a = Codegen!Alloca(Codegen!LType(nd.ty))
    OBVIOUS
  <2>2. PICK b : b = Codegen!Bind(Codegen!V(f, 1))
    OBVIOUS
  <2>3. PICK d : d = Codegen!Emit("store", "none", <<Codegen!V(f, 1), Codegen!DefaultValue(nd.ty)>>)
    OBVIOUS
  <2>4. PICK e : e = Codegen!Emit("store", "none", <<Codegen!V(f, 1), Codegen!V(f, 2)>>)
    OBVIOUS
  <2>5. PICK o : o = Codegen!Flow(FALSE)
    OBVIOUS
  <2>6. \A s \in {a, b, d, e, o} : StraightStep(s) /\ (s.do = "give" => ~Ended(s.x))
    <3>1. StraightStep(d) /\ StraightStep(e)
      BY <2>3, <2>4, OpNames, StraightEmit
    <3> QED BY <1>f, <1>e, <1>b, <2>1, <2>2, <2>3, <2>4, <2>5, <3>1, StraightOther
  <2>9. Quiet(<<a>>) /\ Quiet(<<d>>) /\ Quiet(<<b, o>>)
    BY <2>6, SeqSmall
  <2>7. CASE nd.kids = <<>>
    <3>1. Codegen!StmtPlan(f, nd) = (<<a>> \o <<d>>) \o <<b, o>>
      BY <1>4, <2>1, <2>2, <2>3, <2>5, <2>7 DEF Codegen!StmtPlan
    <3> HIDE DEF Quiet
    <3>2. Quiet(Codegen!StmtPlan(f, nd))
      BY <1>j, <2>9, <3>1
    <3> QED BY <1>0, <3>2
  <2>8. CASE nd.kids # <<>>
    <3>1. PICK v : v = Codegen!Value(nd.kids[1])
      OBVIOUS
    <3>2. Codegen!StmtPlan(f, nd) = (<<a>> \o <<v, e>>) \o <<b, o>>
      BY <1>4, <2>1, <2>2, <2>4, <2>5, <2>8, <3>1 DEF Codegen!StmtPlan
    <3>3. Len(nd.kids) \in Nat /\ Len(nd.kids) # 0
      <4>1. IsSeq(nd.kids)
        BY KidsOf
      <4> QED BY <2>8, <4>1 DEF IsSeq
    <3>4. StraightStep(v) /\ v.do # "give"
      BY <1>1, <1>v, <3>1, <3>3
    <3>5. Quiet(<<v, e>>)
      BY <2>6, <3>4, SeqSmall
    <3> HIDE DEF Quiet
    <3>6. Quiet(Codegen!StmtPlan(f, nd))
      BY <1>j, <2>9, <3>2, <3>5
    <3> QED BY <1>0, <3>6
  <2> QED BY <2>7, <2>8
<1> QED BY <1>2, <1>3, <1>4

LEMMA SimpleSteps ==
  ASSUME Vetted, NEW f, Good(f), Simple(f)
  PROVE  Does(f, Codegen!StepOf(f))
<1>0. f.n \in NodesOf(prog)
  BY DEF Good
<1>1. CASE Kind(f) \in ExprKind
  <2>1. Codegen!StepOf(f) = Taken(Codegen!ExprPlan(f, Nodes[f.n]), f.pc)
    <3>1. Nodes[f.n].k \in Codegen!ExprKind /\ Nodes[f.n].k \notin {"Block", "Func"}
      BY <1>1, SameKinds DEF Kind, ExprKind
    <3> QED BY <3>1 DEF Codegen!StepOf, Taken
  <2>2. ~Lazily(f.n)
    BY <1>1 DEF Simple, Lazily, IsLazy, Kind, ExprKind
  <2>3. Straight(Codegen!ExprPlan(f, Nodes[f.n]))
    BY <1>0, <1>1, <2>2, ExprStraight DEF Kind
  <2>4. StraightStep(Codegen!StepOf(f))
    BY <2>1, <2>3, StraightTaken
  <2> QED BY <1>1, <2>4, SimpleDoes DEF Gives, Kind
<1>2. CASE Kind(f) \in {"Expr", "VarDecl"}
  <2>1. Codegen!StepOf(f) = Taken(Codegen!StmtPlan(f, Nodes[f.n]), f.pc)
    <3>1. Nodes[f.n].k \notin Codegen!ExprKind /\ Nodes[f.n].k \notin {"Block", "Func"}
      BY <1>2, SameKinds DEF Kind, ExprKind
    <3> QED BY <3>1 DEF Codegen!StepOf, Taken
  <2>2. /\ StraightStep(Codegen!StepOf(f))
        /\ Codegen!StepOf(f).do = "give" => ~Ended(Codegen!StepOf(f).x)
    BY <1>0, <1>2, <2>1, DeclStraight DEF Kind
  <2>3. ~MustReturn(f.n)
    BY SimpleIs
  <2> QED BY <2>2, <2>3, SimpleDoes DEF Gives
<1> QED BY <1>1, <1>2 DEF Simple
-----------------------------------------------------------------------------
(***************************************************************************)
(* Short circuits and ternaries.                                           *)
(***************************************************************************)
LEMMA PlanOf ==
  ASSUME Vetted, NEW f, Good(f), ~IsBlock(f)
  PROVE  Codegen!StepOf(f) = IF Kind(f) \in ExprKind THEN Taken(Codegen!ExprPlan(f, Nodes[f.n]), f.pc)
                             ELSE Taken(Codegen!StmtPlan(f, Nodes[f.n]), f.pc)
  BY SameKinds DEF Codegen!StepOf, Taken, Kind, IsBlock

\* The steps of control kinds, one by one.
LEMMA GenDoes ==
  ASSUME Vetted, NEW f, Good(f), Live(f), NEW i \in 1 .. Len(Kids(f)), NEW s,
         s.do \in {"gen", "value"}, s.n = Kids(f)[i],
         \A g : Moves(f, g, 1, 0) /\ Gives(Kids(f)[i], g.vs[Len(f.vs) + 1]) =>
           Good(g) /\ Pending(g) = Pending(f) /\ (Live(g) <=> ~MustReturn(Kids(f)[i]))
  PROVE  Does(f, s)
<1>1. Kids(f)[i] \in NodesOf(prog) /\ Nodes[Kids(f)[i]].k \in ExprKind \cup StmtKind
  BY FrameNode
<1>2. DoesGen(f, s)
  BY <1>1 DEF DoesGen, Awaits
<1> QED BY <1>2 DEF Does

LEMMA ValueDoes ==
  ASSUME Vetted, NEW f, Good(f), Live(f), NEW i \in 1 .. Len(Kids(f)), Nodes[Kids(f)[i]].k \in ExprKind, NEW s,
         s.do \in {"gen", "value"}, s.n = Kids(f)[i],
         \A g : Moves(f, g, 1, 0) => Good(g) /\ Pending(g) = Pending(f) /\ Live(g)
  PROVE  Does(f, s)
<1>1. ~MustReturn(Kids(f)[i])
  BY FrameNode, NoReturn DEF ExprKind
<1> QED BY <1>1, GenDoes

LEMMA GotoDoes ==
  ASSUME Vetted, NEW f, Good(f), Live(f), NEW op, op \in Terminator, NEW as, NEW to,
         \A g : Moves(f, g, 0, 0) => Good(g) /\ Pending(g) = Pending(f) /\ ~Live(g)
  PROVE  Does(f, Codegen!Goto(op, as, to))
<1>1. DoesEmit(f, Codegen!Goto(op, as, to))
  BY DEF DoesEmit, Codegen!Goto
<1> QED BY <1>1 DEF Does

LEMMA PhiDoes ==
  ASSUME Vetted, NEW f, Good(f), Live(f), NEW t, NEW as, NEW to,
         \A g, m : m \in {0, 1} /\ Moves(f, g, m, 0) => Good(g) /\ Pending(g) = Pending(f) /\ Live(g)
  PROVE  Does(f, Codegen!Phi(t, as, to))
<1>1. DoesEmit(f, Codegen!Phi(t, as, to))
  BY DEF DoesEmit, Codegen!Phi, Terminator, Codegen!Terminator
<1> QED BY <1>1 DEF Does

LEMMA PositionDoes ==
  ASSUME Vetted, NEW f, Good(f), ~Live(f), NEW j, j \in Pending(f), j \in 1 .. Len(f.bbs),
         \A g : Moves(f, g, 0, 0) => Good(g) /\ Pending(g) = Pending(f) \ {j} /\ Live(g)
  PROVE  Does(f, Codegen!Position(Codegen!B(f, j)))
<1>1. Codegen!B(f, j) = f.bbs[j]
  <2>1. DOMAIN f.bbs = 1 .. Len(f.bbs)
    BY SeqFacts DEF Good
  <2> QED BY <2>1 DEF Codegen!B
<1>2. DoesPosition(f, Codegen!Position(Codegen!B(f, j)))
  BY <1>1 DEF DoesPosition, Codegen!Position
<1> QED BY <1>2 DEF Does

LEMMA BlocksDoes ==
  ASSUME Vetted, NEW f, Good(f), NEW m \in {2, 3}, f.bbs = <<>>, Pending(f) = {},
         \A g : Moves(f, g, 0, m) => Good(g) /\ Pending(g) = 1 .. m /\ (Live(g) <=> Live(f))
  PROVE  Does(f, Codegen!Blocks(m))
<1>1. DoesBlocks(f, Codegen!Blocks(m))
  BY DEF DoesBlocks, Codegen!Blocks
<1> QED BY <1>1 DEF Does

LEMMA MarkDoes ==
  ASSUME NEW f, Same(f, 0, 1)
  PROVE  Does(f, Codegen!InsertBlock)
  BY DEF Does, DoesMark, Codegen!InsertBlock

LEMMA FlowDoes ==
  ASSUME Vetted, NEW f, Good(f), Kind(f) \notin ExprKind, Pending(f) = {}, NEW on \in BOOLEAN, MustReturn(f.n) <=> on,
         Live(f) <=> ~on
  PROVE  Does(f, Codegen!Flow(on))
<1>1. Codegen!Flow(on).do = "give" /\ (Ended(Codegen!Flow(on).x) <=> on)
  BY Flows
<1>2. DoesGive(f, Codegen!Flow(on))
  BY <1>1 DEF DoesGive, Gives
<1> QED BY <1>2 DEF Does

LEMMA GiveDoes ==
  ASSUME Vetted, NEW f, Good(f), Kind(f) \in ExprKind, Pending(f) = {}, Live(f), NEW x
  PROVE  Does(f, Codegen!Give(x))
<1>1. ~MustReturn(f.n)
  BY FrameNode, NoReturn DEF ExprKind
<1>2. DoesGive(f, Codegen!Give(x))
  BY <1>1 DEF DoesGive, Gives, Kind, Codegen!Give
<1> QED BY <1>2 DEF Does

LEMMA Tuple11 ==
  ASSUME NEW a, NEW b, NEW c, NEW d, NEW e, NEW f, NEW g, NEW h, NEW i, NEW j, NEW k, NEW p,
         p = <<a, b, c, d, e, f, g, h, i, j, k>>
  PROVE  /\ Taken(p, 1) = a /\ Taken(p, 2) = b /\ Taken(p, 3) = c /\ Taken(p, 4) = d /\ Taken(p, 5) = e
         /\ Taken(p, 6) = f /\ Taken(p, 7) = g /\ Taken(p, 8) = h /\ Taken(p, 9) = i /\ Taken(p, 10) = j
         /\ Taken(p, 11) = k
<1>1. /\ DOMAIN p = 1 .. 11 /\ p[1] = a /\ p[2] = b /\ p[3] = c /\ p[4] = d /\ p[5] = e /\ p[6] = f /\ p[7] = g
      /\ p[8] = h /\ p[9] = i /\ p[10] = j /\ p[11] = k
  OBVIOUS
<1> QED BY <1>1 DEF Taken, Codegen!Taken

LEMMA LazyIs ==
  ASSUME NEW f, IsLazy(f)
  PROVE  /\ Live(f) <=> f.pc \notin {5, 9}
         /\ Pending(f) = IF f.pc \in 2 .. 5 THEN {1, 2} ELSE IF f.pc \in 6 .. 9 THEN {2} ELSE {}
         /\ Placed(f) <=> f.pc \in 1 .. 11 /\ (IF f.pc = 1 THEN f.bbs = <<>> ELSE Len(f.bbs) >= 2)
<1>1. Kind(f) \notin {"Ternary", "Return", "If"} /\ ~IsLoop(f) /\ ~IsBlock(f)
  BY DEF IsLazy, IsLoop, IsBlock
<1> QED BY <1>1 DEF Live, Pending, Placed

LEMMA LazyNext ==
  ASSUME NEW f, Good(f), IsLazy(f), f.pc < 11, NEW g, NEW m \in Nat, NEW k \in Nat, Moves(f, g, m, k),
         f.pc = 1 => k = 2
  PROVE  Good(g) /\ IsLazy(g) /\ g.pc = f.pc + 1
<1>1. /\ IsLazy(g) /\ g.pc = f.pc + 1 /\ f.pc \in Nat \ {0} /\ Len(f.bbs) \in Nat /\ Len(g.bbs) = Len(f.bbs) + k
      /\ Placed(g) => Good(g)
  BY MovesKeeps
<1>2. f.pc \in 1 .. 11 /\ (IF f.pc = 1 THEN f.bbs = <<>> ELSE Len(f.bbs) >= 2)
  BY LazyIs DEF Good
<1>3. g.pc \in 1 .. 11 /\ g.pc # 1
  BY <1>1, <1>2
<1>4. Len(g.bbs) >= 2
  <2>1. PICK x, y : x = Len(f.bbs) /\ y = Len(g.bbs)
    OBVIOUS
  <2>2. CASE f.pc = 1
    BY <1>1, <2>1, <2>2
  <2>3. CASE f.pc # 1
    BY <1>1, <1>2, <2>1, <2>3
  <2> QED BY <2>2, <2>3
<1> QED BY <1>1, <1>3, <1>4, LazyIs

LEMMA LazySteps ==
  ASSUME Vetted, NEW f, Good(f), IsLazy(f)
  PROVE  Does(f, Codegen!StepOf(f))
<1>n. PICK n : n = f.n
  OBVIOUS
<1>p. PICK p : p = Codegen!ExprPlan(f, Nodes[n])
  OBVIOUS
<1>1. /\ f.pc \in 1 .. 11 /\ (IF f.pc = 1 THEN f.bbs = <<>> ELSE Len(f.bbs) >= 2)
      /\ Live(f) <=> f.pc \notin {5, 9}
      /\ Pending(f) = IF f.pc \in 2 .. 5 THEN {1, 2} ELSE IF f.pc \in 6 .. 9 THEN {2} ELSE {}
  BY LazyIs DEF Good
<1>2. Codegen!StepOf(f) = Taken(p, f.pc)
  BY <1>n, <1>p, PlanOf DEF IsLazy, IsBlock, ExprKind, Kind
<1>3. p = <<Codegen!Blocks(2), Codegen!Value(Nodes[n].kids[1]), Codegen!InsertBlock,
    Codegen!Goto("condbr", <<Codegen!V(f, 1)>>,
      IF Nodes[n].op = "And" THEN <<Codegen!B(f, 1), Codegen!B(f, 2)>> ELSE <<Codegen!B(f, 2), Codegen!B(f, 1)>>),
    Codegen!Position(Codegen!B(f, 1)), Codegen!Value(Nodes[n].kids[2]), Codegen!InsertBlock,
    Codegen!Goto("br", <<>>, <<Codegen!B(f, 2)>>),
    Codegen!Position(Codegen!B(f, 2)),
    Codegen!Phi("i1", <<Codegen!V(f, 1), Codegen!V(f, 2)>>, <<Codegen!B(f, 3), Codegen!RhsEnd(f)>>),
    Codegen!Give(Codegen!Last(f))>>
  BY <1>n, <1>p, SameKinds DEF Codegen!ExprPlan, Codegen!ShortCircuit, IsLazy, Kind
<1>4. \A i \in {1, 2} : i \in 1 .. Len(Kids(f)) /\ Nodes[Kids(f)[i]].k \in ExprKind
  <2>1. Len(Kids(f)) = 2
    BY FrameNode, KidCounts DEF IsLazy, Kind, Kids
  <2>2. \A i \in 1 .. Len(Kids(f)) : Nodes[Kids(f)[i]].k \in ExprKind
    BY FrameNode, KidsOf DEF IsLazy, Kind, Kids, ExprKind
  <2> QED BY <2>1, <2>2
<1>5. ASSUME NEW g, NEW m, NEW k, m \in Nat, k \in Nat, Moves(f, g, m, k), f.pc < 11, f.pc = 1 => k = 2
      PROVE  /\ Good(g) /\ (Live(g) <=> f.pc \notin {4, 8})
             /\ Pending(g) = IF f.pc \in 1 .. 4 THEN {1, 2} ELSE IF f.pc \in 5 .. 8 THEN {2} ELSE {}
  <2>1. Good(g) /\ IsLazy(g) /\ g.pc = f.pc + 1
    BY <1>5, LazyNext
  <2>2. /\ Live(g) <=> g.pc \notin {5, 9}
        /\ Pending(g) = IF g.pc \in 2 .. 5 THEN {1, 2} ELSE IF g.pc \in 6 .. 9 THEN {2} ELSE {}
    BY <2>1, LazyIs
  <2> QED BY <1>1, <2>1, <2>2
<1>6. "br" \in Terminator /\ "condbr" \in Terminator
  BY DEF Terminator, Codegen!Terminator
<1>a. Len(f.bbs) \in Nat
  BY SeqFacts DEF Good
<1>7. CASE f.pc = 1
  <2>1. Codegen!StepOf(f) = Codegen!Blocks(2)
    BY <1>2, <1>3, <1>7, Tuple11
  <2>2. \A g : Moves(f, g, 0, 2) => Good(g) /\ Pending(g) = 1 .. 2 /\ (Live(g) <=> Live(f))
    BY <1>1, <1>5, <1>7
  <2> QED BY <1>1, <1>7, <2>1, <2>2, BlocksDoes
<1>8. CASE f.pc \in {2, 6}
  <2>1. PICK i \in {1, 2} : Codegen!StepOf(f) = Codegen!Value(Kids(f)[i])
    BY <1>2, <1>3, <1>8, <1>n, Tuple11 DEF Kids
  <2>2. \A g : Moves(f, g, 1, 0) => Good(g) /\ Pending(g) = Pending(f) /\ Live(g)
    BY <1>1, <1>5, <1>8
  <2>3. Codegen!StepOf(f).do = "value" /\ Codegen!StepOf(f).n = Kids(f)[i]
    BY <2>1 DEF Codegen!Value
  <2>4. Live(f) /\ i \in 1 .. Len(Kids(f)) /\ Nodes[Kids(f)[i]].k \in ExprKind
    BY <1>1, <1>4, <1>8
  <2>5. PICK s : s = Codegen!StepOf(f)
    OBVIOUS
  <2>6. Does(f, s)
    BY <2>2, <2>3, <2>4, <2>5, ValueDoes
  <2> QED BY <2>5, <2>6
<1>9. CASE f.pc \in {3, 7}
  <2>1. Codegen!StepOf(f) = Codegen!InsertBlock
    BY <1>2, <1>3, <1>9, Tuple11
  <2>2. Same(f, 0, 1)
    BY <1>1, <1>5, <1>9 DEF Same
  <2> QED BY <2>1, <2>2, MarkDoes
<1>10. CASE f.pc \in {4, 8}
  <2>1. PICK op, as, to : Codegen!StepOf(f) = Codegen!Goto(op, as, to) /\ op \in Terminator
    <3>1. CASE f.pc = 4
      BY <1>2, <1>3, <1>6, <3>1, Tuple11
    <3>2. CASE f.pc = 8
      BY <1>2, <1>3, <1>6, <3>2, Tuple11
    <3> QED BY <1>10, <3>1, <3>2
  <2>2. \A g : Moves(f, g, 0, 0) => Good(g) /\ Pending(g) = Pending(f) /\ ~Live(g)
    BY <1>1, <1>5, <1>10
  <2>3. Live(f)
    BY <1>1, <1>10
  <2> QED BY <2>1, <2>2, <2>3, GotoDoes
<1>11. CASE f.pc \in {5, 9}
  <2>1. PICK j \in {1, 2} : Codegen!StepOf(f) = Codegen!Position(Codegen!B(f, j)) /\ j = IF f.pc = 5 THEN 1 ELSE 2
    BY <1>2, <1>3, <1>11, Tuple11
  <2>2. \A g : Moves(f, g, 0, 0) => Good(g) /\ Pending(g) = Pending(f) \ {j} /\ Live(g)
    BY <1>1, <1>5, <1>11, <2>1
  <2>3. j \in Pending(f) /\ j \in 1 .. Len(f.bbs)
    BY <1>1, <1>a, <1>11, <2>1
  <2> QED BY <1>1, <1>11, <2>1, <2>2, <2>3, PositionDoes
<1>12. CASE f.pc = 10
  <2>1. PICK t, as, to : Codegen!StepOf(f) = Codegen!Phi(t, as, to)
    BY <1>2, <1>3, <1>12, Tuple11
  <2>2. \A g, m : m \in {0, 1} /\ Moves(f, g, m, 0) => Good(g) /\ Pending(g) = Pending(f) /\ Live(g)
    BY <1>1, <1>5, <1>12
  <2>3. Live(f)
    BY <1>1, <1>12
  <2> QED BY <2>1, <2>2, <2>3, PhiDoes
<1>13. CASE f.pc = 11
  <2>1. Codegen!StepOf(f) = Codegen!Give(Codegen!Last(f))
    BY <1>2, <1>3, <1>13, Tuple11
  <2> QED BY <1>1, <1>13, <2>1, GiveDoes DEF IsLazy, ExprKind
<1> QED BY <1>1, <1>7, <1>8, <1>9, <1>10, <1>11, <1>12, <1>13

LEMMA Tuple14 ==
  ASSUME NEW a, NEW b, NEW c, NEW d, NEW e, NEW f, NEW g, NEW h, NEW i, NEW j, NEW k, NEW l, NEW m, NEW n, NEW p,
         p = <<a, b, c, d, e, f, g, h, i, j, k, l, m, n>>
  PROVE  /\ Taken(p, 1) = a /\ Taken(p, 2) = b /\ Taken(p, 3) = c /\ Taken(p, 4) = d /\ Taken(p, 5) = e
         /\ Taken(p, 6) = f /\ Taken(p, 7) = g /\ Taken(p, 8) = h /\ Taken(p, 9) = i /\ Taken(p, 10) = j
         /\ Taken(p, 11) = k /\ Taken(p, 12) = l /\ Taken(p, 13) = m /\ Taken(p, 14) = n
<1>1. /\ DOMAIN p = 1 .. 14 /\ p[1] = a /\ p[2] = b /\ p[3] = c /\ p[4] = d /\ p[5] = e /\ p[6] = f /\ p[7] = g
      /\ p[8] = h /\ p[9] = i /\ p[10] = j /\ p[11] = k /\ p[12] = l /\ p[13] = m /\ p[14] = n
  OBVIOUS
<1> QED BY <1>1 DEF Taken, Codegen!Taken

LEMMA TernaryIs ==
  ASSUME NEW f, Kind(f) = "Ternary"
  PROVE  /\ Live(f) <=> f.pc \notin {4, 8, 12}
         /\ Pending(f) = Among(f.pc, 2 .. 4, 5 .. 8, 9 .. 12)
         /\ Placed(f) <=> f.pc \in 1 .. 14 /\ (IF f.pc = 1 THEN f.bbs = <<>> ELSE Len(f.bbs) >= 3)
<1>1. ~IsLazy(f) /\ ~IsLoop(f) /\ ~IsBlock(f)
  BY DEF IsLazy, IsLoop, IsBlock
<1> QED BY <1>1 DEF Live, Pending, Placed

LEMMA TernaryNext ==
  ASSUME NEW f, Good(f), Kind(f) = "Ternary", f.pc < 14, NEW g, NEW m \in Nat, NEW k \in Nat, Moves(f, g, m, k),
         f.pc = 1 => k = 3
  PROVE  Good(g) /\ Kind(g) = "Ternary" /\ g.pc = f.pc + 1
<1>1. /\ Kind(g) = "Ternary" /\ g.pc = f.pc + 1 /\ f.pc \in Nat \ {0} /\ Len(f.bbs) \in Nat
      /\ Len(g.bbs) = Len(f.bbs) + k /\ (Placed(g) => Good(g))
  BY MovesKeeps
<1>2. f.pc \in 1 .. 14 /\ (IF f.pc = 1 THEN f.bbs = <<>> ELSE Len(f.bbs) >= 3)
  BY TernaryIs DEF Good
<1>3. g.pc \in 1 .. 14 /\ g.pc # 1
  <2>1. PICK x : x = f.pc
    OBVIOUS
  <2>2. x \in 1 .. 13
    BY <1>2, <2>1
  <2> QED BY <1>1, <2>1, <2>2
<1>4. Len(g.bbs) >= 3
  <2>1. PICK x, y : x = Len(f.bbs) /\ y = Len(g.bbs)
    OBVIOUS
  <2>2. CASE f.pc = 1
    BY <1>1, <2>1, <2>2
  <2>3. CASE f.pc # 1
    BY <1>1, <1>2, <2>1, <2>3
  <2> QED BY <2>2, <2>3
<1> QED BY <1>1, <1>3, <1>4, TernaryIs

LEMMA TernarySteps ==
  ASSUME Vetted, NEW f, Good(f), Kind(f) = "Ternary"
  PROVE  Does(f, Codegen!StepOf(f))
<1>n. PICK n : n = f.n
  OBVIOUS
<1>p. PICK p : p = Codegen!ExprPlan(f, Nodes[n])
  OBVIOUS
<1>1. /\ f.pc \in 1 .. 14 /\ (IF f.pc = 1 THEN f.bbs = <<>> ELSE Len(f.bbs) >= 3)
      /\ Live(f) <=> f.pc \notin {4, 8, 12}
      /\ Pending(f) = Among(f.pc, 2 .. 4, 5 .. 8, 9 .. 12)
  BY TernaryIs DEF Good
<1>2. Codegen!StepOf(f) = Taken(p, f.pc)
  BY <1>n, <1>p, PlanOf DEF IsBlock, ExprKind, Kind
<1>3. p = <<Codegen!Blocks(3), Codegen!Value(Nodes[n].kids[1]),
    Codegen!Goto("condbr", <<Codegen!V(f, 1)>>, <<Codegen!B(f, 1), Codegen!B(f, 2)>>),
    Codegen!Position(Codegen!B(f, 1)), Codegen!Value(Nodes[n].kids[2]), Codegen!InsertBlock,
    Codegen!Goto("br", <<>>, <<Codegen!B(f, 3)>>),
    Codegen!Position(Codegen!B(f, 2)), Codegen!Value(Nodes[n].kids[3]), Codegen!InsertBlock,
    Codegen!Goto("br", <<>>, <<Codegen!B(f, 3)>>),
    Codegen!Position(Codegen!B(f, 3)),
    Codegen!Phi(Codegen!LType(Codegen!TypeAt(f.n)), <<Codegen!V(f, 2), Codegen!V(f, 3)>>,
                <<Codegen!B(f, 4), Codegen!B(f, 5)>>), Codegen!Give(Codegen!Last(f))>>
  BY <1>n, <1>p, SameKinds DEF Codegen!ExprPlan, Codegen!Ternary, Kind
<1>4. \A i \in {1, 2, 3} : i \in 1 .. Len(Kids(f)) /\ Nodes[Kids(f)[i]].k \in ExprKind
  <2>1. Len(Kids(f)) = 3
    BY FrameNode, KidCounts DEF Kind, Kids
  <2>2. \A i \in 1 .. Len(Kids(f)) : Nodes[Kids(f)[i]].k \in ExprKind
    BY FrameNode, KidsOf DEF Kind, Kids, ExprKind
  <2> QED BY <2>1, <2>2
<1>5. ASSUME NEW g, NEW m, NEW k, m \in Nat, k \in Nat, Moves(f, g, m, k), f.pc < 14, f.pc = 1 => k = 3
      PROVE  /\ Good(g) /\ (Live(g) <=> f.pc \notin {3, 7, 11})
             /\ Pending(g) = Among(f.pc, 1 .. 3, 4 .. 7, 8 .. 11)
  <2>1. Good(g) /\ Kind(g) = "Ternary" /\ g.pc = f.pc + 1
    BY <1>5, TernaryNext
  <2>2. /\ Live(g) <=> g.pc \notin {4, 8, 12}
        /\ Pending(g) = Among(g.pc, 2 .. 4, 5 .. 8, 9 .. 12)
    BY <2>1, TernaryIs
  <2> QED BY <1>1, <2>1, <2>2 DEF Among
<1>6. "br" \in Terminator /\ "condbr" \in Terminator
  BY DEF Terminator, Codegen!Terminator
<1>a. Len(f.bbs) \in Nat
  BY SeqFacts DEF Good
<1>7. CASE f.pc = 1
  <2>1. Codegen!StepOf(f) = Codegen!Blocks(3)
    BY <1>2, <1>3, <1>7, Tuple14
  <2>2. \A g : Moves(f, g, 0, 3) => Good(g) /\ Pending(g) = 1 .. 3 /\ (Live(g) <=> Live(f))
    BY <1>1, <1>5, <1>7 DEF Among
  <2> QED BY <1>1, <1>7, <2>1, <2>2, BlocksDoes DEF Among
<1>8. CASE f.pc \in {2, 5, 9}
  <2>1. PICK i \in {1, 2, 3} : Codegen!StepOf(f) = Codegen!Value(Kids(f)[i])
    BY <1>2, <1>3, <1>8, <1>n, Tuple14 DEF Kids
  <2>2. \A g : Moves(f, g, 1, 0) => Good(g) /\ Pending(g) = Pending(f) /\ Live(g)
    BY <1>1, <1>5, <1>8 DEF Among
  <2>3. Codegen!StepOf(f).do = "value" /\ Codegen!StepOf(f).n = Kids(f)[i]
    BY <2>1 DEF Codegen!Value
  <2>4. Live(f) /\ i \in 1 .. Len(Kids(f)) /\ Nodes[Kids(f)[i]].k \in ExprKind
    BY <1>1, <1>4, <1>8
  <2>5. PICK s : s = Codegen!StepOf(f)
    OBVIOUS
  <2>6. Does(f, s)
    BY <2>2, <2>3, <2>4, <2>5, ValueDoes
  <2> QED BY <2>5, <2>6
<1>9. CASE f.pc \in {6, 10}
  <2>1. Codegen!StepOf(f) = Codegen!InsertBlock
    BY <1>2, <1>3, <1>9, Tuple14
  <2>2. Same(f, 0, 1)
    BY <1>1, <1>5, <1>9 DEF Same, Among
  <2> QED BY <2>1, <2>2, MarkDoes
<1>10. CASE f.pc \in {3, 7, 11}
  <2>1. PICK op, as, to : Codegen!StepOf(f) = Codegen!Goto(op, as, to) /\ op \in Terminator
    <3>1. CASE f.pc = 3
      BY <1>2, <1>3, <1>6, <3>1, Tuple14
    <3>2. CASE f.pc \in {7, 11}
      BY <1>2, <1>3, <1>6, <3>2, Tuple14
    <3> QED BY <1>10, <3>1, <3>2
  <2>2. \A g : Moves(f, g, 0, 0) => Good(g) /\ Pending(g) = Pending(f) /\ ~Live(g)
    BY <1>1, <1>5, <1>10 DEF Among
  <2>3. Live(f)
    BY <1>1, <1>10
  <2> QED BY <2>1, <2>2, <2>3, GotoDoes
<1>11. CASE f.pc \in {4, 8, 12}
  <2>1. PICK j \in {1, 2, 3} : /\ Codegen!StepOf(f) = Codegen!Position(Codegen!B(f, j))
                               /\ j = IF f.pc = 4 THEN 1 ELSE IF f.pc = 8 THEN 2 ELSE 3
    BY <1>2, <1>3, <1>11, Tuple14
  <2>2. \A g : Moves(f, g, 0, 0) => Good(g) /\ Pending(g) = Pending(f) \ {j} /\ Live(g)
    BY <1>1, <1>5, <1>11, <2>1 DEF Among
  <2>3. j \in Pending(f) /\ j \in 1 .. Len(f.bbs)
    BY <1>1, <1>a, <1>11, <2>1 DEF Among
  <2> QED BY <1>1, <1>11, <2>1, <2>2, <2>3, PositionDoes
<1>12. CASE f.pc = 13
  <2>1. PICK t, as, to : Codegen!StepOf(f) = Codegen!Phi(t, as, to)
    BY <1>2, <1>3, <1>12, Tuple14
  <2>2. \A g, m : m \in {0, 1} /\ Moves(f, g, m, 0) => Good(g) /\ Pending(g) = Pending(f) /\ Live(g)
    BY <1>1, <1>5, <1>12 DEF Among
  <2>3. Live(f)
    BY <1>1, <1>12
  <2> QED BY <2>1, <2>2, <2>3, PhiDoes
<1>13. CASE f.pc = 14
  <2>1. Codegen!StepOf(f) = Codegen!Give(Codegen!Last(f))
    BY <1>2, <1>3, <1>13, Tuple14
  <2>2. Pending(f) = {} /\ Live(f)
    BY <1>1, <1>13 DEF Among
  <2> QED BY <2>1, <2>2, GiveDoes DEF ExprKind
<1> QED BY <1>1, <1>7, <1>8, <1>9, <1>10, <1>11, <1>12, <1>13
-----------------------------------------------------------------------------
(***************************************************************************)
(* Returns and blocks.                                                     *)
(***************************************************************************)
LEMMA ReturnIs ==
  ASSUME NEW f, Kind(f) = "Return"
  PROVE  /\ Live(f) <=> f.pc <= Len(Kids(f)) + 1
         /\ Pending(f) = {}
         /\ Placed(f) <=> f.pc \in 1 .. Len(Kids(f)) + 2
<1>1. ~IsLazy(f) /\ ~IsLoop(f) /\ ~IsBlock(f)
  BY DEF IsLazy, IsLoop, IsBlock
<1> QED BY <1>1 DEF Live, Pending, Placed

LEMMA ReturnSteps ==
  ASSUME Vetted, NEW f, Good(f), Kind(f) = "Return"
  PROVE  Does(f, Codegen!StepOf(f))
<1>n. PICK n : n = f.n
  OBVIOUS
<1>p. PICK p : p = Codegen!StmtPlan(f, Nodes[n])
  OBVIOUS
<1>l. PICK l : l = Len(Kids(f))
  OBVIOUS
<1>1. /\ f.pc \in 1 .. l + 2 /\ (Live(f) <=> f.pc <= l + 1) /\ Pending(f) = {}
  BY <1>l, ReturnIs DEF Good
<1>2. Codegen!StepOf(f) = Taken(p, f.pc)
  BY <1>n, <1>p, PlanOf DEF IsBlock, ExprKind, Kind
<1>3. l \in {0, 1} /\ (l = 0 <=> Kids(f) = <<>>) /\ (l = 1 => 1 \in 1 .. Len(Kids(f)) /\ Nodes[Kids(f)[1]].k \in ExprKind)
  <2>1. l \in {0, 1}
    BY <1>l, FrameNode, KidsOf DEF Shape, Kind, Kids
  <2>2. l = 0 <=> Kids(f) = <<>>
    BY <1>l, FrameNode DEF IsSeq
  <2>3. \A i \in 1 .. Len(Kids(f)) : Nodes[Kids(f)[i]].k \in ExprKind
    BY FrameNode, KidsOf DEF Kind, Kids, ExprKind
  <2> QED BY <1>l, <2>1, <2>2, <2>3
<1>4. MustReturn(f.n)
  BY FrameNode, MustReturnStep DEF Kind
<1>5. ASSUME NEW g, NEW m, m \in Nat, Moves(f, g, m, 0), f.pc < l + 2
      PROVE  Good(g) /\ (Live(g) <=> f.pc < l + 1) /\ Pending(g) = {}
  <2>1. Kind(g) = "Return" /\ Kids(g) = Kids(f) /\ g.pc = f.pc + 1 /\ (Placed(g) => Good(g))
    BY <1>5, MovesKeeps
  <2>2. (Live(g) <=> g.pc <= l + 1) /\ Pending(g) = {} /\ (Placed(g) <=> g.pc \in 1 .. l + 2)
    BY <1>l, <2>1, ReturnIs
  <2> QED BY <1>1, <1>3, <1>5, <2>1, <2>2
<1>6. "ret" \in Terminator
  BY DEF Terminator, Codegen!Terminator
<1>b. /\ Nodes[n].k = "Return" /\ (Nodes[n].kids = <<>> <=> l = 0) /\ Nodes[n].kids[1] = Kids(f)[1]
  BY <1>n, <1>3 DEF Kind, Kids
<1>c. PICK on \in BOOLEAN : on
  OBVIOUS
<1>d. PICK v, r0, r1, e : /\ v = Codegen!Value(Kids(f)[1]) /\ r0 = Codegen!Goto("ret", <<>>, <<>>)
                          /\ r1 = Codegen!Goto("ret", <<Codegen!V(f, 1)>>, <<>>) /\ e = Codegen!Flow(on)
  OBVIOUS
<1>e. p = IF l = 0 THEN <<r0, e>> ELSE <<v, r1, e>>
  <2>1. Codegen!StmtPlan(f, Nodes[n]) =
          IF Nodes[n].kids = <<>> THEN <<Codegen!Goto("ret", <<>>, <<>>), Codegen!Flow(TRUE)>>
          ELSE <<Codegen!Value(Nodes[n].kids[1]), Codegen!Goto("ret", <<Codegen!V(f, 1)>>, <<>>), Codegen!Flow(TRUE)>>
    BY <1>b DEF Codegen!StmtPlan
  <2>2. Codegen!Flow(TRUE) = e
    BY <1>c, <1>d DEF Codegen!Flow
  <2> QED BY <1>p, <1>b, <1>d, <2>1, <2>2
<1>g. /\ l = 0 => Taken(p, 1) = r0 /\ Taken(p, 2) = e
      /\ l = 1 => Taken(p, 1) = v /\ Taken(p, 2) = r1 /\ Taken(p, 3) = e
  BY <1>e DEF Taken, Codegen!Taken
<1>7. CASE f.pc = 1 /\ l = 1
  <2>1. Codegen!StepOf(f) = Codegen!Value(Kids(f)[1])
    BY <1>d, <1>g, <1>2, <1>7
  <2>2. \A g : Moves(f, g, 1, 0) => Good(g) /\ Pending(g) = Pending(f) /\ Live(g)
    BY <1>1, <1>5, <1>7
  <2>3. Codegen!StepOf(f).do = "value" /\ Codegen!StepOf(f).n = Kids(f)[1]
    BY <2>1 DEF Codegen!Value
  <2>4. PICK s, i : s = Codegen!StepOf(f) /\ i = 1
    OBVIOUS
  <2>5. Live(f) /\ i \in 1 .. Len(Kids(f)) /\ Nodes[Kids(f)[i]].k \in ExprKind
    BY <1>1, <1>3, <1>7, <2>4
  <2>6. Does(f, s)
    BY <2>2, <2>3, <2>4, <2>5, ValueDoes
  <2> QED BY <2>4, <2>6
<1>8. CASE f.pc = l + 1
  <2>1. PICK as : Codegen!StepOf(f) = Codegen!Goto("ret", as, <<>>)
    <3>1. CASE l = 0
      BY <1>d, <1>g, <1>2, <1>8, <3>1
    <3>2. CASE l = 1
      BY <1>d, <1>g, <1>2, <1>8, <3>2
    <3> QED BY <1>3, <3>1, <3>2
  <2>2. \A g : Moves(f, g, 0, 0) => Good(g) /\ Pending(g) = Pending(f) /\ ~Live(g)
    BY <1>1, <1>3, <1>5, <1>8
  <2>3. Live(f)
    BY <1>1, <1>3, <1>8
  <2> QED BY <1>6, <2>1, <2>2, <2>3, GotoDoes
<1>9. CASE f.pc = l + 2
  <2>2. Codegen!StepOf(f) = Codegen!Flow(on)
    BY <1>d, <1>g, <1>2, <1>3, <1>9
  <2>3. Kind(f) \notin ExprKind /\ ~Live(f)
    BY <1>1, <1>3, <1>9 DEF ExprKind
  <2> QED BY <1>1, <1>4, <1>c, <2>2, <2>3, FlowDoes
<1> QED BY <1>1, <1>3, <1>7, <1>8, <1>9

\* A sequence of statements: every one but the last so far goes on.
LEMMA BlockIs ==
  ASSUME NEW f, IsBlock(f)
  PROVE  (Live(f) <=> ~Ended(Codegen!Last(f))) /\ Pending(f) = {} /\ (Placed(f) <=> PlacedBlock(f))
<1>1. ~IsLazy(f) /\ ~IsLoop(f) /\ Kind(f) \notin {"Ternary", "If", "Return"}
  BY DEF IsLazy, IsLoop, IsBlock
<1> QED BY <1>1 DEF Live, Pending, Placed

LEMMA LastIs ==
  ASSUME NEW f, IsSeq(f.vs)
  PROVE  /\ Len(f.vs) \in Nat
         /\ Len(f.vs) = 0 => ~Ended(Codegen!Last(f))
         /\ Len(f.vs) > 0 => Len(f.vs) \in 1 .. Len(f.vs) /\ Codegen!Last(f) = f.vs[Len(f.vs)]
<1>1. Len(f.vs) \in Nat /\ DOMAIN f.vs = 1 .. Len(f.vs)
  BY SeqFacts
<1>2. PICK m : m = Len(f.vs)
  OBVIOUS
<1> QED BY <1>1, <1>2, NotFlow DEF Codegen!Last, Codegen!V

LEMMA BlockSteps ==
  ASSUME Vetted, NEW f, Good(f), IsBlock(f)
  PROVE  Does(f, Codegen!StepOf(f))
<1>l. PICK l : l = Len(f.vs)
  OBVIOUS
<1>n. PICK n : n = Len(Kids(f))
  OBVIOUS
<1>1. /\ Live(f) <=> ~Ended(Codegen!Last(f))
      /\ Pending(f) = {}
      /\ l <= n /\ \A i \in 1 .. l : (Ended(f.vs[i]) <=> MustReturn(Kids(f)[i])) /\ (i < l => ~MustReturn(Kids(f)[i]))
  <2>1. PlacedBlock(f)
    BY BlockIs DEF Good
  <2> QED BY <1>l, <1>n, <2>1, BlockIs DEF PlacedBlock, Answer
<1>2. /\ l \in Nat /\ n \in Nat
      /\ l = 0 => ~Ended(Codegen!Last(f))
      /\ l > 0 => l \in 1 .. l /\ Codegen!Last(f) = f.vs[l]
  BY <1>l, <1>n, LastIs, FrameNode DEF Good
<1>3. MustReturn(f.n) <=> \E i \in 1 .. n : MustReturn(Kids(f)[i])
  BY <1>n, FrameNode, MustReturnStep DEF IsBlock
<1>k. Kind(f) \notin ExprKind
  BY DEF IsBlock, ExprKind
<1>4. Codegen!StepOf(f) = IF Ended(Codegen!Last(f)) THEN Codegen!Flow(TRUE)
                          ELSE IF l = n THEN Codegen!Flow(FALSE) ELSE Codegen!Gen(Kids(f)[l + 1])
  <2>1. Codegen!StepOf(f) = Codegen!BlockStep(f, Nodes[f.n])
    BY <1>k, SameKinds DEF Codegen!StepOf, IsBlock, Kind
  <2>2. Codegen!BlockStep(f, Nodes[f.n]) =
          IF Codegen!Ended(Codegen!Last(f)) THEN Codegen!Flow(TRUE)
          ELSE IF Len(f.vs) = Len(Nodes[f.n].kids) THEN Codegen!Flow(FALSE)
          ELSE Codegen!Gen(Nodes[f.n].kids[Len(f.vs) + 1])
    BY DEF Codegen!BlockStep, Codegen!BlockEnded
  <2> QED BY <1>l, <1>n, <2>1, <2>2 DEF Ended, Kids
<1>5. CASE Ended(Codegen!Last(f))
  <2>1. PICK on \in BOOLEAN : on
    OBVIOUS
  <2>2. Codegen!StepOf(f) = Codegen!Flow(on)
    BY <1>4, <1>5, <2>1 DEF Codegen!Flow
  <2>3. MustReturn(Kids(f)[l]) /\ l \in 1 .. n
    BY <1>1, <1>2, <1>5
  <2>4. MustReturn(f.n)
    BY <1>3, <2>3
  <2> QED BY <1>1, <1>5, <1>k, <2>1, <2>2, <2>4, FlowDoes
<1>6. CASE ~Ended(Codegen!Last(f)) /\ l = n
  <2>1. PICK on \in BOOLEAN : ~on
    OBVIOUS
  <2>2. Codegen!StepOf(f) = Codegen!Flow(on)
    BY <1>4, <1>6, <2>1 DEF Codegen!Flow
  <2>3. \A i \in 1 .. n : ~MustReturn(Kids(f)[i])
    BY <1>1, <1>2, <1>6
  <2>4. ~MustReturn(f.n)
    BY <1>3, <2>3
  <2> QED BY <1>1, <1>6, <1>k, <2>1, <2>2, <2>4, FlowDoes
<1>7. CASE ~Ended(Codegen!Last(f)) /\ l # n
  <2>1. PICK i : i = l + 1
    OBVIOUS
  <2>2. i \in 1 .. n
    BY <1>1, <1>2, <1>7, <2>1
  <2>3. PICK s : s = Codegen!StepOf(f)
    OBVIOUS
  <2>4. s.do = "gen" /\ s.n = Kids(f)[i]
    BY <1>4, <1>7, <2>1, <2>3 DEF Codegen!Gen
  <2>5. ASSUME NEW g, Moves(f, g, 1, 0), Gives(Kids(f)[i], g.vs[Len(f.vs) + 1])
        PROVE  Good(g) /\ Pending(g) = Pending(f) /\ (Live(g) <=> ~MustReturn(Kids(f)[i]))
    <3>1. IsBlock(g) /\ Kids(g) = Kids(f) /\ Len(g.vs) = i /\ (Placed(g) => Good(g))
      BY <1>l, <2>1, <2>5, MovesKeeps
    <3>2. Ended(g.vs[i]) <=> MustReturn(Kids(f)[i])
      <4>1. Nodes[Kids(f)[i]].k \notin ExprKind
        BY <1>n, <2>2, FrameNode, StmtKids, KindsApart DEF IsBlock
      <4> QED BY <1>l, <2>1, <2>5, <4>1 DEF Gives
    <3>3. \A j \in 1 .. l : g.vs[j] = f.vs[j]
      BY <1>l, <2>5 DEF Moves
    <3>4. \A j \in 1 .. l : ~MustReturn(Kids(f)[j])
      BY <1>1, <1>2, <1>7
    <3>5. PlacedBlock(g)
      <4>1. ASSUME NEW j \in 1 .. i
            PROVE  (Ended(g.vs[j]) <=> MustReturn(Kids(f)[j])) /\ (j < i => ~MustReturn(Kids(f)[j]))
        <5>1. CASE j = i
          BY <3>2, <5>1
        <5>2. CASE j # i
          <6>1. j \in 1 .. l
            BY <1>2, <2>1, <5>2
          <6> QED BY <1>1, <3>3, <3>4, <6>1
        <5> QED BY <5>1, <5>2
      <4> QED BY <1>n, <2>2, <3>1, <4>1 DEF PlacedBlock, Answer
    <3>6. Good(g) /\ Pending(g) = {} /\ (Live(g) <=> ~Ended(Codegen!Last(g)))
      BY <3>1, <3>5, BlockIs
    <3>7. Codegen!Last(g) = g.vs[i]
      <4>1. i > 0
        BY <2>2
      <4> QED BY <3>1, <3>6, <4>1, LastIs DEF Good
    <3> QED BY <1>1, <3>2, <3>6, <3>7
  <2>6. Live(f)
    BY <1>1, <1>7
  <2>7. Does(f, s)
    BY <1>n, <2>2, <2>4, <2>5, <2>6, GenDoes
  <2> QED BY <2>3, <2>7
<1> QED BY <1>5, <1>6, <1>7
-----------------------------------------------------------------------------
(***************************************************************************)
(* Loops.                                                                  *)
(***************************************************************************)
LEMMA Tuple7 ==
  ASSUME NEW a, NEW b, NEW c, NEW d, NEW e, NEW f, NEW g, NEW p, p = <<a, b, c, d, e, f, g>>
  PROVE  /\ IsSeq(p) /\ Len(p) = 7
         /\ Taken(p, 1) = a /\ Taken(p, 2) = b /\ Taken(p, 3) = c /\ Taken(p, 4) = d /\ Taken(p, 5) = e
         /\ Taken(p, 6) = f /\ Taken(p, 7) = g
<1>1. /\ DOMAIN p = 1 .. 7 /\ p[1] = a /\ p[2] = b /\ p[3] = c /\ p[4] = d /\ p[5] = e /\ p[6] = f /\ p[7] = g
      /\ IsSeq(p) /\ Len(p) = 7
  BY DEF IsSeq
<1> QED BY <1>1 DEF Taken, Codegen!Taken

LEMMA Tuple2 ==
  ASSUME NEW a, NEW b, NEW p, p = <<a, b>>
  PROVE  IsSeq(p) /\ Len(p) = 2 /\ Taken(p, 1) = a /\ Taken(p, 2) = b
  BY SeqSmall DEF Taken, Codegen!Taken

LEMMA Tuple1 == ASSUME NEW a, NEW p, p = <<a>> PROVE IsSeq(p) /\ Len(p) = 1 /\ Taken(p, 1) = a
  BY SeqSmall DEF Taken, Codegen!Taken

\* Seven steps, then those of c, then two.
LoopParts(a, c, d, p, k) ==
  /\ k <= 7 => Taken(p, k) = Taken(a, k)
  /\ k > 7 /\ k <= 7 + Len(c) => Taken(p, k) = Taken(c, k - 7)
  /\ k > 7 + Len(c) => Taken(p, k) = Taken(d, k - 7 - Len(c))

LEMMA LoopTaken ==
  ASSUME NEW a, IsSeq(a), Len(a) = 7, NEW c, IsSeq(c), NEW d, IsSeq(d), Len(d) = 2, NEW p, p = (a \o c) \o d,
         NEW k \in Nat \ {0}
  PROVE  LoopParts(a, c, d, p, k)
<1>1. PICK b : b = a \o c
  OBVIOUS
<1>2. PICK n, m : n = Len(c) /\ m = Len(b)
  OBVIOUS
<1>3. IsSeq(b) /\ m = 7 + n /\ n \in Nat
  <2>1. n \in Nat
    BY <1>2, SeqFacts
  <2>2. IsSeq(a \o c) /\ Len(a \o c) = Len(a) + Len(c)
    BY SeqConcat
  <2> QED BY <1>1, <1>2, <2>1, <2>2
<1>4. Taken(p, k) = IF k <= m THEN Taken(b, k) ELSE Taken(d, k - m)
  <2>1. p = b \o d
    BY <1>1
  <2> QED BY <1>2, <1>3, <2>1, TakenJoin
<1>5. Taken(b, k) = IF k <= 7 THEN Taken(a, k) ELSE Taken(c, k - 7)
  BY <1>1, TakenJoin
<1>6. k - 7 - n = k - m
  BY <1>3
<1> QED BY <1>2, <1>3, <1>4, <1>5, <1>6 DEF LoopParts

\* What the steps of a loop are, by the point that the loop is at.
LoopStep(f, s) ==
  LET q == LoopPoint(f)  ks == Kids(f)
  IN  /\ q = 0 => s = Codegen!Gen(ks[1])
      /\ q = 1 => s = Codegen!Blocks(3)
      /\ q \in {2, 9} => s = Codegen!Goto("br", <<>>, <<Codegen!B(f, 1)>>)
      /\ q = 3 => s = Codegen!Position(Codegen!B(f, 1))
      /\ q = 4 => s = Codegen!Value(ks[Before(f) + 1])
      /\ q = 5 => s = Codegen!Goto("condbr", <<Codegen!V(f, Before(f) + 1)>>, <<Codegen!B(f, 2), Codegen!B(f, 3)>>)
      /\ q = 6 => s = Codegen!Position(Codegen!B(f, 2))
      /\ q = 7 => s = Codegen!Scoped(Body(f))
      /\ q = 8 => s = Codegen!Gen(ks[3])
      /\ q = 10 => s = Codegen!Position(Codegen!B(f, 3))
      /\ \A on \in BOOLEAN : q = 11 /\ ~on => s = Codegen!Flow(on)

LEMMA LoopIs ==
  ASSUME NEW f, IsLoop(f)
  PROVE  /\ Live(f) <=> LoopPoint(f) \notin {3, 6, 10}
         /\ Pending(f) = Among(LoopPoint(f), 2 .. 3, 4 .. 6, 7 .. 10)
         /\ Placed(f) <=> PlacedLoop(f)
<1>1. ~IsLazy(f) /\ ~IsBlock(f) /\ Kind(f) \notin {"Ternary", "If", "Return"}
  BY DEF IsLazy, IsLoop, IsBlock
<1> QED BY <1>1 DEF Live, Pending, Placed

LEMMA LoopStepAt ==
  ASSUME Vetted, NEW f, Good(f), IsLoop(f)
  PROVE  LoopStep(f, Codegen!StepOf(f))
<1>nd. PICK nd : nd = Nodes[f.n]
  OBVIOUS
<1>ks. PICK ks : ks = nd.kids
  OBVIOUS
<1>k. PICK k : k = Before(f)
  OBVIOUS
<1>1. /\ k \in {0, 1} /\ (k = 1 <=> Kind(f) = "For") /\ (k = 0 <=> Kind(f) = "While") /\ Kids(f) = ks
      /\ Kind(f) = nd.k
  BY <1>nd, <1>ks, <1>k DEF Before, IsLoop, Kind, Kids
<1>q. PICK q : q = LoopPoint(f)
  OBVIOUS
<1>p. PICK p : p = f.pc - k
  OBVIOUS
<1>u. PICK u : u = Ended(Codegen!V(f, k + 2))
  OBVIOUS
<1>a. PICK a : a = <<Codegen!Blocks(3), Codegen!Goto("br", <<>>, <<Codegen!B(f, 1)>>), Codegen!Position(Codegen!B(f, 1)),
                     Codegen!Value(ks[k + 1]),
                     Codegen!Goto("condbr", <<Codegen!V(f, k + 1)>>, <<Codegen!B(f, 2), Codegen!B(f, 3)>>),
                     Codegen!Position(Codegen!B(f, 2)), Codegen!Scoped(Body(f))>>
  OBVIOUS
<1>on. PICK on \in BOOLEAN : ~on
  OBVIOUS
<1>d. PICK d : d = <<Codegen!Position(Codegen!B(f, 3)), Codegen!Flow(on)>>
  OBVIOUS
<1>g. PICK g, h : g = Codegen!Gen(ks[3]) /\ h = Codegen!Goto("br", <<>>, <<Codegen!B(f, 1)>>)
  OBVIOUS
<1>up. PICK up : up = IF k = 1 THEN <<g>> ELSE <<>>
  OBVIOUS
<1>c. PICK c : c = IF u THEN <<>> ELSE up \o <<h>>
  OBVIOUS
<1>l. PICK l : l = (a \o c) \o d
  OBVIOUS
<1>2. l = Codegen!Loop(f, ks[k + 1], Body(f), up, k)
  BY <1>u, <1>a, <1>on, <1>d, <1>g, <1>c, <1>l DEF Codegen!Loop, Ended, Codegen!Flow
<1>3. Codegen!StepOf(f) = IF k = 0 THEN Taken(l, f.pc) ELSE Taken(<<Codegen!Gen(ks[1])>> \o l, f.pc)
  <2>1. Codegen!StepOf(f) = Taken(Codegen!StmtPlan(f, nd), f.pc)
    BY <1>nd, PlanOf DEF IsLoop, IsBlock, ExprKind
  <2>2. CASE k = 0
    <3>1. Codegen!StmtPlan(f, nd) = Codegen!Loop(f, ks[1], ks[2], <<>>, 0)
      BY <1>1, <1>ks, <2>2 DEF Codegen!StmtPlan
    <3>2. Body(f) = ks[2] /\ up = <<>> /\ ks[k + 1] = ks[1]
      BY <1>1, <1>up, <2>2 DEF Body, BodyAt
    <3> QED BY <1>2, <2>1, <2>2, <3>1, <3>2
  <2>3. CASE k = 1
    <3>1. Codegen!StmtPlan(f, nd) = <<Codegen!Gen(ks[1])>> \o Codegen!Loop(f, ks[2], ks[4], <<g>>, 1)
      BY <1>1, <1>ks, <1>g, <2>3 DEF Codegen!StmtPlan
    <3>2. Body(f) = ks[4] /\ up = <<g>> /\ ks[k + 1] = ks[2]
      BY <1>1, <1>up, <2>3 DEF Body, BodyAt
    <3> QED BY <1>2, <2>1, <2>3, <3>1, <3>2
  <2> QED BY <1>1, <2>2, <2>3
<1>4. /\ f.pc \in Nat \ {0} /\ IsSeq(f.vs) /\ PlacedLoop(f)
  BY LoopIs DEF Good
<1>5. /\ IsSeq(a) /\ Len(a) = 7 /\ IsSeq(d) /\ Len(d) = 2
      /\ Taken(d, 1) = Codegen!Position(Codegen!B(f, 3)) /\ Taken(d, 2) = Codegen!Flow(on)
  BY <1>a, <1>d, Tuple7, Tuple2
<1>6. /\ IsSeq(c) /\ Len(c) = IF u THEN 0 ELSE k + 1
      /\ ~u /\ k = 0 => Taken(c, 1) = h
      /\ ~u /\ k = 1 => Taken(c, 1) = g /\ Taken(c, 2) = h
  <2>1. CASE u
    <3>1. c = <<>>
      BY <1>c, <2>1
    <3> QED BY <2>1, <3>1, SeqSmall
  <2>2. CASE ~u /\ k = 0
    <3>1. c = <<h>>
      <4>1. c = <<>> \o <<h>>
        BY <1>c, <1>up, <2>2
      <4> QED BY <4>1
    <3> QED BY <2>2, <3>1, Tuple1
  <2>3. CASE ~u /\ k = 1
    <3>1. c = <<g>> \o <<h>>
      BY <1>c, <1>up, <2>3
    <3>2. IsSeq(c) /\ Len(c) = 2
      BY <3>1, SeqSmall, SeqConcat
    <3>3. \A i \in Nat \ {0} : Taken(c, i) = IF i <= 1 THEN Taken(<<g>>, i) ELSE Taken(<<h>>, i - 1)
      BY <3>1, SeqSmall, TakenJoin
    <3>4. Taken(c, 1) = g /\ Taken(c, 2) = h
      BY <3>3, TakenOne
    <3> QED BY <2>3, <3>2, <3>4
  <2> QED BY <1>1, <2>1, <2>2, <2>3
<1>7. p \in Nat /\ Codegen!StepOf(f) = IF p = 0 THEN Codegen!Gen(ks[1]) ELSE Taken(l, p)
  <2>1. CASE k = 0
    <3>1. p = f.pc
      BY <1>4, <1>p, <2>1
    <3> QED BY <1>3, <1>4, <2>1, <3>1
  <2>2. CASE k = 1
    <3>1. p \in Nat /\ (p = 0 <=> f.pc <= 1) /\ f.pc - 1 = p
      BY <1>4, <1>p, <2>2
    <3>2. PICK e : e = <<Codegen!Gen(ks[1])>>
      OBVIOUS
    <3>3. IsSeq(e) /\ Len(e) = 1 /\ Taken(e, 1) = Codegen!Gen(ks[1])
      BY <3>2, Tuple1
    <3>4. IsSeq(l)
      <4>1. IsSeq(a \o c)
        BY <1>5, <1>6, SeqIs
      <4> QED BY <1>5, <1>l, <4>1, SeqIs
    <3>5. Taken(e \o l, f.pc) = IF f.pc <= 1 THEN Taken(e, f.pc) ELSE Taken(l, f.pc - 1)
      BY <1>4, <3>3, <3>4, TakenJoin
    <3>6. f.pc <= 1 => f.pc = 1
      BY <1>4
    <3> QED BY <1>3, <2>2, <3>1, <3>2, <3>3, <3>5, <3>6
  <2> QED BY <1>1, <2>1, <2>2
<1>8. q = IF p <= 7 THEN p ELSE IF MustReturn(Body(f)) THEN p + 2 ELSE IF k = 0 THEN p + 1 ELSE p
  BY <1>1, <1>q, <1>p, <1>k DEF LoopPoint
<1>9. q >= 8 => (u <=> MustReturn(Body(f)))
  <2>1. SUFFICES ASSUME q >= 8 PROVE u <=> MustReturn(Body(f))
    OBVIOUS
  <2>2. PICK i : i = k + 2
    OBVIOUS
  <2>3. Len(f.vs) >= i /\ Answer(f, i, BodyAt(f))
    BY <1>4, <1>q, <1>k, <2>1, <2>2 DEF PlacedLoop
  <2>4. i \in 1 .. Len(f.vs) /\ i \in DOMAIN f.vs
    BY <1>1, <1>4, <2>2, <2>3, SeqFacts
  <2> QED BY <1>u, <2>2, <2>3, <2>4 DEF Answer, Body, Codegen!V
<1>10. /\ p \in 1 .. 7 => Taken(l, p) = Taken(a, p)
       /\ p > 7 /\ p <= 7 + Len(c) => Taken(l, p) = Taken(c, p - 7)
       /\ p > 7 + Len(c) => Taken(l, p) = Taken(d, p - 7 - Len(c))
  <2>1. CASE p \in Nat \ {0}
    <3>1. IsSeq(c)
      BY <1>6
    <3>2. LoopParts(a, c, d, l, p)
      BY <1>5, <1>l, <2>1, <3>1, LoopTaken
    <3> QED BY <3>2 DEF LoopParts
  <2>2. CASE p = 0
    BY <1>1, <1>6, <2>2
  <2> QED BY <1>7, <2>1, <2>2
<1>s. PICK s : s = Codegen!StepOf(f)
  OBVIOUS
<1>11. q \in 0 .. 11
  BY <1>1, <1>4, <1>k, <1>q DEF PlacedLoop
<1>12. q = 0 => s = Codegen!Gen(ks[1])
  BY <1>7, <1>8, <1>s
<1>13. q \in 1 .. 7 => s = Taken(a, q)
  BY <1>7, <1>8, <1>10, <1>s
<1>14. q = 8 => s = g
  BY <1>1, <1>6, <1>7, <1>8, <1>9, <1>10, <1>s
<1>15. q = 9 => s = h
  BY <1>1, <1>6, <1>7, <1>8, <1>9, <1>10, <1>s
<1>16. q \in {10, 11} => s = Taken(d, q - 9)
  BY <1>1, <1>6, <1>7, <1>8, <1>9, <1>10, <1>s
<1>17. \A o \in BOOLEAN : q = 11 /\ ~o => s = Codegen!Flow(o)
  BY <1>5, <1>16, <1>on DEF Codegen!Flow
<1>18. q \in 1 .. 7 => /\ q = 1 => s = Codegen!Blocks(3)
                       /\ q = 2 => s = Codegen!Goto("br", <<>>, <<Codegen!B(f, 1)>>)
                       /\ q = 3 => s = Codegen!Position(Codegen!B(f, 1))
                       /\ q = 4 => s = Codegen!Value(ks[k + 1])
                       /\ q = 5 => s = Codegen!Goto("condbr", <<Codegen!V(f, k + 1)>>, <<Codegen!B(f, 2), Codegen!B(f, 3)>>)
                       /\ q = 6 => s = Codegen!Position(Codegen!B(f, 2))
                       /\ q = 7 => s = Codegen!Scoped(Body(f))
  BY <1>13, <1>a, Tuple7
<1>19. q = 10 => s = Codegen!Position(Codegen!B(f, 3))
  BY <1>5, <1>16
<1> QED BY <1>1, <1>g, <1>k, <1>q, <1>s, <1>11, <1>12, <1>14, <1>15, <1>17, <1>18, <1>19 DEF LoopStep

\* Where a step takes a loop.
LEMMA LoopNext ==
  ASSUME NEW f, Good(f), IsLoop(f), NEW g, NEW m \in Nat, NEW k \in Nat, Moves(f, g, m, k)
  PROVE  /\ IsLoop(g) /\ Before(g) = Before(f) /\ BodyAt(g) = BodyAt(f) /\ Body(g) = Body(f) /\ Kind(g) = Kind(f)
         /\ Kids(g) = Kids(f)
         /\ LoopPoint(f) \in 0 .. 10 =>
              LoopPoint(g) = IF LoopPoint(f) = 7 /\ MustReturn(Body(f)) THEN 10
                             ELSE IF LoopPoint(f) = 7 /\ Kind(f) = "While" THEN 9
                             ELSE LoopPoint(f) + 1
<1>1. /\ Kind(g) = Kind(f) /\ Kids(g) = Kids(f) /\ IsLoop(g) /\ g.pc = f.pc + 1 /\ f.pc \in Nat \ {0}
  BY MovesKeeps
<1>2. Before(g) = Before(f) /\ BodyAt(g) = BodyAt(f) /\ Body(g) = Body(f)
  BY <1>1 DEF Before, BodyAt, Body
<1>3. PICK p, b : p = f.pc - Before(f) /\ b = Before(f)
  OBVIOUS
<1> DEFINE r == MustReturn(Body(f))
           w == Kind(f) = "While"
<1>4. b \in {0, 1} /\ p \in Int /\ g.pc - Before(g) = p + 1
  BY <1>1, <1>2, <1>3 DEF Before
<1>5. LoopPoint(f) = IF p <= 7 THEN p ELSE IF r THEN p + 2 ELSE IF w THEN p + 1 ELSE p
  BY <1>3 DEF LoopPoint
<1>6. LoopPoint(g) = IF p + 1 <= 7 THEN p + 1 ELSE IF r THEN p + 3 ELSE IF w THEN p + 2 ELSE p + 1
  BY <1>1, <1>2, <1>3, <1>4 DEF LoopPoint
<1>7. PICK x, y : x = LoopPoint(f) /\ y = LoopPoint(g)
  OBVIOUS
<1> HIDE DEF r, w
<1>8. x \in 0 .. 10 => y = IF x = 7 /\ r THEN 10 ELSE IF x = 7 /\ w THEN 9 ELSE x + 1
  BY <1>4, <1>5, <1>6, <1>7
<1> QED BY <1>1, <1>2, <1>3, <1>7, <1>8 DEF r, w

\* A loop in its place stays so.
LEMMA LoopStays ==
  ASSUME Vetted, NEW f, Good(f), IsLoop(f), NEW g, NEW m \in Nat, NEW k \in Nat, Moves(f, g, m, k),
         NEW q, q = LoopPoint(f), q \in 0 .. 10,
         q = 1 => k = 3, q \notin {0, 4, 7, 8} => m = 0, q \in {0, 4, 7} => m = 1,
         q = 7 => (Ended(g.vs[Len(f.vs) + 1]) <=> MustReturn(Body(f))), q # 1 => k = 0
  PROVE  Good(g)
<1>1. /\ IsLoop(g) /\ Before(g) = Before(f) /\ BodyAt(g) = BodyAt(f) /\ Body(g) = Body(f) /\ Kids(g) = Kids(f)
      /\ LoopPoint(g) = IF q = 7 /\ MustReturn(Body(f)) THEN 10
                        ELSE IF q = 7 /\ Kind(f) = "While" THEN 9 ELSE q + 1
  BY LoopNext
<1>2. /\ Len(f.vs) \in Nat /\ Len(f.bbs) \in Nat /\ Len(g.vs) = Len(f.vs) + m /\ Len(g.bbs) = Len(f.bbs) + k
      /\ Placed(g) => Good(g)
  BY MovesKeeps
<1>3. PICK b, l, n, c, d, o : /\ b = Before(f) /\ l = Len(f.vs) /\ n = Len(g.vs) /\ c = Len(f.bbs) /\ d = Len(g.bbs)
                              /\ o = LoopPoint(g)
  OBVIOUS
<1>4. b \in {0, 1} /\ Before(g) = b
  BY <1>1, <1>3 DEF Before
<1>5. /\ q \in 1 - b .. 11
      /\ IF q <= 1 THEN f.bbs = <<>> ELSE c = 3
      /\ q = 0 => f.vs = <<>>
      /\ q \in 1 .. 4 => l = b
      /\ q \in 5 .. 7 => l = b + 1
      /\ q >= 8 => l >= b + 2 /\ Answer(f, b + 2, BodyAt(f))
  <2>1. PlacedLoop(f)
    BY LoopIs DEF Good
  <2> QED BY <1>3, <2>1 DEF PlacedLoop
<1>6. o \in 1 - b .. 11 /\ o # 0 /\ (o \in 1 .. 4 <=> q \in 0 .. 3) /\ (o \in 5 .. 7 <=> q \in 4 .. 6) /\ (o >= 8 <=> q >= 7)
      /\ (o <= 1 <=> q = 0)
  BY <1>1, <1>3, <1>4, <1>5
<1>7. IF o <= 1 THEN g.bbs = <<>> ELSE d = 3
  <2>1. CASE q = 0
    <3>1. f.bbs = <<>>
      BY <1>5, <2>1
    <3>2. c = 0
      BY <1>3, <3>1
    <3>3. d = 0 /\ IsSeq(g.bbs)
      BY <1>2, <1>3, <2>1, <3>2 DEF Moves
    <3>4. g.bbs = <<>>
      BY <1>3, <3>3, SeqEmpty
    <3> QED BY <1>6, <2>1, <3>4
  <2>2. CASE q = 1
    <3>1. c = 0
      BY <1>3, <1>5, <2>2
    <3> QED BY <1>2, <1>3, <1>6, <2>2, <3>1
  <2>3. CASE q > 1
    <3>1. c = 3 /\ k = 0 /\ d = c + k /\ ~(o <= 1)
      BY <1>2, <1>3, <1>5, <1>6, <2>3
    <3> QED BY <3>1
  <2> QED BY <2>1, <2>2, <2>3
<1>8. o \in 1 .. 4 => n = b
  <2>1. q = 0 => l = 0 /\ b = 1
    BY <1>3, <1>4, <1>5
  <2> QED BY <1>2, <1>3, <1>4, <1>5, <1>6, <2>1
<1>9. o \in 5 .. 7 => n = b + 1
  BY <1>2, <1>3, <1>4, <1>5, <1>6
<1>10. o >= 8 => n >= b + 2
  BY <1>2, <1>3, <1>4, <1>5, <1>6
<1>11. o >= 8 => Answer(g, b + 2, BodyAt(f))
  <2>1. CASE q = 7
    <3>1. l + 1 = b + 2
      BY <1>5, <2>1, <1>4
    <3>2. Ended(g.vs[b + 2]) <=> MustReturn(Body(f))
      BY <1>3, <2>1, <3>1
    <3> QED BY <1>1, <3>2 DEF Answer, Body
  <2>2. CASE q >= 8
    <3>1. PICK i : i = b + 2
      OBVIOUS
    <3>2. i \in 1 .. l
      <4>1. l \in Nat /\ l >= b + 2
        BY <1>2, <1>3, <1>5, <2>2
      <4> QED BY <1>4, <3>1, <4>1
    <3>4. Answer(f, i, BodyAt(f))
      BY <1>5, <2>2, <3>1
    <3>3. g.vs[i] = f.vs[i]
      BY <1>3, <3>2 DEF Moves
    <3> QED BY <1>1, <1>3, <3>1, <3>2, <3>3, <3>4 DEF Answer
  <2> QED BY <1>6, <2>1, <2>2
<1>12. PlacedLoop(g)
  BY <1>1, <1>3, <1>4, <1>6, <1>7, <1>8, <1>9, <1>10, <1>11 DEF PlacedLoop
<1> QED BY <1>1, <1>2, <1>12, LoopIs

LEMMA WhilePoint ==
  ASSUME NEW f, Good(f), Kind(f) = "While"
  PROVE  LoopPoint(f) # 8
<1>1. f.pc \in Nat /\ Before(f) = 0
  BY DEF Good, Before
<1>2. PICK p, x : p = f.pc - Before(f) /\ x = LoopPoint(f)
  OBVIOUS
<1>3. p \in Nat
  BY <1>1, <1>2
<1>4. x = IF p <= 7 THEN p ELSE IF MustReturn(Body(f)) THEN p + 2 ELSE p + 1
  BY <1>2 DEF LoopPoint
<1> QED BY <1>2, <1>3, <1>4

LEMMA LoopSteps ==
  ASSUME Vetted, NEW f, Good(f), IsLoop(f)
  PROVE  Does(f, Codegen!StepOf(f))
<1>s. PICK s : s = Codegen!StepOf(f)
  OBVIOUS
<1>b. PICK b : b = Before(f)
  OBVIOUS
<1>q. PICK q : q = LoopPoint(f)
  OBVIOUS
<1>1. /\ Live(f) <=> q \notin {3, 6, 10}
      /\ Pending(f) = Among(q, 2 .. 3, 4 .. 6, 7 .. 10)
      /\ PlacedLoop(f)
  BY <1>q, LoopIs DEF Good
<1>2. q \in 1 - b .. 11 /\ b \in {0, 1} /\ (q <= 1 => f.bbs = <<>>) /\ (q > 1 => Len(f.bbs) = 3)
      /\ (q = 0 => Kind(f) = "For")
  BY <1>1, <1>b, <1>q DEF PlacedLoop, Before
<1>3. LoopStep(f, s)
  BY <1>s, LoopStepAt
<1>4. ~MustReturn(f.n) /\ Kind(f) \notin ExprKind
  BY FrameNode, NoReturn DEF IsLoop, ExprKind
<1>r. PICK r \in BOOLEAN : r <=> MustReturn(Body(f))
  OBVIOUS

\* What a step other than an answer does.
<1>5. ASSUME NEW g, NEW m, NEW k, m \in Nat, k \in Nat, Moves(f, g, m, k), q \in 0 .. 10,
             q = 1 => k = 3, q \notin {0, 4, 7, 8} => m = 0, q \in {0, 4, 7} => m = 1,
             q = 7 => (Ended(g.vs[Len(f.vs) + 1]) <=> MustReturn(Body(f))), q # 1 => k = 0
      PROVE  /\ Good(g) /\ (Live(g) <=> q \notin {2, 5, 9} /\ ~(q = 7 /\ r))
             /\ Pending(g) = Among(q, 1 .. 2, 3 .. 5, 6 .. 9)
  <2>1. Good(g)
    BY <1>5, <1>q, LoopStays
  <2>2. PICK o : o = LoopPoint(g)
    OBVIOUS
  <2>3. IsLoop(g) /\ o = IF q = 7 /\ r THEN 10 ELSE IF q = 7 /\ Kind(f) = "While" THEN 9 ELSE q + 1
    BY <1>5, <1>q, <1>r, <2>2, LoopNext
  <2>4. (Live(g) <=> o \notin {3, 6, 10}) /\ Pending(g) = Among(o, 2 .. 3, 4 .. 6, 7 .. 10)
    BY <2>2, <2>3, LoopIs
  <2> QED BY <1>5, <2>1, <2>3, <2>4 DEF Among
<1>6. "br" \in Terminator /\ "condbr" \in Terminator
  BY DEF Terminator, Codegen!Terminator

\* The children.
<1>c. PICK c, d : c = b + 1 /\ d = BodyAt(f)
  OBVIOUS
<1>7. /\ c \in 1 .. Len(Kids(f)) /\ d \in 1 .. Len(Kids(f))
      /\ Nodes[Kids(f)[c]].k \in ExprKind /\ Body(f) = Kids(f)[d] /\ Nodes[Body(f)].k \in StmtKind
      /\ b = 1 => /\ 1 \in 1 .. Len(Kids(f)) /\ 3 \in 1 .. Len(Kids(f))
                  /\ Nodes[Kids(f)[1]].k = "VarDecl" /\ Nodes[Kids(f)[3]].k \in ExprKind
  <2>1. Shape(Nodes[f.n])
    BY FrameNode, KidsOf
  <2>k. PICK ks : ks = Kids(f)
    OBVIOUS
  <2>2. CASE Kind(f) = "While"
    <3>1. Len(ks) = 2 /\ Nodes[ks[1]].k \in ExprKind /\ Nodes[ks[2]].k \in StmtKind
      BY <2>1, <2>2, <2>k DEF Shape, Kind, Kids
    <3>2. c = 1 /\ d = 2 /\ b = 0
      BY <1>b, <1>c, <2>2 DEF Before, BodyAt
    <3> QED BY <1>c, <2>k, <3>1, <3>2 DEF Body
  <2>3. CASE Kind(f) = "For"
    <3>1. /\ Len(ks) = 4 /\ Nodes[ks[1]].k = "VarDecl" /\ Nodes[ks[2]].k \in ExprKind
          /\ Nodes[ks[3]].k \in ExprKind /\ Nodes[ks[4]].k \in StmtKind
      BY <2>1, <2>3, <2>k DEF Shape, Kind, Kids
    <3>2. c = 2 /\ d = 4
      BY <1>b, <1>c, <2>3 DEF Before, BodyAt
    <3> QED BY <1>c, <2>k, <3>1, <3>2 DEF Body
  <2> QED BY <2>2, <2>3 DEF IsLoop
<1>8. CASE q = 0
  <2>1. s = Codegen!Gen(Kids(f)[1])
    BY <1>3, <1>q, <1>8 DEF LoopStep
  <2>2. s.do = "gen" /\ s.n = Kids(f)[1]
    BY <2>1 DEF Codegen!Gen
  <2>3. PICK i : i = 1
    OBVIOUS
  <2>4. b = 1
    BY <1>2, <1>8, <1>b DEF Before
  <2>5. ~MustReturn(Kids(f)[i])
    BY <1>7, <2>3, <2>4, FrameNode, NoReturn
  <2>6. \A g : Moves(f, g, 1, 0) => Good(g) /\ Pending(g) = Pending(f) /\ Live(g)
    BY <1>1, <1>5, <1>8 DEF Among
  <2>7. Live(f)
    BY <1>1, <1>8
  <2>8. Does(f, s)
    BY <1>7, <2>2, <2>3, <2>4, <2>5, <2>6, <2>7, GenDoes
  <2> QED BY <1>s, <2>8
<1>9. CASE q = 1
  <2>1. s = Codegen!Blocks(3)
    BY <1>3, <1>q, <1>9 DEF LoopStep
  <2>2. \A g : Moves(f, g, 0, 3) => Good(g) /\ Pending(g) = 1 .. 3 /\ (Live(g) <=> Live(f))
    BY <1>1, <1>5, <1>9 DEF Among
  <2>3. f.bbs = <<>> /\ Pending(f) = {}
    BY <1>1, <1>2, <1>9 DEF Among
  <2> QED BY <1>s, <2>1, <2>2, <2>3, BlocksDoes
<1>10. CASE q \in {2, 5, 9}
  <2>1. PICK op, as, to : s = Codegen!Goto(op, as, to) /\ op \in Terminator
    <3>1. CASE q = 5
      BY <1>3, <1>6, <1>q, <3>1 DEF LoopStep
    <3>2. CASE q \in {2, 9}
      BY <1>3, <1>6, <1>q, <3>2 DEF LoopStep
    <3> QED BY <1>10, <3>1, <3>2
  <2>2. \A g : Moves(f, g, 0, 0) => Good(g) /\ Pending(g) = Pending(f) /\ ~Live(g)
    BY <1>1, <1>5, <1>10 DEF Among
  <2>3. Live(f)
    BY <1>1, <1>10
  <2> QED BY <1>s, <2>1, <2>2, <2>3, GotoDoes
<1>11. CASE q \in {3, 6, 10}
  <2>1. PICK j \in {1, 2, 3} : s = Codegen!Position(Codegen!B(f, j)) /\ j = IF q = 3 THEN 1 ELSE IF q = 6 THEN 2 ELSE 3
    BY <1>3, <1>q, <1>11 DEF LoopStep
  <2>2. \A g : Moves(f, g, 0, 0) => Good(g) /\ Pending(g) = Pending(f) \ {j} /\ Live(g)
    BY <1>1, <1>5, <1>11, <2>1 DEF Among
  <2>3. j \in Pending(f) /\ j \in 1 .. Len(f.bbs)
    <3>1. j \in Pending(f)
      BY <1>1, <1>11, <2>1 DEF Among
    <3>2. Len(f.bbs) = 3
      BY <1>2, <1>11
    <3> QED BY <3>1, <3>2
  <2>4. ~Live(f)
    BY <1>1, <1>11
  <2> QED BY <1>s, <2>1, <2>2, <2>3, <2>4, PositionDoes
<1>12. CASE q = 4
  <2>1. s = Codegen!Value(Kids(f)[c])
    BY <1>3, <1>q, <1>b, <1>c, <1>12 DEF LoopStep
  <2>2. s.do = "value" /\ s.n = Kids(f)[c]
    BY <2>1 DEF Codegen!Value
  <2>3. \A g : Moves(f, g, 1, 0) => Good(g) /\ Pending(g) = Pending(f) /\ Live(g)
    BY <1>1, <1>5, <1>12 DEF Among
  <2>4. Live(f)
    BY <1>1, <1>12
  <2>5. Does(f, s)
    BY <1>7, <2>2, <2>3, <2>4, ValueDoes
  <2> QED BY <1>s, <2>5
<1>13. CASE q = 7
  <2>1. s = Codegen!Scoped(Body(f))
    BY <1>3, <1>q, <1>13 DEF LoopStep
  <2>2. s.do = "gen" /\ s.n = Kids(f)[d]
    BY <1>7, <2>1 DEF Codegen!Scoped
  <2>3. Live(f)
    BY <1>1, <1>13
  <2>4. ASSUME NEW g, Moves(f, g, 1, 0), Gives(Kids(f)[d], g.vs[Len(f.vs) + 1])
        PROVE  Good(g) /\ Pending(g) = Pending(f) /\ (Live(g) <=> ~MustReturn(Kids(f)[d]))
    <3>1. Ended(g.vs[Len(f.vs) + 1]) <=> MustReturn(Body(f))
      BY <1>7, <2>4, KindsApart DEF Gives
    <3>2. /\ Good(g) /\ (Live(g) <=> q \notin {2, 5, 9} /\ ~(q = 7 /\ r))
          /\ Pending(g) = Among(q, 1 .. 2, 3 .. 5, 6 .. 9)
      BY <1>5, <1>13, <2>4, <3>1
    <3> QED BY <1>1, <1>7, <1>r, <1>13, <3>2 DEF Among
  <2>5. Does(f, s)
    BY <1>7, <2>2, <2>3, <2>4, GenDoes
  <2> QED BY <1>s, <2>5
<1>14. CASE q = 8
  <2>1. s = Codegen!Gen(Kids(f)[3])
    BY <1>3, <1>q, <1>14 DEF LoopStep
  <2>2. s.do = "gen" /\ s.n = Kids(f)[3]
    BY <2>1 DEF Codegen!Gen
  <2>3. PICK i : i = 3
    OBVIOUS
  <2>4. b = 1
    <3>1. Kind(f) # "While"
      BY <1>q, <1>14, WhilePoint
    <3> QED BY <1>b, <3>1 DEF Before, IsLoop
  <2>5. \A g : Moves(f, g, 1, 0) => Good(g) /\ Pending(g) = Pending(f) /\ Live(g)
    BY <1>1, <1>5, <1>14 DEF Among
  <2>6. Live(f)
    BY <1>1, <1>14
  <2>7. Does(f, s)
    BY <1>7, <2>2, <2>3, <2>4, <2>5, <2>6, ValueDoes
  <2> QED BY <1>s, <2>7
<1>15. CASE q = 11
  <2>1. PICK on \in BOOLEAN : ~on
    OBVIOUS
  <2>2. s = Codegen!Flow(on)
    BY <1>3, <1>q, <1>15, <2>1 DEF LoopStep
  <2>3. Pending(f) = {} /\ Live(f)
    BY <1>1, <1>15 DEF Among
  <2> QED BY <1>s, <1>4, <2>1, <2>2, <2>3, FlowDoes
<1>16. q \in 0 .. 11
  BY <1>2
<1> QED BY <1>16, <1>8, <1>9, <1>10, <1>11, <1>12, <1>13, <1>14, <1>15
-----------------------------------------------------------------------------
(***************************************************************************)
(* Conditionals.                                                           *)
(***************************************************************************)
LEMMA Tuple5 ==
  ASSUME NEW a, NEW b, NEW c, NEW d, NEW e, NEW p, p = <<a, b, c, d, e>>
  PROVE  /\ IsSeq(p) /\ Len(p) = 5
         /\ Taken(p, 1) = a /\ Taken(p, 2) = b /\ Taken(p, 3) = c /\ Taken(p, 4) = d /\ Taken(p, 5) = e
<1>1. /\ DOMAIN p = 1 .. 5 /\ p[1] = a /\ p[2] = b /\ p[3] = c /\ p[4] = d /\ p[5] = e
      /\ IsSeq(p) /\ Len(p) = 5
  BY DEF IsSeq
<1> QED BY <1>1 DEF Taken, Codegen!Taken

\* Five steps, perhaps a sixth, b, d, perhaps another, e, and the end.
IfParts(a, c2, b, d, c3, e, z, p, k) ==
  LET l2 == Len(c2)  l3 == Len(c3)
  IN  /\ k <= 5 => Taken(p, k) = Taken(a, k)
      /\ k = 6 /\ l2 = 1 => Taken(p, k) = Taken(c2, 1)
      /\ k = 6 + l2 => Taken(p, k) = Taken(b, 1)
      /\ k = 7 + l2 => Taken(p, k) = Taken(d, 1)
      /\ k = 8 + l2 /\ l3 = 1 => Taken(p, k) = Taken(c3, 1)
      /\ k = 8 + l2 + l3 => Taken(p, k) = Taken(e, 1)
      /\ k > 8 + l2 + l3 => Taken(p, k) = Taken(z, k - 8 - l2 - l3)

LEMMA IfTaken ==
  ASSUME NEW a, IsSeq(a), Len(a) = 5, NEW c2, IsSeq(c2), Len(c2) \in {0, 1}, NEW b, IsSeq(b), Len(b) = 1,
         NEW d, IsSeq(d), Len(d) = 1, NEW c3, IsSeq(c3), Len(c3) \in {0, 1}, NEW e, IsSeq(e), Len(e) = 1,
         NEW z, IsSeq(z), NEW p, p = ((((a \o c2) \o b) \o (d \o c3)) \o e) \o z, NEW k \in Nat \ {0}
  PROVE  IfParts(a, c2, b, d, c3, e, z, p, k)
<1>1. PICK l2, l3 : l2 = Len(c2) /\ l3 = Len(c3) /\ l2 \in {0, 1} /\ l3 \in {0, 1}
  OBVIOUS
<1>2. PICK u1 : u1 = a \o c2
  OBVIOUS
<1>3. PICK u2 : u2 = u1 \o b
  OBVIOUS
<1>4. PICK v : v = d \o c3
  OBVIOUS
<1>5. PICK u3 : u3 = u2 \o v
  OBVIOUS
<1>6. PICK u4 : u4 = u3 \o e
  OBVIOUS
<1>7. p = u4 \o z
  BY <1>2, <1>3, <1>4, <1>5, <1>6
<1>8. IsSeq(u1) /\ Len(u1) = 5 + l2 /\ IsSeq(v) /\ Len(v) = 1 + l3
  <2>1. IsSeq(a \o c2) /\ Len(a \o c2) = Len(a) + Len(c2)
    BY SeqConcat
  <2>2. IsSeq(d \o c3) /\ Len(d \o c3) = Len(d) + Len(c3)
    BY SeqConcat
  <2> QED BY <1>1, <1>2, <1>4, <2>1, <2>2
<1>9. IsSeq(u2) /\ Len(u2) = 6 + l2
  <2>1. IsSeq(u2) /\ Len(u2) = Len(u1) + Len(b)
    BY <1>3, <1>8, SeqConcat
  <2> QED BY <1>1, <1>8, <2>1
<1>10. IsSeq(u3) /\ Len(u3) = 7 + l2 + l3
  <2>1. IsSeq(u3) /\ Len(u3) = Len(u2) + Len(v)
    BY <1>5, <1>8, <1>9, SeqConcat
  <2> QED BY <1>1, <1>8, <1>9, <2>1
<1>11. IsSeq(u4) /\ Len(u4) = 8 + l2 + l3
  <2>1. IsSeq(u4) /\ Len(u4) = Len(u3) + Len(e)
    BY <1>6, <1>10, SeqConcat
  <2> QED BY <1>1, <1>10, <2>1
<1>12. Taken(p, k) = IF k <= 8 + l2 + l3 THEN Taken(u4, k) ELSE Taken(z, k - (8 + l2 + l3))
  BY <1>7, <1>11, TakenJoin
<1>13. Taken(u4, k) = IF k <= 7 + l2 + l3 THEN Taken(u3, k) ELSE Taken(e, k - (7 + l2 + l3))
  BY <1>6, <1>10, TakenJoin
<1>14. Taken(u3, k) = IF k <= 6 + l2 THEN Taken(u2, k) ELSE Taken(v, k - (6 + l2))
  BY <1>5, <1>8, <1>9, TakenJoin
<1>15. Taken(u2, k) = IF k <= 5 + l2 THEN Taken(u1, k) ELSE Taken(b, k - (5 + l2))
  BY <1>3, <1>8, TakenJoin
<1>16. Taken(u1, k) = IF k <= 5 THEN Taken(a, k) ELSE Taken(c2, k - 5)
  BY <1>2, TakenJoin
<1>17. \A j \in Nat \ {0} : Taken(v, j) = IF j <= 1 THEN Taken(d, j) ELSE Taken(c3, j - 1)
  <2>1. TAKE j \in Nat \ {0}
  <2>2. Taken(d \o c3, j) = IF j <= Len(d) THEN Taken(d, j) ELSE Taken(c3, j - Len(d))
    BY TakenJoin
  <2>3. Len(d) = 1
    OBVIOUS
  <2> QED BY <1>4, <2>2, <2>3
<1>18. k <= 5 => Taken(p, k) = Taken(a, k)
  BY <1>1, <1>12, <1>13, <1>14, <1>15, <1>16
<1>19. k = 6 /\ l2 = 1 => Taken(p, k) = Taken(c2, 1)
  BY <1>1, <1>12, <1>13, <1>14, <1>15, <1>16
<1>20. k = 6 + l2 => Taken(p, k) = Taken(b, 1)
  <2>1. ASSUME k = 6 + l2 PROVE k - (5 + l2) = 1 /\ ~(k <= 5 + l2) /\ k <= 6 + l2 /\ k <= 7 + l2 + l3 /\ k <= 8 + l2 + l3
    BY <1>1, <2>1
  <2> QED BY <2>1, <1>12, <1>13, <1>14, <1>15
<1>21. k = 7 + l2 => Taken(p, k) = Taken(d, 1)
  <2>1. ASSUME k = 7 + l2 PROVE k - (6 + l2) = 1 /\ ~(k <= 6 + l2) /\ k <= 7 + l2 + l3 /\ k <= 8 + l2 + l3
    BY <1>1, <2>1
  <2>2. Taken(v, 1) = Taken(d, 1)
    BY <1>17
  <2> QED BY <2>1, <2>2, <1>12, <1>13, <1>14
<1>22. k = 8 + l2 /\ l3 = 1 => Taken(p, k) = Taken(c3, 1)
  <2>1. ASSUME k = 8 + l2, l3 = 1 PROVE k - (6 + l2) = 2 /\ ~(k <= 6 + l2) /\ k <= 7 + l2 + l3 /\ k <= 8 + l2 + l3
    BY <1>1, <2>1
  <2>2. Taken(v, 2) = Taken(c3, 1)
    BY <1>17
  <2> QED BY <2>1, <2>2, <1>12, <1>13, <1>14
<1>23. k = 8 + l2 + l3 => Taken(p, k) = Taken(e, 1)
  <2>1. ASSUME k = 8 + l2 + l3 PROVE k - (7 + l2 + l3) = 1 /\ ~(k <= 7 + l2 + l3) /\ k <= 8 + l2 + l3
    BY <1>1, <2>1
  <2> QED BY <2>1, <1>12, <1>13
<1>24. k > 8 + l2 + l3 => Taken(p, k) = Taken(z, k - 8 - l2 - l3)
  <2>1. k - 8 - l2 - l3 = k - (8 + l2 + l3)
    BY <1>1
  <2>2. k > 8 + l2 + l3 => ~(k <= 8 + l2 + l3)
    BY <1>1
  <2> QED BY <2>1, <2>2, <1>12
<1> QED BY <1>1, <1>18, <1>19, <1>20, <1>21, <1>22, <1>23, <1>24 DEF IfParts

LEMMA IfIs ==
  ASSUME NEW f, Kind(f) = "If"
  PROVE  /\ Live(f) <=> IfPoint(f) \notin {4, 7, 10} /\ (IfPoint(f) = 12 => ~MustReturn(f.n))
         /\ Pending(f) = Among(IfPoint(f), 3 .. 4, 5 .. 7, 8 .. 10)
         /\ Placed(f) <=> PlacedIf(f)
<1>1. ~IsLazy(f) /\ ~IsLoop(f) /\ ~IsBlock(f)
  BY DEF IsLazy, IsLoop, IsBlock
<1> QED BY <1>1 DEF Live, Pending, Placed

\* An if: its children, and when it ends its block.
LEMMA IfKids ==
  ASSUME Vetted, NEW f, Good(f), Kind(f) = "If"
  PROVE  /\ Len(Kids(f)) \in {2, 3} /\ Nodes[Kids(f)[1]].k \in ExprKind /\ Nodes[Kids(f)[2]].k \in StmtKind
         /\ Len(Kids(f)) = 3 => Nodes[Kids(f)[3]].k \in StmtKind
         /\ MustReturn(f.n) <=> Len(Kids(f)) = 3 /\ MustReturn(Kids(f)[2]) /\ MustReturn(Kids(f)[3])
<1> PICK ks : ks = Kids(f)
  OBVIOUS
<1>1. Shape(Nodes[f.n]) /\ f.n \in NodeId /\ ks = Nodes[f.n].kids /\ Nodes[f.n].k = "If" /\ IsSeq(ks)
  BY FrameNode, KidsOf DEF Kind, Kids
<1>2. Len(ks) \in {2, 3} /\ Nodes[ks[1]].k \in ExprKind /\ AllIn(Tail(ks), StmtKind)
  BY <1>1 DEF Shape
<1>3. DOMAIN Tail(ks) = 1 .. Len(ks) - 1 /\ \A i \in 1 .. Len(ks) - 1 : Tail(ks)[i] = ks[i + 1]
  BY <1>1, <1>2 DEF IsSeq
<1>4. Nodes[ks[2]].k \in StmtKind
  <2>1. 1 \in DOMAIN Tail(ks) /\ Tail(ks)[1] = ks[2]
    <3>1. PICK m : m = Len(ks)
      OBVIOUS
    <3>2. 1 \in 1 .. m - 1
      BY <1>2, <3>1
    <3>3. Tail(ks)[1] = ks[1 + 1]
      BY <1>3, <3>1, <3>2
    <3> QED BY <1>3, <3>1, <3>2, <3>3
  <2> QED BY <1>2, <2>1 DEF AllIn
<1>5. Len(ks) = 3 => Nodes[ks[3]].k \in StmtKind
  <2>1. ASSUME Len(ks) = 3 PROVE 2 \in DOMAIN Tail(ks) /\ Tail(ks)[2] = ks[3]
    <3>1. DOMAIN Tail(ks) = 1 .. 2 /\ \A i \in 1 .. 2 : Tail(ks)[i] = ks[i + 1]
      BY <1>3, <2>1
    <3> QED BY <3>1
  <2> QED BY <1>2, <2>1 DEF AllIn
<1>6. MustReturn(f.n) <=> Len(ks) = 3 /\ MustReturn(ks[2]) /\ MustReturn(ks[3])
  BY <1>1, MustReturnStep
<1> QED BY <1>2, <1>4, <1>5, <1>6

\* What the steps of an if are, by the point that it is at.
IfStep(f, s) ==
  LET q == IfPoint(f)  ks == Kids(f)
  IN  /\ q = 1 => s = Codegen!Value(ks[1])
      /\ q = 2 => s = Codegen!Blocks(3)
      /\ q = 3 => s = Codegen!Goto("condbr", <<Codegen!V(f, 1)>>, <<Codegen!B(f, 1), Codegen!B(f, 2)>>)
      /\ q = 4 => s = Codegen!Position(Codegen!B(f, 1))
      /\ q = 5 => s = Codegen!Scoped(ks[2])
      /\ q \in {6, 9} => s = Codegen!Goto("br", <<>>, <<Codegen!B(f, 3)>>)
      /\ q = 7 => s = Codegen!Position(Codegen!B(f, 2))
      /\ q = 8 => s = IF Len(ks) = 3 THEN Codegen!Scoped(ks[3]) ELSE Codegen!Goto("br", <<>>, <<Codegen!B(f, 3)>>)
      /\ q = 10 => s = Codegen!Position(Codegen!B(f, 3))
      /\ q = 11 => s = Codegen!Goto("unreachable", <<>>, <<>>)
      /\ \A on \in BOOLEAN : q = 12 /\ (on <=> MustReturn(f.n)) => s \in {Codegen!Flow(on), Codegen!Unreachable}

\* The values an if has say which of its statements end.
LEMMA IfValues ==
  ASSUME Vetted, NEW f, Good(f), Kind(f) = "If"
  PROVE  /\ IfPoint(f) >= 6 => (Ended(Codegen!V(f, 2)) <=> MustReturn(Kids(f)[2]))
         /\ IfPoint(f) >= 9 /\ Len(Kids(f)) = 3 => (Ended(Codegen!V(f, 3)) <=> MustReturn(Kids(f)[3]))
<1>1. PlacedIf(f) /\ IsSeq(f.vs)
  BY IfIs DEF Good
<1>2. PICK q, l : q = IfPoint(f) /\ l = Len(f.vs)
  OBVIOUS
<1>3. /\ q \in 1 .. 12 /\ l = IF q = 1 THEN 0 ELSE IF q <= 5 THEN 1 ELSE IF q <= 8 THEN 2 ELSE Len(Kids(f))
      /\ Answer(f, 2, 2) /\ (Len(Kids(f)) = 3 => Answer(f, 3, 3))
  BY <1>1, <1>2 DEF PlacedIf
<1>4. DOMAIN f.vs = 1 .. l
  BY <1>1, <1>2, SeqFacts
<1>5. Len(Kids(f)) \in {2, 3}
  BY IfKids
<1>6. ASSUME q >= 6 PROVE Ended(Codegen!V(f, 2)) <=> MustReturn(Kids(f)[2])
  <2>1. PICK i : i = 2
    OBVIOUS
  <2>2. i \in 1 .. l
    BY <1>3, <1>5, <1>6, <2>1
  <2> QED BY <1>2, <1>3, <1>4, <2>1, <2>2 DEF Answer, Codegen!V
<1>7. ASSUME q >= 9, Len(Kids(f)) = 3 PROVE Ended(Codegen!V(f, 3)) <=> MustReturn(Kids(f)[3])
  <2>1. PICK i : i = 3
    OBVIOUS
  <2>2. i \in 1 .. l
    BY <1>3, <1>5, <1>7, <2>1
  <2> QED BY <1>2, <1>3, <1>4, <1>7, <2>1, <2>2 DEF Answer, Codegen!V
<1> QED BY <1>2, <1>6, <1>7

LEMMA IfStepAt ==
  ASSUME Vetted, NEW f, Good(f), Kind(f) = "If"
  PROVE  IfStep(f, Codegen!StepOf(f))
<1>nd. PICK nd : nd = Nodes[f.n]
  OBVIOUS
<1>ks. PICK ks : ks = nd.kids
  OBVIOUS
<1>1. Kids(f) = ks /\ nd.k = "If" /\ Len(ks) \in {2, 3}
  BY <1>nd, <1>ks, IfKids DEF Kind, Kids
<1>q. PICK q : q = IfPoint(f)
  OBVIOUS
<1>u2. PICK u2 \in BOOLEAN : u2 <=> Ended(Codegen!V(f, 2))
  OBVIOUS
<1>u3. PICK u3 \in BOOLEAN : u3 <=> Ended(Codegen!V(f, 3))
  OBVIOUS
<1>t. PICK t \in BOOLEAN : t <=> Len(ks) = 3
  OBVIOUS
<1>br. PICK br : br = Codegen!Goto("br", <<>>, <<Codegen!B(f, 3)>>)
  OBVIOUS
<1>a. PICK a : a = <<Codegen!Value(ks[1]), Codegen!Blocks(3),
                     Codegen!Goto("condbr", <<Codegen!V(f, 1)>>, <<Codegen!B(f, 1), Codegen!B(f, 2)>>),
                     Codegen!Position(Codegen!B(f, 1)), Codegen!Scoped(ks[2])>>
  OBVIOUS
<1>c2. PICK c2 : c2 = IF u2 THEN <<>> ELSE <<br>>
  OBVIOUS
<1>b. PICK b : b = <<Codegen!Position(Codegen!B(f, 2))>>
  OBVIOUS
<1>d. PICK d : d = IF t THEN <<Codegen!Scoped(ks[3])>> ELSE <<br>>
  OBVIOUS
<1>c3. PICK c3 : c3 = IF ~t \/ u3 THEN <<>> ELSE <<br>>
  OBVIOUS
<1>e. PICK e : e = <<Codegen!Position(Codegen!B(f, 3))>>
  OBVIOUS
<1>h. PICK h : h = Codegen!Goto("unreachable", <<>>, <<>>)
  OBVIOUS
<1>o. PICK yes \in BOOLEAN, no \in BOOLEAN : yes /\ ~no
  OBVIOUS
<1>z. PICK z : z = IF t /\ u2 /\ u3 THEN <<h, Codegen!Flow(yes)>> ELSE <<Codegen!Flow(no)>>
  OBVIOUS
<1>2. ((((a \o c2) \o b) \o (d \o c3)) \o e) \o z = Codegen!CodegenIf(f, nd)
  <2>1. Codegen!BranchUnless(Codegen!V(f, 2), Codegen!B(f, 3)) = c2
    BY <1>u2, <1>br, <1>c2 DEF Codegen!BranchUnless, Ended
  <2>2. d \o c3 = IF Len(ks) = 3 THEN <<Codegen!Scoped(ks[3])>> \o Codegen!BranchUnless(Codegen!V(f, 3), Codegen!B(f, 3))
                  ELSE <<br>>
    <3>1. CASE t
      BY <1>t, <1>u3, <1>br, <1>c3, <1>d, <3>1 DEF Codegen!BranchUnless, Ended
    <3>2. CASE ~t
      <4>1. d \o c3 = <<br>> \o <<>>
        BY <1>c3, <1>d, <3>2
      <4> QED BY <1>t, <3>2, <4>1
    <3> QED BY <3>1, <3>2
  <2>3. z = IF Len(ks) = 3 /\ Ended(Codegen!V(f, 2)) /\ Ended(Codegen!V(f, 3))
            THEN <<Codegen!Goto("unreachable", <<>>, <<>>), Codegen!Flow(TRUE)>> ELSE <<Codegen!Flow(FALSE)>>
    BY <1>t, <1>u2, <1>u3, <1>h, <1>o, <1>z DEF Codegen!Flow
  <2> QED BY <1>ks, <1>a, <1>b, <1>e, <1>br, <2>1, <2>2, <2>3 DEF Codegen!CodegenIf, Ended
<1>p. PICK p : p = Codegen!StmtPlan(f, nd)
  OBVIOUS
<1>3. Codegen!StepOf(f) = Taken(p, f.pc) /\ p = ((((a \o c2) \o b) \o (d \o c3)) \o e) \o z
  <2>1. Codegen!StepOf(f) = Taken(p, f.pc)
    BY <1>nd, <1>p, PlanOf DEF IsBlock, ExprKind
  <2>2. p = Codegen!CodegenIf(f, nd)
    BY <1>1, <1>p DEF Codegen!StmtPlan
  <2> QED BY <1>2, <2>1, <2>2
<1>5. /\ IsSeq(a) /\ Len(a) = 5 /\ IsSeq(b) /\ Len(b) = 1 /\ IsSeq(d) /\ Len(d) = 1 /\ IsSeq(e) /\ Len(e) = 1
      /\ IsSeq(c2) /\ Len(c2) = (IF u2 THEN 0 ELSE 1) /\ IsSeq(c3) /\ Len(c3) = (IF ~t \/ u3 THEN 0 ELSE 1) /\ IsSeq(z)
  BY <1>a, <1>b, <1>d, <1>e, <1>c2, <1>c3, <1>z, Tuple5, SeqSmall
<1>6. /\ Taken(b, 1) = Codegen!Position(Codegen!B(f, 2)) /\ Taken(e, 1) = Codegen!Position(Codegen!B(f, 3))
      /\ Taken(d, 1) = IF t THEN Codegen!Scoped(ks[3]) ELSE br
      /\ ~u2 => Taken(c2, 1) = br
      /\ t /\ ~u3 => Taken(c3, 1) = br
  BY <1>b, <1>d, <1>e, <1>c2, <1>c3, TakenOne
<1>7. f.pc \in Nat \ {0}
  BY DEF Good
<1>8. IfParts(a, c2, b, d, c3, e, z, p, f.pc)
  <2>1. Len(c2) \in {0, 1} /\ Len(c3) \in {0, 1}
    BY <1>5
  <2> QED BY <1>3, <1>5, <1>7, <2>1, IfTaken
<1>l. PICK l2, l3 : l2 = Len(c2) /\ l3 = Len(c3)
  OBVIOUS
<1>9. LET k == f.pc  s == Codegen!StepOf(f)
      IN  /\ k <= 5 => s = Taken(a, k)
          /\ k = 6 /\ ~u2 => s = br
          /\ k = 6 + l2 => s = Codegen!Position(Codegen!B(f, 2))
          /\ k = 7 + l2 => s = IF t THEN Codegen!Scoped(ks[3]) ELSE br
          /\ k = 8 + l2 /\ t /\ ~u3 => s = br
          /\ k = 8 + l2 + l3 => s = Codegen!Position(Codegen!B(f, 3))
          /\ k > 8 + l2 + l3 => s = Taken(z, k - 8 - l2 - l3)
  BY <1>3, <1>5, <1>6, <1>8, <1>l DEF IfParts
<1>s. PICK s, k : s = Codegen!StepOf(f) /\ k = f.pc
  OBVIOUS
<1>r. PICK r2 \in BOOLEAN, r3 \in BOOLEAN, rm \in BOOLEAN :
        (r2 <=> MustReturn(ks[2])) /\ (r3 <=> ~t \/ MustReturn(ks[3])) /\ (rm <=> MustReturn(f.n))
  OBVIOUS
<1>w. PICK s2, s3 : s2 = (IF r2 THEN 1 ELSE 0) /\ s3 = (IF r3 THEN 1 ELSE 0)
  OBVIOUS
<1>10. q = IF k <= 5 THEN k ELSE IF k + s2 <= 8 THEN k + s2
           ELSE IF k + s2 + s3 = 11 /\ ~rm THEN 12 ELSE k + s2 + s3
  <2>1. Skip(MustReturn(ks[2])) = s2
    BY <1>r, <1>w DEF Skip
  <2>2. Skip(Len(ks) = 2 \/ MustReturn(ks[3])) = s3
    <3>1. Len(ks) = 2 <=> ~t
      BY <1>1, <1>t
    <3> QED BY <1>r, <1>w, <3>1 DEF Skip
  <2> QED BY <1>1, <1>q, <1>s, <1>r, <2>1, <2>2 DEF IfPoint
<1>11. /\ q >= 6 => (u2 <=> r2)
       /\ q >= 9 => (~t \/ u3 <=> r3)
       /\ rm <=> t /\ r2 /\ r3
  <2>1. rm <=> t /\ r2 /\ r3
    BY <1>1, <1>t, <1>r, IfKids
  <2> QED BY <1>1, <1>q, <1>t, <1>u2, <1>u3, <1>r, <2>1, IfValues
<1>12. /\ q >= 6 => l2 = 1 - s2
       /\ q >= 9 => l3 = 1 - s3
  BY <1>5, <1>l, <1>w, <1>11
<1>13. k \in Nat \ {0} /\ s2 \in {0, 1} /\ s3 \in {0, 1} /\ (s2 = 0 <=> ~r2) /\ (s3 = 0 <=> ~r3)
  BY <1>7, <1>s, <1>w
<1>14. q \in 1 .. 5 => s = Taken(a, q)
  BY <1>9, <1>10, <1>13, <1>s
<1>15. q = 6 => s = br
  <2>1. ASSUME q = 6 PROVE k = 6 /\ ~u2
    BY <1>10, <1>11, <1>13, <2>1
  <2> QED BY <1>9, <1>s, <2>1
<1>16. q = 7 => s = Codegen!Position(Codegen!B(f, 2))
  <2>1. ASSUME q = 7 PROVE k = 6 + l2
    BY <1>10, <1>12, <1>13, <2>1
  <2> QED BY <1>9, <1>s, <2>1
<1>17. q = 8 => s = IF t THEN Codegen!Scoped(ks[3]) ELSE br
  <2>1. ASSUME q = 8 PROVE k = 7 + l2
    BY <1>10, <1>12, <1>13, <2>1
  <2> QED BY <1>9, <1>s, <2>1
<1>18. q = 9 => s = br
  <2>1. ASSUME q = 9 PROVE k = 8 + l2 /\ t /\ ~u3
    BY <1>10, <1>11, <1>12, <1>13, <2>1
  <2> QED BY <1>9, <1>s, <2>1
<1>19. q = 10 => s = Codegen!Position(Codegen!B(f, 3))
  <2>1. ASSUME q = 10 PROVE k = 8 + l2 + l3
    BY <1>10, <1>12, <1>13, <2>1
  <2> QED BY <1>9, <1>s, <2>1
<1>20. /\ q = 11 => s = Taken(z, 1) /\ rm
       /\ q = 12 /\ rm => s = Taken(z, 2)
       /\ q = 12 => s \in {Taken(z, 1), Taken(z, 2)}
  <2>1. q \in {11, 12} => s = Taken(z, k - 8 - l2 - l3)
    <3>1. q \in {11, 12} => k > 8 + l2 + l3
      BY <1>10, <1>12, <1>13
    <3> QED BY <1>9, <1>s, <3>1
  <2>2. PlacedIf(f)
    BY IfIs DEF Good
  <2>3. q = 11 => rm
    BY <1>q, <1>r, <2>2 DEF PlacedIf
  <2>j. PICK j : j = k - 8 - l2 - l3
    OBVIOUS
  <2>4. /\ q = 11 => j = 1
        /\ q = 12 /\ rm => j = 2
        /\ q = 12 => j \in {1, 2}
    BY <1>10, <1>12, <1>13, <2>3, <2>j
  <2> QED BY <2>1, <2>3, <2>4, <2>j
<1>21. /\ q >= 9 /\ rm => Taken(z, 1) = h /\ Taken(z, 2) = Codegen!Flow(yes)
       /\ q >= 9 /\ ~rm => Taken(z, 1) = Codegen!Flow(no) /\ Taken(z, 2) = Codegen!Unreachable
  <2>1. q >= 9 => (t /\ u2 /\ u3 <=> rm)
    <3>1. q \in 1 .. 12
      <4>1. PlacedIf(f)
        BY IfIs DEF Good
      <4> QED BY <1>q, <4>1 DEF PlacedIf
    <3>2. q >= 9 => q >= 6
      BY <3>1
    <3> QED BY <1>11, <3>2
  <2>2. ASSUME q >= 9, rm PROVE Taken(z, 1) = h /\ Taken(z, 2) = Codegen!Flow(yes)
    BY <1>z, <2>1, <2>2, Tuple2
  <2>3. ASSUME q >= 9, ~rm PROVE Taken(z, 1) = Codegen!Flow(no) /\ Taken(z, 2) = Codegen!Unreachable
    BY <1>z, <2>1, <2>3, TakenOne
  <2> QED BY <2>2, <2>3
<1>22. q = 11 => s = h
  BY <1>20, <1>21
<1>23. \A on \in BOOLEAN : q = 12 /\ (on <=> rm) => s \in {Codegen!Flow(on), Codegen!Unreachable}
  <2>1. SUFFICES ASSUME NEW on \in BOOLEAN, q = 12, on <=> rm PROVE s \in {Codegen!Flow(on), Codegen!Unreachable}
    OBVIOUS
  <2>2. CASE rm
    <3>1. Codegen!Flow(on) = Codegen!Flow(yes)
      BY <1>o, <2>1, <2>2 DEF Codegen!Flow
    <3> QED BY <1>20, <1>21, <2>1, <2>2, <3>1
  <2>3. CASE ~rm
    <3>1. Codegen!Flow(on) = Codegen!Flow(no)
      BY <1>o, <2>1, <2>3 DEF Codegen!Flow
    <3> QED BY <1>20, <1>21, <2>1, <2>3, <3>1
  <2> QED BY <2>2, <2>3
<1>24. /\ q = 1 => s = Codegen!Value(ks[1])
       /\ q = 2 => s = Codegen!Blocks(3)
       /\ q = 3 => s = Codegen!Goto("condbr", <<Codegen!V(f, 1)>>, <<Codegen!B(f, 1), Codegen!B(f, 2)>>)
       /\ q = 4 => s = Codegen!Position(Codegen!B(f, 1))
       /\ q = 5 => s = Codegen!Scoped(ks[2])
  <2>1. q \in {1, 2, 3, 4, 5} => s = Taken(a, q)
    BY <1>14
  <2>2. /\ Taken(a, 1) = Codegen!Value(ks[1]) /\ Taken(a, 2) = Codegen!Blocks(3)
        /\ Taken(a, 3) = Codegen!Goto("condbr", <<Codegen!V(f, 1)>>, <<Codegen!B(f, 1), Codegen!B(f, 2)>>)
        /\ Taken(a, 4) = Codegen!Position(Codegen!B(f, 1)) /\ Taken(a, 5) = Codegen!Scoped(ks[2])
    BY <1>a, Tuple5
  <2> QED BY <2>1, <2>2
<1> QED BY <1>1, <1>q, <1>s, <1>t, <1>r, <1>br, <1>h, <1>15, <1>16, <1>17, <1>18, <1>19, <1>22, <1>23, <1>24 DEF IfStep

\* Where a step takes an if.
LEMMA IfNext ==
  ASSUME Vetted, NEW f, Good(f), Kind(f) = "If", NEW g, NEW m \in Nat, NEW k \in Nat, Moves(f, g, m, k)
  PROVE  /\ Kind(g) = "If" /\ Kids(g) = Kids(f) /\ g.n = f.n
         /\ LET q == IfPoint(f)  o == IfPoint(g)  ks == Kids(f)
            IN  /\ q \in {1, 2, 3, 4, 6, 7, 9, 11} => o = q + 1
                /\ q = 5 => o = IF MustReturn(ks[2]) THEN 7 ELSE 6
                /\ q = 8 => o = IF Len(ks) = 2 \/ MustReturn(ks[3]) THEN 10 ELSE 9
                /\ q = 10 => o = IF MustReturn(f.n) THEN 11 ELSE 12
<1>1. /\ Kind(g) = "If" /\ Kids(g) = Kids(f) /\ g.n = f.n /\ g.pc = f.pc + 1 /\ f.pc \in Nat \ {0}
  BY MovesKeeps
<1>ks. PICK ks : ks = Kids(f)
  OBVIOUS
<1>r. PICK r2 \in BOOLEAN, r3 \in BOOLEAN, rm \in BOOLEAN :
        (r2 <=> MustReturn(ks[2])) /\ (r3 <=> Len(ks) = 2 \/ MustReturn(ks[3])) /\ (rm <=> MustReturn(f.n))
  OBVIOUS
<1>s. PICK s2, s3 : s2 = (IF r2 THEN 1 ELSE 0) /\ s3 = (IF r3 THEN 1 ELSE 0)
  OBVIOUS
<1>p. PICK p, q, o : p = f.pc /\ q = IfPoint(f) /\ o = IfPoint(g)
  OBVIOUS
<1>2. Skip(MustReturn(ks[2])) = s2 /\ Skip(Len(ks) = 2 \/ MustReturn(ks[3])) = s3
  <2>1. Skip(MustReturn(ks[2])) = s2
    BY <1>r, <1>s DEF Skip
  <2>2. Skip(Len(ks) = 2 \/ MustReturn(ks[3])) = s3
    BY <1>r, <1>s DEF Skip
  <2> QED BY <2>1, <2>2
<1>3. q = IF p <= 5 THEN p ELSE IF p + s2 <= 8 THEN p + s2
          ELSE IF p + s2 + s3 = 11 /\ ~rm THEN 12 ELSE p + s2 + s3
  BY <1>ks, <1>r, <1>p, <1>2 DEF IfPoint
<1>4. o = IF p + 1 <= 5 THEN p + 1 ELSE IF p + 1 + s2 <= 8 THEN p + 1 + s2
          ELSE IF p + 1 + s2 + s3 = 11 /\ ~rm THEN 12 ELSE p + 1 + s2 + s3
  BY <1>1, <1>ks, <1>r, <1>p, <1>2 DEF IfPoint
<1>5. p \in Nat \ {0} /\ s2 \in {0, 1} /\ s3 \in {0, 1} /\ (s2 = 1 <=> r2) /\ (s3 = 1 <=> r3)
  BY <1>1, <1>s, <1>p
<1>6. q = 11 => rm
  <2>1. PlacedIf(f)
    BY IfIs DEF Good
  <2> QED BY <1>r, <1>p, <2>1 DEF PlacedIf
<1>7. rm => r2 /\ r3
  BY <1>ks, <1>r, IfKids
<1>8. q \in {1, 2, 3, 4, 6, 7, 9, 11} => o = q + 1
  BY <1>3, <1>4, <1>5, <1>6, <1>7
<1>9. q = 5 => o = IF r2 THEN 7 ELSE 6
  BY <1>3, <1>4, <1>5
<1>10. q = 8 => o = IF r3 THEN 10 ELSE 9
  BY <1>3, <1>4, <1>5
<1>11. q = 10 => o = IF rm THEN 11 ELSE 12
  BY <1>3, <1>4, <1>5, <1>7
<1> QED BY <1>1, <1>ks, <1>r, <1>p, <1>8, <1>9, <1>10, <1>11

\* An if in its place stays so, when what a child gives it says what the child is.
IfGiven(f, g, m, k) ==
  LET q == IfPoint(f)  ks == Kids(f)
  IN  /\ q \in 1 .. 11
      /\ k = IF q = 2 THEN 3 ELSE 0
      /\ m = IF q \in {1, 5} \/ (q = 8 /\ Len(ks) = 3) THEN 1 ELSE 0
      /\ q = 5 => (Ended(g.vs[Len(f.vs) + 1]) <=> MustReturn(ks[2]))
      /\ q = 8 /\ Len(ks) = 3 => (Ended(g.vs[Len(f.vs) + 1]) <=> MustReturn(ks[3]))

LEMMA IfStays ==
  ASSUME Vetted, NEW f, Good(f), Kind(f) = "If", NEW g, NEW m \in Nat, NEW k \in Nat, Moves(f, g, m, k),
         IfGiven(f, g, m, k)
  PROVE  Good(g)
<1>ks. PICK ks, kn, q : ks = Kids(f) /\ kn = Len(ks) /\ q = IfPoint(f)
  OBVIOUS
<1>q. /\ q \in 1 .. 11
      /\ k = IF q = 2 THEN 3 ELSE 0
      /\ m = IF q \in {1, 5} \/ (q = 8 /\ kn = 3) THEN 1 ELSE 0
      /\ q = 5 => (Ended(g.vs[Len(f.vs) + 1]) <=> MustReturn(ks[2]))
      /\ q = 8 /\ kn = 3 => (Ended(g.vs[Len(f.vs) + 1]) <=> MustReturn(ks[3]))
  BY <1>ks DEF IfGiven
<1>o. PICK o : o = IfPoint(g)
  OBVIOUS
<1>1. /\ Kind(g) = "If" /\ Kids(g) = ks /\ g.n = f.n
      /\ q \in {1, 2, 3, 4, 6, 7, 9, 11} => o = q + 1
      /\ q = 5 => o = IF MustReturn(ks[2]) THEN 7 ELSE 6
      /\ q = 8 => o = IF kn = 2 \/ MustReturn(ks[3]) THEN 10 ELSE 9
      /\ q = 10 => o = IF MustReturn(f.n) THEN 11 ELSE 12
  BY <1>ks, <1>o, IfNext
<1>2. /\ Len(f.vs) \in Nat /\ Len(f.bbs) \in Nat /\ Len(g.vs) = Len(f.vs) + m /\ Len(g.bbs) = Len(f.bbs) + k
      /\ Placed(g) => Good(g)
  BY MovesKeeps
<1>3. PICK l, n, c, d : l = Len(f.vs) /\ n = Len(g.vs) /\ c = Len(f.bbs) /\ d = Len(g.bbs)
  OBVIOUS
<1>5. /\ IF q <= 2 THEN f.bbs = <<>> ELSE c = 3
      /\ l = IF q = 1 THEN 0 ELSE IF q <= 5 THEN 1 ELSE IF q <= 8 THEN 2 ELSE kn
      /\ Answer(f, 2, 2) /\ (kn = 3 => Answer(f, 3, 3))
  <2>1. PlacedIf(f)
    BY IfIs DEF Good
  <2> QED BY <1>3, <1>ks, <2>1 DEF PlacedIf
<1>6. kn \in {2, 3}
  BY <1>ks, IfKids
<1>7. /\ o \in 1 .. 12 /\ (o = 11 => MustReturn(f.n)) /\ (o <= 2 <=> q = 1) /\ o # 1 /\ (o <= 5 <=> q <= 4)
      /\ (o <= 8 <=> q <= 7)
  <2>1. q \in {1, 2, 3, 4, 5, 6, 7, 8, 9, 10, 11}
    BY <1>q
  <2> QED BY <1>1, <2>1
<1>8. IF o <= 2 THEN g.bbs = <<>> ELSE d = 3
  <2>1. CASE q = 1
    <3>1. c = 0
      BY <1>3, <1>5, <2>1
    <3>2. d = 0 /\ IsSeq(g.bbs)
      BY <1>2, <1>3, <1>q, <2>1, <3>1 DEF Moves
    <3>3. g.bbs = <<>>
      BY <1>3, <3>2, SeqEmpty
    <3> QED BY <1>7, <2>1, <3>3
  <2>2. CASE q = 2
    <3>1. c = 0
      BY <1>3, <1>5, <2>2
    <3> QED BY <1>2, <1>3, <1>7, <1>q, <2>2, <3>1
  <2>3. CASE q > 2
    <3>1. c = 3 /\ k = 0 /\ d = c + k /\ ~(o <= 2)
      BY <1>2, <1>3, <1>5, <1>7, <1>q, <2>3
    <3> QED BY <3>1
  <2> QED BY <1>q, <2>1, <2>2, <2>3
<1>9. n = l + m /\ l \in Nat
  BY <1>2, <1>3
<1>10. n = IF o = 1 THEN 0 ELSE IF o <= 5 THEN 1 ELSE IF o <= 8 THEN 2 ELSE kn
  BY <1>5, <1>6, <1>7, <1>9, <1>q
<1>11. \A i \in 1 .. l : g.vs[i] = f.vs[i]
  BY <1>3 DEF Moves
<1>12. Answer(g, 2, 2)
  <2>1. PICK i : i = 2
    OBVIOUS
  <2>2. SUFFICES ASSUME i \in 1 .. n PROVE Ended(g.vs[i]) <=> MustReturn(ks[2])
    BY <1>1, <1>3, <2>1 DEF Answer
  <2>3. CASE q = 5
    <3>1. l + 1 = i
      BY <1>5, <2>1, <2>3
    <3> QED BY <1>3, <1>q, <2>3, <3>1
  <2>4. CASE q # 5
    <3>1. i \in 1 .. l
      BY <1>5, <1>6, <1>9, <1>q, <2>1, <2>2, <2>4
    <3> QED BY <1>3, <1>5, <1>11, <1>ks, <2>1, <3>1 DEF Answer
  <2> QED BY <2>3, <2>4
<1>13. ASSUME kn = 3 PROVE Answer(g, 3, 3)
  <2>1. PICK i : i = 3
    OBVIOUS
  <2>2. SUFFICES ASSUME i \in 1 .. n PROVE Ended(g.vs[i]) <=> MustReturn(ks[3])
    BY <1>1, <1>3, <2>1 DEF Answer
  <2>3. CASE q = 8
    <3>1. l + 1 = i
      BY <1>5, <2>1, <2>3
    <3> QED BY <1>3, <1>q, <1>13, <2>3, <3>1
  <2>4. CASE q # 8
    <3>1. i \in 1 .. l
      BY <1>5, <1>6, <1>9, <1>q, <2>1, <2>2, <2>4
    <3> QED BY <1>3, <1>5, <1>11, <1>13, <1>ks, <2>1, <3>1 DEF Answer
  <2> QED BY <2>3, <2>4
<1>14. PlacedIf(g)
  BY <1>1, <1>o, <1>ks, <1>3, <1>7, <1>8, <1>10, <1>12, <1>13 DEF PlacedIf
<1> QED BY <1>1, <1>2, <1>14, IfIs

LEMMA IfSteps ==
  ASSUME Vetted, NEW f, Good(f), Kind(f) = "If"
  PROVE  Does(f, Codegen!StepOf(f))
<1>s. PICK s : s = Codegen!StepOf(f)
  OBVIOUS
<1>q. PICK q : q = IfPoint(f)
  OBVIOUS
<1>ks. PICK ks, kn : ks = Kids(f) /\ kn = Len(ks)
  OBVIOUS
<1>r. PICK rm \in BOOLEAN : rm <=> MustReturn(f.n)
  OBVIOUS
<1>1. /\ Live(f) <=> q \notin {4, 7, 10} /\ (q = 12 => ~rm)
      /\ Pending(f) = Among(q, 3 .. 4, 5 .. 7, 8 .. 10)
      /\ PlacedIf(f)
  BY <1>q, <1>r, IfIs DEF Good
<1>2. q \in 1 .. 12 /\ (q <= 2 => f.bbs = <<>>) /\ (q > 2 => Len(f.bbs) = 3) /\ (q = 11 => rm)
  BY <1>1, <1>q, <1>r DEF PlacedIf
<1>3. IfStep(f, s)
  BY <1>s, IfStepAt
<1>4. Kind(f) \notin ExprKind
  BY DEF ExprKind
<1>5. /\ kn \in {2, 3} /\ Nodes[ks[1]].k \in ExprKind /\ Nodes[ks[2]].k \notin ExprKind
      /\ kn = 3 => Nodes[ks[3]].k \notin ExprKind
      /\ rm <=> kn = 3 /\ MustReturn(ks[2]) /\ MustReturn(ks[3])
  BY <1>ks, <1>r, IfKids, KindsApart

\* What a step other than an answer does.
<1>6. ASSUME NEW g, NEW m, NEW k, m \in Nat, k \in Nat, Moves(f, g, m, k), IfGiven(f, g, m, k)
      PROVE  /\ Good(g)
             /\ Live(g) <=> /\ q \notin {3, 6, 9, 11} /\ ~(q = 5 /\ MustReturn(ks[2]))
                            /\ ~(q = 8 /\ (kn = 2 \/ MustReturn(ks[3])))
             /\ Pending(g) = Among(q, 2 .. 3, 4 .. 6, 7 .. 9)
  <2>1. Good(g)
    BY <1>6, IfStays
  <2>2. PICK o : o = IfPoint(g)
    OBVIOUS
  <2>3. /\ Kind(g) = "If" /\ g.n = f.n
        /\ q \in {1, 2, 3, 4, 6, 7, 9, 11} => o = q + 1
        /\ q = 5 => o = IF MustReturn(ks[2]) THEN 7 ELSE 6
        /\ q = 8 => o = IF kn = 2 \/ MustReturn(ks[3]) THEN 10 ELSE 9
        /\ q = 10 => o = IF MustReturn(f.n) THEN 11 ELSE 12
    BY <1>6, <1>q, <1>ks, <2>2, IfNext
  <2>4. (Live(g) <=> o \notin {4, 7, 10} /\ (o = 12 => ~rm)) /\ Pending(g) = Among(o, 3 .. 4, 5 .. 7, 8 .. 10)
    BY <1>r, <2>2, <2>3, IfIs
  <2>5. q \in {1, 2, 3, 4, 5, 6, 7, 8, 9, 10, 11}
    BY <1>6, <1>q DEF IfGiven
  <2> QED BY <1>2, <1>r, <2>1, <2>3, <2>4, <2>5 DEF Among
<1>7. "br" \in Terminator /\ "condbr" \in Terminator /\ "unreachable" \in Terminator
  BY DEF Terminator, Codegen!Terminator
<1>8. \A g, m, k : (/\ q \in 1 .. 11
                    /\ k = IF q = 2 THEN 3 ELSE 0
                    /\ m = IF q \in {1, 5} \/ (q = 8 /\ kn = 3) THEN 1 ELSE 0
                    /\ q = 5 => (Ended(g.vs[Len(f.vs) + 1]) <=> MustReturn(ks[2]))
                    /\ q = 8 /\ kn = 3 => (Ended(g.vs[Len(f.vs) + 1]) <=> MustReturn(ks[3])))
                   => IfGiven(f, g, m, k)
  BY <1>q, <1>ks DEF IfGiven
<1>9. CASE q = 1
  <2>1. s = Codegen!Value(Kids(f)[1])
    BY <1>3, <1>q, <1>9 DEF IfStep
  <2>2. s.do = "value" /\ s.n = Kids(f)[1]
    BY <2>1 DEF Codegen!Value
  <2>3. PICK i : i = 1
    OBVIOUS
  <2>4. \A g : Moves(f, g, 1, 0) => Good(g) /\ Pending(g) = Pending(f) /\ Live(g)
    BY <1>1, <1>6, <1>8, <1>9 DEF Among
  <2>5. Live(f) /\ i \in 1 .. Len(Kids(f)) /\ Nodes[Kids(f)[i]].k \in ExprKind
    BY <1>1, <1>5, <1>ks, <1>9, <2>3
  <2>6. Does(f, s)
    BY <2>2, <2>3, <2>4, <2>5, ValueDoes
  <2> QED BY <1>s, <2>6
<1>10. CASE q = 2
  <2>1. s = Codegen!Blocks(3)
    BY <1>3, <1>q, <1>10 DEF IfStep
  <2>2. \A g : Moves(f, g, 0, 3) => Good(g) /\ Pending(g) = 1 .. 3 /\ (Live(g) <=> Live(f))
    BY <1>1, <1>6, <1>8, <1>10 DEF Among
  <2>3. f.bbs = <<>> /\ Pending(f) = {}
    BY <1>1, <1>2, <1>10 DEF Among
  <2> QED BY <1>s, <2>1, <2>2, <2>3, BlocksDoes
<1>11. CASE q \in {3, 6, 9, 11} \/ (q = 8 /\ kn = 2)
  <2>1. PICK op, as, to : s = Codegen!Goto(op, as, to) /\ op \in Terminator
    <3>1. CASE q = 3
      BY <1>3, <1>7, <1>q, <3>1 DEF IfStep
    <3>2. CASE q \in {6, 9}
      BY <1>3, <1>7, <1>q, <3>2 DEF IfStep
    <3>3. CASE q = 11
      BY <1>3, <1>7, <1>q, <3>3 DEF IfStep
    <3>4. CASE q = 8 /\ kn = 2
      BY <1>3, <1>7, <1>q, <1>ks, <3>4 DEF IfStep
    <3> QED BY <1>11, <3>1, <3>2, <3>3, <3>4
  <2>2. \A g : Moves(f, g, 0, 0) => Good(g) /\ Pending(g) = Pending(f) /\ ~Live(g)
    BY <1>1, <1>6, <1>8, <1>11 DEF Among
  <2>3. Live(f)
    BY <1>1, <1>11
  <2> QED BY <1>s, <2>1, <2>2, <2>3, GotoDoes
<1>12. CASE q \in {4, 7, 10}
  <2>1. PICK j \in {1, 2, 3} : s = Codegen!Position(Codegen!B(f, j)) /\ j = IF q = 4 THEN 1 ELSE IF q = 7 THEN 2 ELSE 3
    BY <1>3, <1>q, <1>12 DEF IfStep
  <2>2. \A g : Moves(f, g, 0, 0) => Good(g) /\ Pending(g) = Pending(f) \ {j} /\ Live(g)
    BY <1>1, <1>6, <1>8, <1>12, <2>1 DEF Among
  <2>3. j \in Pending(f) /\ j \in 1 .. Len(f.bbs)
    <3>1. j \in Pending(f)
      BY <1>1, <1>12, <2>1 DEF Among
    <3>2. Len(f.bbs) = 3
      BY <1>2, <1>12
    <3> QED BY <3>1, <3>2
  <2>4. ~Live(f)
    BY <1>1, <1>12
  <2> QED BY <1>s, <2>1, <2>2, <2>3, <2>4, PositionDoes
<1>13. CASE q = 5 \/ (q = 8 /\ kn = 3)
  <2>1. PICK i : i = IF q = 5 THEN 2 ELSE 3
    OBVIOUS
  <2>2. s = Codegen!Scoped(ks[i])
    BY <1>3, <1>q, <1>ks, <1>13, <2>1 DEF IfStep
  <2>3. s.do = "gen" /\ s.n = Kids(f)[i]
    BY <1>ks, <2>2 DEF Codegen!Scoped
  <2>4. Live(f)
    BY <1>1, <1>13
  <2>5. i \in 1 .. Len(Kids(f)) /\ Nodes[Kids(f)[i]].k \notin ExprKind
    BY <1>5, <1>ks, <1>13, <2>1
  <2>6. ASSUME NEW g, Moves(f, g, 1, 0), Gives(Kids(f)[i], g.vs[Len(f.vs) + 1])
        PROVE  Good(g) /\ Pending(g) = Pending(f) /\ (Live(g) <=> ~MustReturn(Kids(f)[i]))
    <3>1. Ended(g.vs[Len(f.vs) + 1]) <=> MustReturn(ks[i])
      BY <1>ks, <2>5, <2>6 DEF Gives
    <3>2. IfGiven(f, g, 1, 0)
      BY <1>8, <1>13, <2>1, <3>1
    <3>3. /\ Good(g)
          /\ Live(g) <=> /\ q \notin {3, 6, 9, 11} /\ ~(q = 5 /\ MustReturn(ks[2]))
                         /\ ~(q = 8 /\ (kn = 2 \/ MustReturn(ks[3])))
          /\ Pending(g) = Among(q, 2 .. 3, 4 .. 6, 7 .. 9)
      BY <1>6, <2>6, <3>2
    <3> QED BY <1>1, <1>ks, <1>13, <2>1, <3>3 DEF Among
  <2>7. Does(f, s)
    BY <2>3, <2>4, <2>5, <2>6, GenDoes
  <2> QED BY <1>s, <2>7
<1>14. CASE q = 12
  <2>1. s \in {Codegen!Flow(rm), Codegen!Unreachable}
    BY <1>3, <1>q, <1>r, <1>14 DEF IfStep
  <2>2. Pending(f) = {} /\ (Live(f) <=> ~rm)
    BY <1>1, <1>14 DEF Among
  <2>3. CASE s = Codegen!Flow(rm)
    BY <1>s, <1>4, <1>r, <2>2, <2>3, FlowDoes
  <2>4. CASE s = Codegen!Unreachable
    BY <1>s, <2>4 DEF Does, Codegen!Unreachable
  <2> QED BY <2>1, <2>3, <2>4
<1>15. q \in {1, 2, 3, 4, 5, 6, 7, 8, 9, 10, 11, 12}
  BY <1>2
<1> QED BY <1>5, <1>15, <1>9, <1>10, <1>11, <1>12, <1>13, <1>14

\* Every step of every activation.
LEMMA FrameSteps ==
  ASSUME Vetted, NEW f, Good(f)
  PROVE  Does(f, Codegen!StepOf(f))
<1>1. Kind(f) \in ExprKind \cup StmtKind \cup {"Func"}
  BY DEF Good
<1>2. IsLazy(f) \/ Kind(f) = "Ternary" \/ Kind(f) = "Return" \/ Kind(f) = "If" \/ IsLoop(f) \/ IsBlock(f) \/ Simple(f)
  BY <1>1 DEF Simple, IsLoop, IsBlock, ExprKind, StmtKind
<1> QED BY <1>2, LazySteps, TernarySteps, ReturnSteps, IfSteps, LoopSteps, BlockSteps, SimpleSteps

\* And where it begins.
LEMMA FreshFrame ==
  ASSUME Vetted, NEW n \in NodesOf(prog), Nodes[n].k \in ExprKind \cup StmtKind \cup {"Func"}, NEW owned,
         NEW f, f = Codegen!Frame(n, owned)
  PROVE  Good(f) /\ Live(f) /\ Pending(f) = {} /\ f.n = n
<1>1. /\ f = [n |-> n, pc |-> 1, owned |-> owned, vs |-> <<>>, bbs |-> <<>>]
      /\ f.n = n /\ f.pc = 1 /\ f.owned = owned /\ f.vs = <<>> /\ f.bbs = <<>> /\ Kind(f) = Nodes[n].k /\ Kids(f) = Nodes[n].kids
  BY DEF Codegen!Frame, Kind, Kids
<1>2. IsSeq(f.vs) /\ IsSeq(f.bbs) /\ Len(f.vs) = 0 /\ Len(f.bbs) = 0
  BY <1>1, SeqSmall
<1>3. IsSeq(Kids(f)) /\ Len(Kids(f)) \in Nat
  <2>1. IsSeq(Kids(f))
    BY <1>1, KidsOf
  <2> QED BY <2>1, SeqFacts
<1>4. f.pc \in Nat \ {0} /\ \A i, j : Answer(f, i, j)
  BY <1>1, <1>2 DEF Answer
<1>5. Live(f) /\ Pending(f) = {} /\ Placed(f)
  <2>1. CASE IsLazy(f)
    BY <1>1, <2>1, LazyIs
  <2>2. CASE Kind(f) = "Ternary"
    BY <1>1, <2>2, TernaryIs DEF Among
  <2>3. CASE Kind(f) = "Return"
    BY <1>1, <1>3, <2>3, ReturnIs
  <2>4. CASE Kind(f) = "If"
    <3>1. IfPoint(f) = 1
      BY <1>1 DEF IfPoint
    <3>2. PlacedIf(f)
      BY <1>1, <1>2, <1>4, <3>1 DEF PlacedIf
    <3> QED BY <2>4, <3>1, <3>2, IfIs DEF Among
  <2>5. CASE IsLoop(f)
    <3>1. PICK b : b = Before(f) /\ b \in {0, 1}
      BY DEF Before
    <3>2. LoopPoint(f) = 1 - b
      BY <1>1, <3>1 DEF LoopPoint
    <3>3. PlacedLoop(f)
      BY <1>1, <1>2, <3>1, <3>2 DEF PlacedLoop
    <3> QED BY <2>5, <3>1, <3>2, <3>3, LoopIs DEF Among
  <2>6. CASE IsBlock(f)
    <3>1. ~Ended(Codegen!Last(f))
      BY <1>2, LastIs
    <3>2. PlacedBlock(f)
      BY <1>2, <1>3 DEF PlacedBlock
    <3> QED BY <2>6, <3>1, <3>2, BlockIs
  <2>7. CASE Simple(f)
    <3>1. Kind(f) \notin {"Ternary", "Return", "If"} /\ ~IsLoop(f) /\ ~IsBlock(f) /\ ~IsLazy(f)
      BY <2>7 DEF Simple, ExprKind, IsLoop, IsBlock
    <3> QED BY <3>1 DEF Live, Pending, Placed
  <2>8. IsLazy(f) \/ Kind(f) = "Ternary" \/ Kind(f) = "Return" \/ Kind(f) = "If" \/ IsLoop(f) \/ IsBlock(f) \/ Simple(f)
    BY <1>1 DEF Simple, IsLoop, IsBlock, ExprKind, StmtKind
  <2> QED BY <2>1, <2>2, <2>3, <2>4, <2>5, <2>6, <2>7, <2>8
<1>6. f = [n |-> f.n, pc |-> f.pc, owned |-> f.owned, vs |-> f.vs, bbs |-> f.bbs]
  BY <1>1
<1> QED BY <1>1, <1>2, <1>4, <1>5, <1>6 DEF Good
-----------------------------------------------------------------------------
(***************************************************************************)
(* The blocks.                                                             *)
(***************************************************************************)
Block(b) == b = [fn |-> b.fn, code |-> b.code]
Clean(c) == IsSeq(c) /\ \A i \in 1 .. Len(c) - 1 : c[i].op \notin Terminator
Full(c)  == c # <<>> /\ c[Len(c)].op \in Terminator

\* Every block is full but the builder's, if it is, and those that wait: W holds for each
\* of them the activation that has appended it and has not come to it, which of its blocks
\* it is, and the block.
BlocksOK(bs, b, W) ==
  /\ IsSeq(bs) /\ \A i \in 1 .. Len(bs) : Block(bs[i]) /\ Clean(bs[i].code)
  /\ \A w \in W : /\ w[3] \in 1 .. Len(bs) /\ w[3] # b /\ bs[w[3]].fn = bs[b].fn /\ ~Full(bs[w[3]].code)
                  /\ \A w2 \in W : w2[3] = w[3] => w2 = w
  /\ \A i \in 1 .. Len(bs) : Full(bs[i].code) \/ i = b \/ \E w \in W : w[3] = i

\* Code that grows.
LEMMA CleanNone == Clean(<<>>) /\ ~Full(<<>>)
  BY SeqSmall DEF Clean, Full

LEMMA CleanAppend ==
  ASSUME NEW c, Clean(c), ~Full(c), NEW x
  PROVE  Clean(Append(c, x)) /\ (Full(Append(c, x)) <=> x.op \in Terminator)
<1>1. PICK m : m = Len(c)
  OBVIOUS
<1>2. PICK d : d = Append(c, x)
  OBVIOUS
<1>3. m \in Nat /\ IsSeq(c) /\ \A i \in 1 .. m - 1 : c[i].op \notin Terminator
  BY <1>1, SeqFacts DEF Clean
<1>4. IsSeq(d) /\ Len(d) = m + 1 /\ d[m + 1] = x /\ \A i \in 1 .. m : d[i] = c[i]
  BY <1>1, <1>2, <1>3, SeqAppend
<1>5. m # 0 => c[m].op \notin Terminator
  BY <1>1, <1>3, SeqSmall DEF Full
<1>6. \A i \in 1 .. Len(d) - 1 : d[i].op \notin Terminator
  BY <1>3, <1>4, <1>5
<1>7. d # <<>>
  BY <1>3, <1>4, SeqSmall
<1> QED BY <1>2, <1>4, <1>6, <1>7 DEF Clean, Full

LEMMA CleanPrepend ==
  ASSUME NEW c, Clean(c), NEW x, x.op \notin Terminator
  PROVE  Clean(<<x>> \o c) /\ (Full(<<x>> \o c) <=> Full(c))
<1>1. PICK m : m = Len(c)
  OBVIOUS
<1>2. PICK d : d = <<x>> \o c
  OBVIOUS
<1>3. m \in Nat /\ IsSeq(c) /\ \A i \in 1 .. m - 1 : c[i].op \notin Terminator
  BY <1>1, SeqFacts DEF Clean
<1>0. PICK y : y = <<x>>
  OBVIOUS
<1>9. IsSeq(y) /\ Len(y) = 1 /\ y[1] = x
  BY <1>0, SeqSmall
<1>4. IsSeq(d) /\ Len(d) = 1 + m /\ d[1] = x /\ \A i \in 1 .. m : d[1 + i] = c[i]
  <2>1. d = y \o c /\ 1 \in 1 .. Len(y)
    BY <1>0, <1>2, <1>9
  <2>2. IsSeq(d) /\ Len(d) = Len(y) + Len(c)
    BY <1>3, <1>9, <2>1, SeqIs, SeqLen
  <2>3. d[1] = y[1]
    BY <1>3, <1>9, <2>1, SeqLeft
  <2>4. \A i \in 1 .. Len(c) : d[Len(y) + i] = c[i]
    BY <1>3, <1>9, <2>1, SeqRight
  <2> QED BY <1>1, <1>9, <2>2, <2>3, <2>4
<1>5. \A i \in 1 .. Len(d) - 1 : d[i].op \notin Terminator
  <2>1. TAKE i \in 1 .. Len(d) - 1
  <2>2. CASE i = 1
    BY <1>4, <2>2
  <2>3. CASE i # 1
    <3>1. i - 1 \in 1 .. m - 1 /\ i - 1 \in 1 .. m /\ 1 + (i - 1) = i
      BY <1>3, <1>4, <2>1, <2>3
    <3> QED BY <1>3, <1>4, <3>1
  <2> QED BY <2>2, <2>3
<1>6. d # <<>>
  BY <1>3, <1>4, SeqSmall
<1>7. Full(d) <=> Full(c)
  <2>1. CASE m = 0
    <3>1. c = <<>>
      BY <1>1, <1>3, <2>1, SeqEmpty
    <3> QED BY <1>4, <2>1, <3>1 DEF Full
  <2>2. CASE m # 0
    <3>1. d[1 + m] = c[m] /\ c # <<>>
      BY <1>1, <1>3, <1>4, <2>2, SeqSmall
    <3> QED BY <1>1, <1>4, <1>6, <3>1 DEF Full
  <2> QED BY <2>1, <2>2
<1> QED BY <1>2, <1>4, <1>5, <1>7 DEF Clean
Grown(c, x)   == Append(c, x)
Put(bs, b, c) == [bs EXCEPT ![b].code = c]

\* An instruction more in the builder's block b, of which e is what is then there; with
\* it, or before what is there already.
LEMMA BlocksPut ==
  ASSUME NEW bs, NEW W, NEW b \in 1 .. Len(bs), BlocksOK(bs, b, W), NEW c, Clean(c),
         NEW cs, cs = Put(bs, b, c)
  PROVE  /\ BlocksOK(cs, b, W) /\ Len(cs) = Len(bs) /\ cs[b].code = c /\ cs[b].fn = bs[b].fn
         /\ \A i \in 1 .. Len(bs) : i # b => cs[i] = bs[i]
<1>1. IsSeq(bs) /\ DOMAIN bs = 1 .. Len(bs) /\ Len(bs) \in Nat
  BY SeqFacts DEF BlocksOK
<1>2. bs[b] = [fn |-> bs[b].fn, code |-> bs[b].code]
  BY DEF BlocksOK, Block
<1>3. cs = [i \in 1 .. Len(bs) |-> cs[i]] /\ \A i \in 1 .. Len(bs) : i # b => cs[i] = bs[i]
  BY <1>1 DEF Put
<1>4. cs[b] = [fn |-> bs[b].fn, code |-> c]
  BY <1>1, <1>2 DEF Put
<1>5. IsSeq(cs) /\ Len(cs) = Len(bs)
  BY <1>1, <1>3, SeqBuilt
<1>6. cs[b].code = c /\ cs[b].fn = bs[b].fn /\ Block(cs[b])
  BY <1>4 DEF Block
<1> PICK m : m = Len(bs)
  OBVIOUS
<1>7. \A i \in 1 .. m : Block(cs[i]) /\ Clean(cs[i].code)
  BY <1>3, <1>6 DEF BlocksOK
<1>8. \A w \in W : /\ w[3] \in 1 .. m /\ w[3] # b /\ cs[w[3]].fn = cs[b].fn /\ ~Full(cs[w[3]].code)
                   /\ \A w2 \in W : w2[3] = w[3] => w2 = w
  BY <1>3, <1>6 DEF BlocksOK
<1>9. \A i \in 1 .. m : Full(cs[i].code) \/ i = b \/ \E w \in W : w[3] = i
  BY <1>3 DEF BlocksOK
<1>10. BlocksOK(cs, b, W)
  BY <1>5, <1>7, <1>8, <1>9 DEF BlocksOK
<1> QED BY <1>3, <1>5, <1>6, <1>10

LEMMA CleanGrown ==
  ASSUME NEW c, Clean(c), ~Full(c), NEW x
  PROVE  Clean(Grown(c, x)) /\ (Full(Grown(c, x)) <=> x.op \in Terminator)
  BY CleanAppend DEF Grown

\* An alloca goes to the first block of the function; the builder stays where it is.
LEMMA BlocksAlloca ==
  ASSUME NEW bs, NEW W, NEW b \in 1 .. Len(bs), BlocksOK(bs, b, W), NEW x, x.op \notin Terminator,
         NEW e, NEW cs, cs = Put(bs, e, <<x>> \o bs[e].code)
  PROVE  /\ BlocksOK(cs, b, W) /\ Len(cs) = Len(bs)
         /\ Full(cs[b].code) <=> Full(bs[b].code)
<1>1. IsSeq(bs) /\ DOMAIN bs = 1 .. Len(bs) /\ Len(bs) \in Nat
  BY SeqFacts DEF BlocksOK
<1> PICK m : m = Len(bs)
  OBVIOUS
<1>2. CASE e \notin 1 .. m
  <2>1. cs = [i \in 1 .. m |-> bs[i]]
    BY <1>1, <1>2 DEF Put
  <2>2. bs = [i \in 1 .. m |-> bs[i]]
    BY <1>1 DEF IsSeq
  <2>3. cs = bs
    BY <2>1, <2>2
  <2> QED BY <2>3
<1>3. CASE e \in 1 .. m
  <2>1. bs[e] = [fn |-> bs[e].fn, code |-> bs[e].code] /\ Clean(bs[e].code)
    BY <1>3 DEF BlocksOK, Block
  <2>2. PICK c : c = <<x>> \o bs[e].code
    OBVIOUS
  <2>3. Clean(c) /\ (Full(c) <=> Full(bs[e].code))
    BY <2>1, <2>2, CleanPrepend
  <2>4. cs = [i \in 1 .. m |-> cs[i]] /\ \A i \in 1 .. m : i # e => cs[i] = bs[i]
    BY <1>1 DEF Put
  <2>5. cs[e] = [fn |-> bs[e].fn, code |-> c]
    BY <1>1, <1>3, <2>1, <2>2 DEF Put
  <2>6. IsSeq(cs) /\ Len(cs) = m
    <3>1. m \in Nat
      BY <1>1
    <3>2. cs = [i \in 1 .. m |-> cs[i]]
      BY <2>4
    <3> QED BY <3>1, <3>2, SeqBuilt
  <2>a. cs[e].fn = bs[e].fn /\ cs[e].code = c
    BY <2>5
  <2>7. \A i \in 1 .. m : cs[i].fn = bs[i].fn /\ (Full(cs[i].code) <=> Full(bs[i].code))
    <3>1. TAKE i \in 1 .. m
    <3>2. CASE i = e
      BY <2>3, <2>a, <3>2
    <3>3. CASE i # e
      BY <2>4, <3>3
    <3> QED BY <3>2, <3>3
  <2>8. \A i \in 1 .. m : Block(cs[i]) /\ Clean(cs[i].code)
    <3>1. TAKE i \in 1 .. m
    <3>2. CASE i = e
      BY <2>3, <2>5, <2>a, <3>2 DEF Block
    <3>3. CASE i # e
      BY <2>4, <3>3 DEF BlocksOK
    <3> QED BY <3>2, <3>3
  <2>9. \A w \in W : /\ w[3] \in 1 .. m /\ w[3] # b /\ cs[w[3]].fn = cs[b].fn /\ ~Full(cs[w[3]].code)
                     /\ \A w2 \in W : w2[3] = w[3] => w2 = w
    BY <2>7 DEF BlocksOK
  <2>10. \A i \in 1 .. m : Full(cs[i].code) \/ i = b \/ \E w \in W : w[3] = i
    BY <2>7 DEF BlocksOK
  <2>11. BlocksOK(cs, b, W)
    BY <2>6, <2>8, <2>9, <2>10 DEF BlocksOK
  <2> QED BY <2>6, <2>7, <2>11
<1> QED BY <1>2, <1>3

Extended(bs, k, x) == bs \o [j \in 1 .. k |-> x]

LEMMA ExtendedIs ==
  ASSUME NEW bs, IsSeq(bs), NEW k \in Nat, NEW x, NEW cs, cs = Extended(bs, k, x)
  PROVE  IsSeq(cs) /\ Len(cs) = Len(bs) + k /\ (\A i \in 1 .. Len(bs) : cs[i] = bs[i])
         /\ \A j \in 1 .. k : cs[Len(bs) + j] = x
<1>1. PICK q : q = [j \in 1 .. k |-> x]
  OBVIOUS
<1>2. cs = bs \o q
  BY <1>1 DEF Extended
<1>3. IsSeq(q) /\ Len(q) = k /\ \A j \in 1 .. k : q[j] = x
  BY <1>1, SeqBuilt
<1>4. IsSeq(cs) /\ Len(cs) = Len(bs) + k
  BY <1>2, <1>3, SeqIs, SeqLen
<1>5. \A i \in 1 .. Len(bs) : cs[i] = bs[i]
  BY <1>2, <1>3, SeqLeft
<1>6. \A j \in 1 .. k : cs[Len(bs) + j] = x
  BY <1>2, <1>3, SeqRight
<1> QED BY <1>4, <1>5, <1>6

\* What waits when the activation a has appended k blocks behind m.
Appended(a, k, m) == {<<a, j, m + j>> : j \in 1 .. k}

\* Blocks appended behind: they are bare and wait, or are full, or one of them is where
\* the builder goes.
LEMMA BlocksWait ==
  ASSUME NEW bs, NEW W, NEW b \in 1 .. Len(bs), BlocksOK(bs, b, W), NEW k \in Nat, NEW x, Block(x), x.code = <<>>,
         x.fn = bs[b].fn, NEW cs, cs = Extended(bs, k, x), NEW a,
         NEW U, U = W \cup Appended(a, k, Len(bs))
  PROVE  BlocksOK(cs, b, U)
<1>1. PICK m : m = Len(bs)
  OBVIOUS
<1>3. IsSeq(bs) /\ m \in Nat
  BY <1>1, SeqFacts DEF BlocksOK
<1>4. /\ IsSeq(cs) /\ Len(cs) = Len(bs) + k /\ (\A i \in 1 .. Len(bs) : cs[i] = bs[i])
      /\ \A j \in 1 .. k : cs[Len(bs) + j] = x
  BY <1>3, ExtendedIs
<1>5. IsSeq(cs) /\ Len(cs) = m + k
  BY <1>1, <1>4
<1>6. \A i \in 1 .. m : cs[i] = bs[i]
  BY <1>1, <1>4
<1>7. \A j \in 1 .. k : cs[m + j] = x
  BY <1>1, <1>4
<1>8. \A i \in 1 .. m + k : i \in 1 .. m \/ (i > m /\ i - m \in 1 .. k /\ i = m + (i - m) /\ cs[i] = x)
  <2>1. TAKE i \in 1 .. m + k
  <2>2. CASE i > m
    <3>1. PICK j : j = i - m
      OBVIOUS
    <3>2. j \in 1 .. k /\ i = m + j
      BY <1>3, <2>2, <3>1
    <3> QED BY <1>7, <2>2, <3>1, <3>2
  <2> QED BY <1>3, <2>2
<1>9. Clean(x.code) /\ ~Full(x.code)
  BY CleanNone
<1>10. \A i \in 1 .. m + k : Block(cs[i]) /\ Clean(cs[i].code)
  BY <1>1, <1>6, <1>8, <1>9 DEF BlocksOK
<1>11. \A w \in U : w \in W \/ \E j \in 1 .. k : w = <<a, j, m + j>> /\ w[3] = m + j
  <2>1. \A w \in Appended(a, k, m) : \E j \in 1 .. k : w = <<a, j, m + j>> /\ w[3] = m + j
    BY DEF Appended
  <2> QED BY <1>1, <2>1
<1>12. \A w \in W : w[3] \in 1 .. m /\ w[3] # b /\ bs[w[3]].fn = bs[b].fn /\ ~Full(bs[w[3]].code)
  BY <1>1 DEF BlocksOK
<1>13. \A w \in U : /\ w[3] \in 1 .. m + k /\ w[3] # b /\ cs[w[3]].fn = cs[b].fn /\ ~Full(cs[w[3]].code)
  <2>1. TAKE w \in U
  <2>2. CASE w \in W
    BY <1>1, <1>3, <1>6, <1>12, <2>2
  <2>3. CASE \E j \in 1 .. k : w[3] = m + j
    <3>1. PICK j \in 1 .. k : w[3] = m + j
      BY <2>3
    <3>2. w[3] \in 1 .. m + k /\ w[3] # b /\ cs[w[3]] = x
      <4>1. PICK i : i = m + j
        OBVIOUS
      <4>2. b \in 1 .. m
        BY <1>1
      <4>3. i \in 1 .. m + k /\ i # b
        BY <1>3, <4>1, <4>2
      <4>4. cs[i] = x
        BY <1>7, <4>1
      <4> QED BY <3>1, <4>1, <4>3, <4>4
    <3>3. cs[b] = bs[b]
      BY <1>1, <1>6
    <3> QED BY <1>9, <3>2, <3>3
  <2> QED BY <1>11, <2>2, <2>3
<1>14. \A w, w2 \in U : w2[3] = w[3] => w2 = w
  <2>1. TAKE w, w2 \in U
  <2>2. CASE w \in W /\ w2 \in W
    BY <2>2 DEF BlocksOK
  <2>3. CASE w \in W /\ w2 \notin W
    BY <1>3, <1>11, <1>12, <2>3
  <2>4. CASE w \notin W /\ w2 \in W
    BY <1>3, <1>11, <1>12, <2>4
  <2>5. CASE w \notin W /\ w2 \notin W
    <3>1. PICK j \in 1 .. k : w = <<a, j, m + j>> /\ w[3] = m + j
      BY <1>11, <2>5
    <3>2. PICK j2 \in 1 .. k : w2 = <<a, j2, m + j2>> /\ w2[3] = m + j2
      BY <1>11, <2>5
    <3> QED BY <1>3, <3>1, <3>2
  <2> QED BY <2>2, <2>3, <2>4, <2>5
<1>15. \A i \in 1 .. m + k : Full(cs[i].code) \/ i = b \/ \E w \in U : w[3] = i
  <2>1. TAKE i \in 1 .. m + k
  <2>2. CASE i \in 1 .. m
    <3>1. Full(bs[i].code) \/ i = b \/ \E w \in W : w[3] = i
      BY <1>1, <2>2 DEF BlocksOK
    <3> QED BY <1>6, <2>2, <3>1
  <2>3. CASE i - m \in 1 .. k /\ i = m + (i - m)
    <3>1. PICK j \in 1 .. k : i = m + j
      BY <2>3
    <3>2. <<a, j, m + j>> \in U
      BY <1>1 DEF Appended
    <3>3. <<a, j, m + j>>[3] = i
      BY <3>1
    <3> QED BY <3>2, <3>3
  <2> QED BY <1>8, <2>2, <2>3
<1>16. BlocksOK(cs, b, U)
  BY <1>5, <1>10, <1>13, <1>14, <1>15 DEF BlocksOK
<1> QED BY <1>16

\* The builder moves on to a block that waits for it.
LEMMA BlocksEnter ==
  ASSUME NEW bs, NEW W, NEW b \in 1 .. Len(bs), BlocksOK(bs, b, W), Full(bs[b].code), NEW w \in W
  PROVE  BlocksOK(bs, w[3], W \ {w}) /\ w[3] \in 1 .. Len(bs) /\ ~Full(bs[w[3]].code)
<1>1. w[3] \in 1 .. Len(bs) /\ ~Full(bs[w[3]].code) /\ bs[w[3]].fn = bs[b].fn
  BY DEF BlocksOK
<1>2. \A v \in W \ {w} : /\ v[3] \in 1 .. Len(bs) /\ v[3] # w[3] /\ bs[v[3]].fn = bs[w[3]].fn /\ ~Full(bs[v[3]].code)
                         /\ \A v2 \in W \ {w} : v2[3] = v[3] => v2 = v
  BY <1>1 DEF BlocksOK
<1>3. \A i \in 1 .. Len(bs) : Full(bs[i].code) \/ i = w[3] \/ \E v \in W \ {w} : v[3] = i
  BY DEF BlocksOK
<1> QED BY <1>1, <1>2, <1>3 DEF BlocksOK

\* A guard's two blocks: the builder goes to the first, the second is the runtime's panic.
LEMMA BlocksGuard ==
  ASSUME NEW bs, NEW W, NEW b \in 1 .. Len(bs), BlocksOK(bs, b, W), Full(bs[b].code), NEW x, Block(x), x.code = <<>>,
         x.fn = bs[b].fn, NEW y, Block(y), Clean(y.code), Full(y.code), NEW cs, cs = bs \o <<x, y>>
  PROVE  /\ BlocksOK(cs, Len(bs) + 1, W) /\ Len(bs) + 1 \in 1 .. Len(cs)
         /\ ~Full(cs[Len(bs) + 1].code)
<1>1. PICK m : m = Len(bs)
  OBVIOUS
<1>2. PICK q : q = <<x, y>>
  OBVIOUS
<1>3. IsSeq(bs) /\ DOMAIN bs = 1 .. m /\ m \in Nat
  BY <1>1, SeqFacts DEF BlocksOK
<1>4. IsSeq(q) /\ Len(q) = 2 /\ q[1] = x /\ q[2] = y
  BY <1>2, SeqSmall
<1>5. IsSeq(cs) /\ Len(cs) = m + 2
  BY <1>1, <1>2, <1>3, <1>4, SeqIs, SeqLen
<1>6. \A i \in 1 .. m : cs[i] = bs[i]
  BY <1>1, <1>2, <1>3, <1>4, SeqLeft
<1>7. \A j \in 1 .. Len(q) : cs[m + j] = q[j]
  BY <1>1, <1>2, <1>3, <1>4, SeqRight
<1>8. cs[m + 1] = x /\ cs[m + 2] = y
  <2>1. \A j \in {1, 2} : j \in 1 .. Len(q)
    BY <1>4
  <2>2. \A j \in {1, 2} : cs[m + j] = q[j]
    BY <1>7, <2>1
  <2> QED BY <1>4, <2>2
<1>9. \A i \in 1 .. m + 2 : i \in 1 .. m \/ i = m + 1 \/ i = m + 2
  BY <1>3
<1>10. \A i \in 1 .. m + 2 : Block(cs[i]) /\ Clean(cs[i].code)
  BY <1>1, <1>6, <1>8, <1>9, CleanNone DEF BlocksOK
<1>11. \A w \in W : /\ w[3] \in 1 .. m /\ bs[w[3]].fn = x.fn /\ ~Full(bs[w[3]].code)
                    /\ \A w2 \in W : w2[3] = w[3] => w2 = w
  BY <1>1 DEF BlocksOK
<1>12. \A w \in W : /\ w[3] \in 1 .. m + 2 /\ w[3] # m + 1 /\ cs[w[3]].fn = cs[m + 1].fn /\ ~Full(cs[w[3]].code)
                    /\ \A w2 \in W : w2[3] = w[3] => w2 = w
  BY <1>3, <1>6, <1>8, <1>11
<1>13. \A i \in 1 .. m + 2 : Full(cs[i].code) \/ i = m + 1 \/ \E w \in W : w[3] = i
  <2>1. \A i \in 1 .. m : Full(bs[i].code) \/ \E w \in W : w[3] = i
    BY <1>1 DEF BlocksOK
  <2> QED BY <1>6, <1>8, <1>9, <2>1
<1>14. BlocksOK(cs, m + 1, W)
  BY <1>5, <1>10, <1>12, <1>13 DEF BlocksOK
<1>15. m + 1 \in 1 .. Len(cs) /\ ~Full(cs[m + 1].code)
  BY <1>3, <1>5, <1>8, CleanNone
<1> QED BY <1>1, <1>14, <1>15

\* A function begins: its entry block follows those of the functions before it.
LEMMA BlocksBegin ==
  ASSUME NEW bs, BlocksOK(bs, 0, {}), NEW x, Block(x), Clean(x.code), NEW cs, cs = Append(bs, x)
  PROVE  /\ BlocksOK(cs, Len(bs) + 1, {}) /\ Len(bs) + 1 \in 1 .. Len(cs)
         /\ cs[Len(bs) + 1] = x
         /\ Full(x.code) => BlocksOK(cs, 0, {})
<1>1. PICK m : m = Len(bs)
  OBVIOUS
<1>2. IsSeq(bs) /\ m \in Nat
  BY <1>1, SeqFacts DEF BlocksOK
<1>3. IsSeq(cs) /\ Len(cs) = m + 1 /\ cs[m + 1] = x /\ \A i \in 1 .. m : cs[i] = bs[i]
  BY <1>1, <1>2, SeqAppend
<1>4. \A i \in 1 .. m + 1 : i \in 1 .. m \/ i = m + 1
  BY <1>2
<1>5. \A i \in 1 .. m + 1 : Block(cs[i]) /\ Clean(cs[i].code)
  BY <1>1, <1>3, <1>4 DEF BlocksOK
<1>6. \A i \in 1 .. m : Full(cs[i].code)
  BY <1>1, <1>2, <1>3 DEF BlocksOK
<1>7. BlocksOK(cs, m + 1, {})
  BY <1>3, <1>4, <1>5, <1>6 DEF BlocksOK
<1>8. Full(x.code) => BlocksOK(cs, 0, {})
  BY <1>3, <1>4, <1>5, <1>6 DEF BlocksOK
<1> QED BY <1>1, <1>2, <1>3, <1>7, <1>8

\* A function ends: nothing of it waits, and its last block is full.
LEMMA BlocksEnd ==
  ASSUME NEW bs, NEW b \in 1 .. Len(bs), BlocksOK(bs, b, {}), Full(bs[b].code)
  PROVE  BlocksOK(bs, 0, {})
  BY DEF BlocksOK

-----------------------------------------------------------------------------
(***************************************************************************)
(* The activations, and the blocks that they have appended and not come    *)
(* to.                                                                     *)
(***************************************************************************)
WaitsOf(g, i) == {<<i, j, g[i].bbs[j]>> : j \in Pending(g[i])}
Waiting(g)    == UNION {WaitsOf(g, i) : i \in 1 .. Len(g)}

\* The innermost activation has its turn; every other awaits the one after it.
FramesOK(g) ==
  /\ IsSeq(g) /\ Len(g) > 0 /\ \A i \in 1 .. Len(g) : Good(g[i])
  /\ Kind(g[1]) = "Func" /\ g[1].n \in {prog[i] : i \in DOMAIN prog}
  /\ \A i \in 2 .. Len(g) : Kind(g[i]) # "Func"
  /\ \A i \in 1 .. Len(g) - 1 : Awaits(g[i], g[i + 1].n)

\* What h is when the innermost activation of g becomes t.
TopIs(g, h, t) ==
  IsSeq(h) /\ Len(h) = Len(g) /\ (\A i \in 1 .. Len(g) - 1 : h[i] = g[i]) /\ h[Len(g)] = t

LEMMA FramesMove ==
  ASSUME NEW g, FramesOK(g), NEW t, Good(t), t.n = g[Len(g)].n, NEW h, TopIs(g, h, t)
  PROVE  FramesOK(h)
<1>1. PICK m : m = Len(g)
  OBVIOUS
<1>2. m \in Nat /\ m > 0
  BY <1>1, SeqFacts DEF FramesOK
<1>3. IsSeq(h) /\ Len(h) = m /\ h[m] = t /\ \A i \in 1 .. m - 1 : h[i] = g[i]
  BY <1>1 DEF TopIs
<1>4. \A i \in 1 .. m : h[i] = g[i] \/ (i = m /\ h[i] = t)
  BY <1>2, <1>3
<1>5. \A i \in 1 .. m : Good(h[i]) /\ h[i].n = g[i].n /\ Kind(h[i]) = Kind(g[i])
  BY <1>1, <1>4 DEF FramesOK, Kind
<1>6. 1 \in 1 .. m /\ \A i \in 2 .. m : i \in 1 .. m
  BY <1>2
<1>7. \A i \in 1 .. m - 1 : Awaits(h[i], h[i + 1].n)
  <2>1. TAKE i \in 1 .. m - 1
  <2>2. i + 1 \in 1 .. m
    BY <1>2
  <2>3. h[i] = g[i] /\ h[i + 1].n = g[i + 1].n
    BY <1>3, <1>5, <2>2
  <2> QED BY <1>1, <2>3 DEF FramesOK
<1> QED BY <1>1, <1>2, <1>3, <1>5, <1>6, <1>7 DEF FramesOK

LEMMA WaitingIs ==
  ASSUME NEW g, NEW w
  PROVE  w \in Waiting(g) <=> \E i \in 1 .. Len(g) : w \in WaitsOf(g, i)
  BY DEF Waiting

LEMMA WaitsSame ==
  ASSUME NEW g, NEW h, NEW i, Pending(h[i]) = Pending(g[i]), \A j \in Pending(g[i]) : h[i].bbs[j] = g[i].bbs[j]
  PROVE  WaitsOf(h, i) = WaitsOf(g, i)
  BY DEF WaitsOf

\* As the innermost activation moves.
LEMMA WaitingMove ==
  ASSUME NEW g, IsSeq(g), Len(g) > 0, NEW t, NEW h, TopIs(g, h, t), NEW m, m = Len(g)
  PROVE  Waiting(h) = (Waiting(g) \ WaitsOf(g, m)) \cup WaitsOf(h, m)
<1>1. m \in Nat /\ m > 0 /\ m \in 1 .. m
  BY SeqFacts
<1>2. Len(h) = m /\ \A i \in 1 .. m - 1 : h[i] = g[i]
  BY DEF TopIs
<1>3. \A i \in 1 .. m - 1 : WaitsOf(h, i) = WaitsOf(g, i)
  BY <1>2, WaitsSame
<1>4. \A i \in 1 .. m - 1 : WaitsOf(g, i) \cap WaitsOf(g, m) = {}
  BY <1>1 DEF WaitsOf
<1>5. \A w : w \in Waiting(g) <=> \E i \in 1 .. m : w \in WaitsOf(g, i)
  BY WaitingIs
<1>6. \A w : w \in Waiting(h) <=> \E i \in 1 .. m : w \in WaitsOf(h, i)
  BY <1>2, WaitingIs
<1>7. \A i \in 1 .. m : i \in 1 .. m - 1 \/ i = m
  BY <1>1
<1>8. \A i \in 1 .. m - 1 : i \in 1 .. m
  BY <1>1
<1>9. ASSUME NEW w PROVE w \in Waiting(h) <=> (w \in Waiting(g) /\ w \notin WaitsOf(g, m)) \/ w \in WaitsOf(h, m)
  <2>1. ASSUME w \in Waiting(h), w \notin WaitsOf(h, m) PROVE w \in Waiting(g) /\ w \notin WaitsOf(g, m)
    <3>1. PICK i \in 1 .. m - 1 : w \in WaitsOf(h, i)
      BY <1>6, <1>7, <2>1
    <3> QED BY <1>3, <1>4, <1>5, <1>8, <3>1
  <2>2. ASSUME w \in Waiting(g), w \notin WaitsOf(g, m) PROVE w \in Waiting(h)
    <3>1. PICK i \in 1 .. m - 1 : w \in WaitsOf(g, i)
      BY <1>5, <1>7, <2>2
    <3> QED BY <1>3, <1>6, <1>8, <3>1
  <2>3. w \in WaitsOf(h, m) => w \in Waiting(h)
    BY <1>1, <1>6
  <2> QED BY <2>1, <2>2, <2>3
<1> QED BY <1>9

\* A child is generated, and answers.
LEMMA WaitingPush ==
  ASSUME NEW g, IsSeq(g), NEW h, IsSeq(h), Len(h) = Len(g) + 1, NEW m, m = Len(g), \A i \in 1 .. m : WaitsOf(h, i) = WaitsOf(g, i),
         Pending(h[m + 1]) = {}
  PROVE  Waiting(h) = Waiting(g)
<1>1. m \in Nat
  BY SeqFacts
<1>2. \A i \in 1 .. m + 1 : i \in 1 .. m \/ i = m + 1
  BY <1>1
<1>3. \A i \in 1 .. m : i \in 1 .. m + 1
  BY <1>1
<1>4. WaitsOf(h, m + 1) = {}
  BY DEF WaitsOf
<1>5. \A w : w \in Waiting(g) <=> \E i \in 1 .. m : w \in WaitsOf(g, i)
  BY WaitingIs
<1>6. \A w : w \in Waiting(h) <=> \E i \in 1 .. m + 1 : w \in WaitsOf(h, i)
  BY WaitingIs
<1>7. \A w : w \in Waiting(h) <=> w \in Waiting(g)
  BY <1>2, <1>3, <1>4, <1>5, <1>6
<1> QED BY <1>7

\* What an activation waits for it has.
LEMMA PendingThere ==
  ASSUME NEW f, Good(f)
  PROVE  Pending(f) \subseteq 1 .. Len(f.bbs)
<1>1. Placed(f) /\ IsSeq(f.bbs) /\ f.pc \in Nat \ {0}
  BY DEF Good
<1>2. PICK n : n = Len(f.bbs)
  OBVIOUS
<1>3. n \in Nat
  BY <1>1, <1>2, SeqFacts
<1>4. CASE IsLazy(f)
  BY <1>1, <1>2, <1>3, <1>4, LazyIs
<1>5. CASE Kind(f) = "Ternary"
  <2>1. f.pc = 1 \/ n >= 3
    BY <1>1, <1>2, <1>5, TernaryIs
  <2>2. Pending(f) \subseteq {1, 2, 3} /\ (f.pc = 1 => Pending(f) = {})
    BY <1>5, TernaryIs DEF Among
  <2> QED BY <1>2, <1>3, <2>1, <2>2
<1>6. CASE Kind(f) = "If"
  <2>1. IfPoint(f) \in 1 .. 12 /\ (IfPoint(f) <= 2 \/ n = 3)
    BY <1>1, <1>2, <1>6, IfIs DEF PlacedIf
  <2>2. Pending(f) \subseteq {1, 2, 3} /\ (IfPoint(f) \in {1, 2} => Pending(f) = {})
    BY <1>6, IfIs DEF Among
  <2>3. IfPoint(f) \in {1, 2} \/ n >= 3
    BY <2>1
  <2> QED BY <1>2, <1>3, <2>2, <2>3
<1>7. CASE IsLoop(f)
  <2>0. LoopPoint(f) \in {0, 1} \/ n = 3
    BY <1>1, <1>2, <1>7, LoopIs DEF PlacedLoop, Before
  <2>1. LoopPoint(f) \in {0, 1} \/ n >= 3
    BY <2>0
  <2>2. Pending(f) \subseteq {1, 2, 3} /\ (LoopPoint(f) \in {0, 1} => Pending(f) = {})
    BY <1>7, LoopIs DEF Among
  <2> QED BY <1>2, <1>3, <2>1, <2>2
<1>8. CASE ~IsLazy(f) /\ Kind(f) # "Ternary" /\ Kind(f) # "If" /\ ~IsLoop(f)
  BY <1>8 DEF Pending
<1> QED BY <1>4, <1>5, <1>6, <1>7, <1>8

\* What advance does to the innermost activation.
Advanced(f, vs, bbs) ==
  [n |-> f.n, pc |-> f.pc + 1, owned |-> f.owned, vs |-> f.vs \o vs, bbs |-> f.bbs \o bbs]

LEMMA AdvancedMoves ==
  ASSUME NEW f, Good(f), NEW vs, IsSeq(vs), NEW bbs, IsSeq(bbs), NEW t, t = Advanced(f, vs, bbs)
  PROVE  /\ Moves(f, t, Len(vs), Len(bbs)) /\ t.n = f.n
         /\ t.vs = f.vs \o vs /\ t.bbs = f.bbs \o bbs
<1>1. /\ t = [n |-> t.n, pc |-> t.pc, owned |-> t.owned, vs |-> t.vs, bbs |-> t.bbs]
      /\ t.n = f.n /\ t.pc = f.pc + 1 /\ t.vs = f.vs \o vs /\ t.bbs = f.bbs \o bbs
  BY DEF Advanced
<1>2. IsSeq(f.vs) /\ IsSeq(f.bbs)
  BY DEF Good
<1>3. IsSeq(t.vs) /\ Len(t.vs) = Len(f.vs) + Len(vs) /\ \A i \in 1 .. Len(f.vs) : t.vs[i] = f.vs[i]
  BY <1>1, <1>2, SeqIs, SeqLen, SeqLeft
<1>4. IsSeq(t.bbs) /\ Len(t.bbs) = Len(f.bbs) + Len(bbs) /\ \A i \in 1 .. Len(f.bbs) : t.bbs[i] = f.bbs[i]
  BY <1>1, <1>2, SeqIs, SeqLen, SeqLeft
<1> QED BY <1>1, <1>3, <1>4 DEF Moves

At(s, m, x) == [s EXCEPT ![m] = x]

LEMMA SeqExcept ==
  ASSUME NEW s, IsSeq(s), NEW m, NEW x, NEW t, t = At(s, m, x)
  PROVE  IsSeq(t) /\ Len(t) = Len(s) /\ (\A i \in 1 .. Len(s) : i # m => t[i] = s[i])
         /\ (m \in 1 .. Len(s) => t[m] = x)
<1> PICK k : k = Len(s)
  OBVIOUS
<1>1. DOMAIN s = 1 .. k /\ k \in Nat
  BY SeqFacts
<1>2. t = [i \in 1 .. k |-> t[i]] /\ (\A i \in 1 .. k : i # m => t[i] = s[i]) /\ (m \in 1 .. k => t[m] = x)
  BY <1>1 DEF At
<1>3. t = [i \in 1 .. k |-> t[i]] /\ k \in Nat
  BY <1>1, <1>2
<1>4. IsSeq(t) /\ Len(t) = k
  BY <1>3, SeqBuilt
<1> QED BY <1>2, <1>4

Advances(g, h, vs, bbs) ==
  h = [g EXCEPT ![Len(g)].pc = @ + 1, ![Len(g)].vs = @ \o vs, ![Len(g)].bbs = @ \o bbs]

LEMMA AdvanceTop ==
  ASSUME NEW g, FramesOK(g), NEW vs, NEW bbs, NEW h, Advances(g, h, vs, bbs)
  PROVE  TopIs(g, h, Advanced(g[Len(g)], vs, bbs)) /\ Len(g) \in 1 .. Len(g)
<1> PICK m : m = Len(g)
  OBVIOUS
<1>1. IsSeq(g) /\ DOMAIN g = 1 .. m /\ m \in Nat /\ m > 0
  BY SeqFacts DEF FramesOK
<1>2. m \in 1 .. m
  BY <1>1
<1>3. g[m] = [n |-> g[m].n, pc |-> g[m].pc, owned |-> g[m].owned, vs |-> g[m].vs, bbs |-> g[m].bbs]
  BY <1>2 DEF FramesOK, Good
<1>4. h[m] = Advanced(g[m], vs, bbs)
  BY <1>1, <1>2, <1>3 DEF Advanced, Advances
<1>5. IsSeq(h) /\ Len(h) = m /\ \A i \in 1 .. m - 1 : h[i] = g[i]
  <2>1. PICK x : x = [g[m] EXCEPT !.pc = @ + 1]
    OBVIOUS
  <2>a. PICK a : a = At(g, m, x)
    OBVIOUS
  <2>2. PICK y : y = [a[m] EXCEPT !.vs = @ \o vs]
    OBVIOUS
  <2>b. PICK b : b = At(a, m, y)
    OBVIOUS
  <2>3. PICK z : z = [b[m] EXCEPT !.bbs = @ \o bbs]
    OBVIOUS
  <2>c. h = At(b, m, z)
    BY <2>1, <2>a, <2>2, <2>b, <2>3 DEF At, Advances
  <2>4. IsSeq(a) /\ Len(a) = m /\ \A i \in 1 .. m : i # m => a[i] = g[i]
    BY <1>1, <2>a, SeqExcept
  <2>5. IsSeq(b) /\ Len(b) = m /\ \A i \in 1 .. m : i # m => b[i] = a[i]
    BY <2>b, <2>4, SeqExcept
  <2>6. IsSeq(h) /\ Len(h) = m /\ \A i \in 1 .. m : i # m => h[i] = b[i]
    BY <2>c, <2>5, SeqExcept
  <2>7. \A i \in 1 .. m - 1 : i \in 1 .. m /\ i # m
    BY <1>1
  <2> QED BY <2>4, <2>5, <2>6, <2>7
<1> QED BY <1>2, <1>4, <1>5 DEF TopIs
-----------------------------------------------------------------------------
(***************************************************************************)
(* Code generation of a body goes on: the innermost activation is live     *)
(* exactly as long as the builder's block is open.                         *)
(***************************************************************************)
Running(g, bs, b) ==
  /\ FramesOK(g) /\ BlocksOK(bs, b, Waiting(g)) /\ b \in 1 .. Len(bs)
  /\ Live(g[Len(g)]) <=> ~Full(bs[b].code)

LEMMA DoesWhat ==
  ASSUME NEW f, NEW s, Does(f, s)
  PROVE  /\ s.do \in {"gen", "value"} => DoesGen(f, s)
         /\ s.do = "give" => DoesGive(f, s)
         /\ s.do = "emit" => DoesEmit(f, s)
         /\ s.do = "guard" => DoesGuard(f, s)
         /\ s.do = "blocks" => DoesBlocks(f, s)
         /\ s.do = "position" => DoesPosition(f, s)
         /\ s.do = "mark" => DoesMark(f, s)
         /\ s.do = "alloca" => DoesAlloca(f, s)
         /\ s.do = "bind" => DoesBind(f, s)
<1>1. /\ DoesGen(f, s) => s.do \in {"gen", "value"}
      /\ DoesGive(f, s) => s.do = "give"
      /\ DoesEmit(f, s) => s.do = "emit"
      /\ DoesGuard(f, s) => s.do = "guard"
      /\ DoesBlocks(f, s) => s.do = "blocks"
      /\ DoesPosition(f, s) => s.do = "position"
      /\ DoesMark(f, s) => s.do = "mark"
      /\ DoesAlloca(f, s) => s.do = "alloca"
      /\ DoesBind(f, s) => s.do = "bind"
  BY DEF DoesGen, DoesGive, DoesEmit, DoesGuard, DoesBlocks, DoesPosition, DoesMark, DoesAlloca, DoesBind
<1> PICK d : d = s.do
  OBVIOUS
<1>2. CASE d \in {"gen", "value"}
  BY <1>1, <1>2 DEF Does
<1>3. CASE d = "give"
  BY <1>1, <1>3 DEF Does
<1>4. CASE d = "emit"
  BY <1>1, <1>4 DEF Does
<1>5. CASE d = "guard"
  BY <1>1, <1>5 DEF Does
<1>6. CASE d = "blocks"
  BY <1>1, <1>6 DEF Does
<1>7. CASE d = "position"
  BY <1>1, <1>7 DEF Does
<1>8. CASE d = "mark"
  BY <1>1, <1>8 DEF Does
<1>9. CASE d = "alloca"
  BY <1>1, <1>9 DEF Does
<1>10. CASE d = "bind"
  BY <1>1, <1>10 DEF Does
<1>11. CASE d \notin {"gen", "value", "give", "emit", "guard", "blocks", "position", "mark", "alloca", "bind"}
  BY <1>11
<1> QED BY <1>2, <1>3, <1>4, <1>5, <1>6, <1>7, <1>8, <1>9, <1>10, <1>11

\* The innermost activation, and its step.
LEMMA TopDoes ==
  ASSUME Vetted, FramesOK(gens), NEW m, m = Len(gens), NEW f, f = gens[m]
  PROVE  /\ IsSeq(gens) /\ m \in Nat \ {0} /\ m \in 1 .. m
         /\ f = Codegen!Top /\ Good(f) /\ Does(f, Codegen!Step)
<1>1. IsSeq(gens) /\ m \in Nat /\ m > 0
  BY SeqFacts DEF FramesOK
<1>2. m \in 1 .. m
  BY <1>1
<1>3. Good(f)
  BY <1>2 DEF FramesOK
<1>4. f = Codegen!Top
  BY DEF Codegen!Top
<1>5. Does(f, Codegen!StepOf(f))
  BY <1>3, FrameSteps
<1> QED BY <1>1, <1>2, <1>3, <1>4, <1>5 DEF Codegen!Step

\* The innermost activation advances.
LEMMA TopAdvances ==
  ASSUME NEW g, FramesOK(g), NEW m, m = Len(g), NEW f, f = g[m],
         NEW vs, IsSeq(vs), NEW bbs, IsSeq(bbs), NEW h, Advances(g, h, vs, bbs), NEW t, t = Advanced(f, vs, bbs), Good(t)
  PROVE  /\ FramesOK(h) /\ Len(h) = m /\ h[m] = t
         /\ Waiting(h) = (Waiting(g) \ WaitsOf(g, m)) \cup WaitsOf(h, m)
         /\ Pending(t) = Pending(f) => Waiting(h) = Waiting(g)
<1>1. TopIs(g, h, t) /\ m \in 1 .. m
  BY AdvanceTop
<1>2. IsSeq(g) /\ Len(g) > 0 /\ Good(f)
  BY <1>1 DEF FramesOK
<1>3. Moves(f, t, Len(vs), Len(bbs)) /\ t.n = f.n
  BY <1>2, AdvancedMoves
<1>4. FramesOK(h)
  BY <1>1, <1>3, FramesMove
<1>5. Len(h) = m /\ h[m] = t
  BY <1>1 DEF TopIs
<1>6. Waiting(h) = (Waiting(g) \ WaitsOf(g, m)) \cup WaitsOf(h, m)
  BY <1>1, <1>2, WaitingMove
<1>7. ASSUME Pending(t) = Pending(f) PROVE Waiting(h) = Waiting(g)
  <2>1. \A j \in Pending(f) : t.bbs[j] = f.bbs[j]
    BY <1>2, <1>3, PendingThere DEF Moves
  <2>2. WaitsOf(h, m) = WaitsOf(g, m)
    BY <1>5, <1>7, <2>1, WaitsSame
  <2>3. WaitsOf(g, m) \subseteq Waiting(g)
    BY <1>1, WaitingIs
  <2> QED BY <1>6, <2>2, <2>3
<1> QED BY <1>4, <1>5, <1>6, <1>7

\* A step that keeps the activation as it stands, but for its values and marks.
LEMMA SameRuns ==
  ASSUME NEW g, NEW bs, NEW b, NEW m, m = Len(g), NEW f, f = g[m], NEW vs, IsSeq(vs), NEW bbs, IsSeq(bbs),
         FramesOK(g), Same(f, Len(vs), Len(bbs)), NEW h, Advances(g, h, vs, bbs)
  PROVE  FramesOK(h) /\ Waiting(h) = Waiting(g) /\ Len(h) = m /\ (Live(h[m]) <=> Live(f))
<1>1. PICK t : t = Advanced(f, vs, bbs)
  OBVIOUS
<1>2. m \in 1 .. m
  BY AdvanceTop
<1>3. Good(f)
  BY <1>2 DEF FramesOK
<1>4. Moves(f, t, Len(vs), Len(bbs))
  BY <1>1, <1>3, AdvancedMoves
<1>5. Good(t) /\ Pending(t) = Pending(f) /\ (Live(t) <=> Live(f))
  BY <1>4 DEF Same
<1> QED BY <1>1, <1>5, TopAdvances

LEMMA AdvanceIs ==
  ASSUME NEW vs, NEW bbs, Codegen!Advance(vs, bbs)
  PROVE  Advances(gens, gens', vs, bbs)
  BY DEF Codegen!Advance, Advances

\* The actions of code generation that go on with a body.
LEMMA EmitRuns ==
  ASSUME Vetted, Running(gens, blocks, builder), Codegen!EmitInstr, ~Codegen!Panics
  PROVE  stage' = stage /\ prog' = prog /\ Running(gens', blocks', builder')
<1> PICK m : m = Len(gens)
  OBVIOUS
<1> PICK f : f = gens[m]
  OBVIOUS
<1>a. PICK s : s = Codegen!Step
  OBVIOUS
<1>b. PICK i : i = Codegen!Instr(s.op, s.t, s.args, s.to)
  OBVIOUS
<1>c. PICK vs : vs = CASE s.t = "none" -> <<>> [] s.t = "void" -> <<Codegen!NoValue>> [] OTHER -> <<Codegen!Reg(s.t, i.r)>>
  OBVIOUS
<1>1. /\ s.do = "emit" /\ stage' = stage /\ prog' = prog /\ builder' = builder
      /\ blocks' = Put(blocks, builder, Grown(blocks[builder].code, i))
      /\ Codegen!Advance(vs, <<>>)
  BY <1>a, <1>b, <1>c DEF Codegen!EmitInstr, Codegen!Active, Put, Grown
<1>2. m \in 1 .. m /\ Good(f) /\ Does(f, s)
  BY <1>a, TopDoes DEF Running
<1>3. DoesEmit(f, s)
  BY <1>1, <1>2, DoesWhat
<1>4. IsSeq(vs) /\ Len(vs) = IF s.t = "none" THEN 0 ELSE 1
  <2>1. CASE s.t = "none"
    BY <1>c, <2>1, SeqSmall
  <2>2. CASE s.t = "void"
    BY <1>c, <2>2, SeqSmall
  <2>3. CASE s.t \notin {"none", "void"}
    BY <1>c, <2>3, SeqSmall
  <2> QED BY <2>1, <2>2, <2>3
<1>5. PICK n : n = <<>>
  OBVIOUS
<1>6. IsSeq(n) /\ Len(n) = 0 /\ Advances(gens, gens', vs, n)
  BY <1>1, <1>5, AdvanceIs, SeqSmall
<1>7. PICK t : t = Advanced(f, vs, n)
  OBVIOUS
<1>8. Moves(f, t, Len(vs), 0)
  BY <1>2, <1>4, <1>6, <1>7, AdvancedMoves
<1>9. Good(t) /\ Pending(t) = Pending(f) /\ (Live(t) <=> s.op \notin Terminator) /\ Live(f)
  BY <1>3, <1>4, <1>8 DEF DoesEmit
<1>10. FramesOK(gens) /\ BlocksOK(blocks, builder, Waiting(gens)) /\ builder \in 1 .. Len(blocks) /\ ~Full(blocks[builder].code)
  BY <1>9 DEF Running
<1>11. FramesOK(gens') /\ Waiting(gens') = Waiting(gens) /\ Len(gens') = m /\ gens'[m] = t
  BY <1>4, <1>6, <1>7, <1>9, <1>10, TopAdvances
<1>12. i.op = s.op
  BY <1>b DEF Codegen!Instr
<1>13. PICK bs : bs = blocks'
  OBVIOUS
<1>14. PICK W : W = Waiting(gens)
  OBVIOUS
<1>15. /\ BlocksOK(bs, builder, W) /\ Len(bs) = Len(blocks)
       /\ Full(bs[builder].code) <=> i.op \in Terminator
  <2>1. PICK c : c = Grown(blocks[builder].code, i)
    OBVIOUS
  <2>2. bs = Put(blocks, builder, c)
    BY <1>1, <1>13, <2>1
  <2>3. BlocksOK(blocks, builder, W) /\ builder \in 1 .. Len(blocks) /\ ~Full(blocks[builder].code)
    BY <1>10, <1>14
  <2>4. Clean(blocks[builder].code)
    BY <2>3 DEF BlocksOK
  <2>5. Clean(c) /\ (Full(c) <=> i.op \in Terminator)
    BY <2>1, <2>3, <2>4, CleanGrown
  <2>6. BlocksOK(bs, builder, W) /\ Len(bs) = Len(blocks) /\ bs[builder].code = c
    BY <2>2, <2>3, <2>5, BlocksPut
  <2> QED BY <2>5, <2>6
<1> QED BY <1>1, <1>9, <1>10, <1>11, <1>12, <1>13, <1>14, <1>15 DEF Running

LEMMA GuardRuns ==
  ASSUME Vetted, Running(gens, blocks, builder), Codegen!RuntimeGuard
  PROVE  stage' = stage /\ prog' = prog /\ Running(gens', blocks', builder')
<1> PICK m : m = Len(gens)
  OBVIOUS
<1> PICK f : f = gens[m]
  OBVIOUS
<1>a. PICK s : s = Codegen!Step
  OBVIOUS
<1>b. PICK n : n = Len(blocks)
  OBVIOUS
<1>c. PICK i : i = Codegen!Instr("condbr", "none", <<s.ok>>, <<n + 1, n + 1 + 1>>)
  OBVIOUS
<1>d. PICK x : x = Codegen!Bare(builder)
  OBVIOUS
<1>e. PICK p, u : p = Codegen!Instr(s.f, "none", s.args, <<>>) /\ u = Codegen!Instr("unreachable", "none", <<>>, <<>>)
  OBVIOUS
<1>f. PICK y : y = [x EXCEPT !.code = <<p, u>>]
  OBVIOUS
<1>g. PICK bs : bs = Put(blocks, builder, Grown(blocks[builder].code, i))
  OBVIOUS
<1>1. /\ s.do = "guard" /\ stage' = stage /\ prog' = prog /\ builder' = n + 1
      /\ blocks' = bs \o <<x, y>>
      /\ Codegen!Advance(<<>>, <<>>)
  BY <1>a, <1>b, <1>c, <1>d, <1>e, <1>f, <1>g DEF Codegen!RuntimeGuard, Codegen!Active, Put, Grown
<1>2. m \in 1 .. m /\ Good(f) /\ Does(f, s)
  BY <1>a, TopDoes DEF Running
<1>3. DoesGuard(f, s)
  BY <1>1, <1>2, DoesWhat
<1>4. s.f \notin Terminator /\ Live(f) /\ Same(f, 0, 0)
  BY <1>3 DEF DoesGuard
<1>5. FramesOK(gens) /\ BlocksOK(blocks, builder, Waiting(gens)) /\ builder \in 1 .. Len(blocks) /\ ~Full(blocks[builder].code)
  BY <1>4 DEF Running
<1>6. FramesOK(gens') /\ Waiting(gens') = Waiting(gens) /\ Len(gens') = m /\ (Live(gens'[m]) <=> Live(f))
  <2>1. PICK e : e = <<>>
    OBVIOUS
  <2>2. IsSeq(e) /\ Len(e) = 0 /\ Advances(gens, gens', e, e)
    BY <1>1, <2>1, AdvanceIs, SeqSmall
  <2> QED BY <1>4, <1>5, <2>2, SameRuns
<1>7. PICK W : W = Waiting(gens)
  OBVIOUS
<1>8. BlocksOK(bs, builder, W) /\ Len(bs) = n /\ bs[builder].fn = blocks[builder].fn /\ Full(bs[builder].code)
  <2>1. i.op \in Terminator
    BY <1>c DEF Codegen!Instr, Terminator, Codegen!Terminator
  <2>2. /\ BlocksOK(bs, builder, W) /\ Len(bs) = Len(blocks) /\ bs[builder].fn = blocks[builder].fn
        /\ Full(bs[builder].code) <=> i.op \in Terminator
    <3>1. PICK c : c = Grown(blocks[builder].code, i)
      OBVIOUS
    <3>2. bs = Put(blocks, builder, c)
      BY <1>g, <3>1
    <3>3. BlocksOK(blocks, builder, W) /\ builder \in 1 .. Len(blocks) /\ ~Full(blocks[builder].code)
      BY <1>5, <1>7
    <3>4. Clean(blocks[builder].code)
      BY <3>3 DEF BlocksOK
    <3>5. Clean(c) /\ (Full(c) <=> i.op \in Terminator)
      BY <3>1, <3>3, <3>4, CleanGrown
    <3>6. BlocksOK(bs, builder, W) /\ Len(bs) = Len(blocks) /\ bs[builder].code = c /\ bs[builder].fn = blocks[builder].fn
      BY <3>2, <3>3, <3>5, BlocksPut
    <3> QED BY <3>5, <3>6
  <2> QED BY <1>b, <2>1, <2>2
<1>9. Block(x) /\ x.code = <<>> /\ x.fn = bs[builder].fn
  BY <1>d, <1>8 DEF Block, Codegen!Bare
<1>10. Block(y) /\ y.code = <<p, u>>
  BY <1>d, <1>f DEF Block, Codegen!Bare
<1>11. Clean(y.code) /\ Full(y.code)
  <2>1. p.op = s.f /\ u.op \in Terminator
    BY <1>e DEF Codegen!Instr, Terminator, Codegen!Terminator
  <2>2. PICK c : c = <<p, u>>
    OBVIOUS
  <2>3. IsSeq(c) /\ Len(c) = 2 /\ c[1] = p /\ c[2] = u /\ c # <<>>
    BY <2>2, SeqSmall
  <2> QED BY <1>4, <1>10, <2>1, <2>2, <2>3 DEF Clean, Full
<1>12. PICK cs : cs = blocks'
  OBVIOUS
<1>13. /\ BlocksOK(cs, Len(bs) + 1, W) /\ Len(bs) + 1 \in 1 .. Len(cs)
       /\ ~Full(cs[Len(bs) + 1].code)
  <2>1. cs = bs \o <<x, y>> /\ builder \in 1 .. Len(bs)
    BY <1>1, <1>5, <1>8, <1>12, <1>b
  <2> QED BY <1>8, <1>9, <1>10, <1>11, <2>1, BlocksGuard
<1> QED BY <1>1, <1>4, <1>6, <1>7, <1>8, <1>12, <1>13 DEF Running

LEMMA BlocksRuns ==
  ASSUME Vetted, Running(gens, blocks, builder), Codegen!AppendBlocks
  PROVE  stage' = stage /\ prog' = prog /\ Running(gens', blocks', builder')
<1> PICK m : m = Len(gens)
  OBVIOUS
<1> PICK f : f = gens[m]
  OBVIOUS
<1>a. PICK s : s = Codegen!Step
  OBVIOUS
<1>b. PICK n : n = Len(blocks)
  OBVIOUS
<1>c. PICK x : x = Codegen!Bare(builder)
  OBVIOUS
<1>d. PICK bb : bb = [j \in 1 .. s.m |-> n + j]
  OBVIOUS
<1>1. /\ s.do = "blocks" /\ stage' = stage /\ prog' = prog /\ builder' = builder
      /\ blocks' = Extended(blocks, s.m, x)
      /\ Codegen!Advance(<<>>, bb)
  BY <1>a, <1>b, <1>c, <1>d DEF Codegen!AppendBlocks, Codegen!Active, Extended
<1>2. m \in 1 .. m /\ Good(f) /\ Does(f, s)
  BY <1>a, TopDoes DEF Running
<1>3. DoesBlocks(f, s)
  BY <1>1, <1>2, DoesWhat
<1>4. PICK k : k = s.m
  OBVIOUS
<1>5. k \in {2, 3} /\ k \in Nat /\ f.bbs = <<>> /\ Pending(f) = {}
  BY <1>3, <1>4 DEF DoesBlocks
<1>6. IsSeq(bb) /\ Len(bb) = k /\ \A j \in 1 .. k : bb[j] = n + j
  <2>1. bb = [j \in 1 .. k |-> bb[j]] /\ \A j \in 1 .. k : bb[j] = n + j
    BY <1>d, <1>4
  <2>2. bb = [j \in 1 .. k |-> bb[j]]
    BY <2>1
  <2> QED BY <1>5, <2>1, <2>2, SeqBuilt
<1>7. PICK e : e = <<>>
  OBVIOUS
<1>8. IsSeq(e) /\ Len(e) = 0 /\ Advances(gens, gens', e, bb)
  BY <1>1, <1>7, AdvanceIs, SeqSmall
<1>9. PICK t : t = Advanced(f, e, bb)
  OBVIOUS
<1>10. Moves(f, t, 0, k) /\ t.bbs = f.bbs \o bb
  <2>1. IsSeq(bb) /\ Len(bb) = k
    BY <1>6
  <2>2. IsSeq(e) /\ Len(e) = 0 /\ Good(f)
    BY <1>2, <1>8
  <2>3. Moves(f, t, Len(e), Len(bb))
    BY <1>9, <2>1, <2>2, AdvancedMoves
  <2>4. t.bbs = f.bbs \o bb
    BY <1>9 DEF Advanced
  <2> QED BY <2>1, <2>2, <2>3, <2>4
<1>11. Good(t) /\ Pending(t) = 1 .. k /\ (Live(t) <=> Live(f))
  BY <1>3, <1>4, <1>10 DEF DoesBlocks
<1>12. \A j \in 1 .. k : t.bbs[j] = n + j
  <2>1. IsSeq(f.bbs) /\ Len(f.bbs) = 0
    BY <1>5, SeqSmall
  <2>2. TAKE j \in 1 .. k
  <2>3. (f.bbs \o bb)[Len(f.bbs) + j] = bb[j]
    BY <1>6, <2>1, SeqRight
  <2>4. Len(f.bbs) + j = j
    BY <1>5, <2>1
  <2> QED BY <1>6, <1>10, <2>3, <2>4
<1>13. FramesOK(gens) /\ BlocksOK(blocks, builder, Waiting(gens)) /\ builder \in 1 .. n /\ (Live(f) <=> ~Full(blocks[builder].code))
  BY <1>b DEF Running
<1>14. FramesOK(gens') /\ Len(gens') = m /\ gens'[m] = t /\ Waiting(gens') = (Waiting(gens) \ WaitsOf(gens, m)) \cup WaitsOf(gens', m)
  BY <1>6, <1>8, <1>9, <1>11, <1>13, TopAdvances
<1>15. PICK W : W = Waiting(gens)
  OBVIOUS
<1>16. PICK U : U = Waiting(gens')
  OBVIOUS
<1>17. U = W \cup Appended(m, k, n)
  <2>1. WaitsOf(gens, m) = {}
    BY <1>5 DEF WaitsOf
  <2>2. WaitsOf(gens', m) = {<<m, j, t.bbs[j]>> : j \in 1 .. k}
    BY <1>11, <1>14 DEF WaitsOf
  <2>3. WaitsOf(gens', m) = Appended(m, k, n)
    BY <1>12, <2>2 DEF Appended
  <2> QED BY <1>14, <1>15, <1>16, <2>1, <2>3
<1>18. Block(x) /\ x.code = <<>> /\ x.fn = blocks[builder].fn
  BY <1>c DEF Block, Codegen!Bare
<1>19. PICK cs : cs = blocks'
  OBVIOUS
<1>20. BlocksOK(cs, builder, U) /\ Len(cs) = n + k /\ cs[builder] = blocks[builder]
  <2>1. cs = Extended(blocks, k, x)
    BY <1>1, <1>4, <1>19
  <2>2. BlocksOK(blocks, builder, W) /\ builder \in 1 .. Len(blocks)
    BY <1>13, <1>15, <1>b
  <2>3. U = W \cup Appended(m, k, Len(blocks))
    BY <1>17, <1>b
  <2>4. k \in Nat
    BY <1>5
  <2>5. BlocksOK(cs, builder, U)
    BY <1>18, <2>1, <2>2, <2>3, <2>4, BlocksWait
  <2>8. IsSeq(blocks)
    BY <2>2 DEF BlocksOK
  <2>6. Len(cs) = Len(blocks) + k
    BY <2>1, <2>4, <2>8, ExtendedIs
  <2>7. cs[builder] = blocks[builder]
    BY <2>1, <2>2, <2>4, <2>8, ExtendedIs
  <2> QED BY <1>b, <2>5, <2>6, <2>7
<1>21. builder \in 1 .. Len(cs)
  <2>1. IsSeq(blocks)
    BY <1>13 DEF BlocksOK
  <2>2. n \in Nat
    BY <1>b, <2>1, SeqFacts
  <2> QED BY <1>5, <1>13, <1>20, <2>2
<1> QED BY <1>1, <1>11, <1>13, <1>14, <1>16, <1>19, <1>20, <1>21 DEF Running

LEMMA PositionRuns ==
  ASSUME Vetted, Running(gens, blocks, builder), Codegen!PositionAtEnd
  PROVE  stage' = stage /\ prog' = prog /\ Running(gens', blocks', builder')
<1> PICK m : m = Len(gens)
  OBVIOUS
<1> PICK f : f = gens[m]
  OBVIOUS
<1>a. PICK s : s = Codegen!Step
  OBVIOUS
<1>1. /\ s.do = "position" /\ stage' = stage /\ prog' = prog /\ builder' = s.b /\ blocks' = blocks
      /\ Codegen!Advance(<<>>, <<>>)
  BY <1>a DEF Codegen!PositionAtEnd, Codegen!Active
<1>2. m \in 1 .. m /\ Good(f) /\ Does(f, s)
  BY <1>a, TopDoes DEF Running
<1>3. DoesPosition(f, s)
  BY <1>1, <1>2, DoesWhat
<1>4. PICK j \in Pending(f) :
        /\ s.b = f.bbs[j]
        /\ \A g : Moves(f, g, 0, 0) => Good(g) /\ Pending(g) = Pending(f) \ {j} /\ Live(g)
  BY <1>3 DEF DoesPosition
<1>5. PICK e : e = <<>>
  OBVIOUS
<1>6. IsSeq(e) /\ Len(e) = 0 /\ Advances(gens, gens', e, e)
  BY <1>1, <1>5, AdvanceIs, SeqSmall
<1>7. PICK t : t = Advanced(f, e, e)
  OBVIOUS
<1>8. Moves(f, t, 0, 0)
  BY <1>2, <1>6, <1>7, AdvancedMoves
<1>9. Good(t) /\ Pending(t) = Pending(f) \ {j} /\ Live(t)
  BY <1>4, <1>8
<1>10. FramesOK(gens) /\ BlocksOK(blocks, builder, Waiting(gens)) /\ builder \in 1 .. Len(blocks) /\ Full(blocks[builder].code)
  BY <1>3 DEF Running, DoesPosition
<1>11. FramesOK(gens') /\ Len(gens') = m /\ gens'[m] = t /\ Waiting(gens') = (Waiting(gens) \ WaitsOf(gens, m)) \cup WaitsOf(gens', m)
  BY <1>6, <1>7, <1>9, <1>10, TopAdvances
<1>12. PICK w : w = <<m, j, f.bbs[j]>>
  OBVIOUS
<1>13. w[3] = s.b /\ w \in WaitsOf(gens, m)
  BY <1>4, <1>12 DEF WaitsOf
<1>14. w \in Waiting(gens) /\ WaitsOf(gens, m) \subseteq Waiting(gens)
  BY <1>2, <1>13, WaitingIs
<1>15. WaitsOf(gens', m) = WaitsOf(gens, m) \ {w}
  <2>1. \A i \in Pending(f) : t.bbs[i] = f.bbs[i]
    BY <1>2, <1>8, PendingThere DEF Moves
  <2>2. WaitsOf(gens', m) = {<<m, i, t.bbs[i]>> : i \in Pending(f) \ {j}}
    BY <1>9, <1>11 DEF WaitsOf
  <2>3. WaitsOf(gens, m) = {<<m, i, f.bbs[i]>> : i \in Pending(f)}
    BY DEF WaitsOf
  <2>4. \A i \in Pending(f) : <<m, i, f.bbs[i]>> = w <=> i = j
    BY <1>12
  <2>5. WaitsOf(gens', m) = {<<m, i, f.bbs[i]>> : i \in Pending(f) \ {j}}
    BY <2>1, <2>2
  <2> QED BY <2>3, <2>4, <2>5
<1>16. PICK W : W = Waiting(gens)
  OBVIOUS
<1>17. Waiting(gens') = W \ {w}
  <2>1. PICK S : S = WaitsOf(gens, m)
    OBVIOUS
  <2>2. PICK U : U = Waiting(gens')
    OBVIOUS
  <2>3. U = (W \ S) \cup (S \ {w})
    BY <1>11, <1>15, <1>16, <2>1, <2>2
  <2>4. S \subseteq W /\ w \in S
    BY <1>13, <1>14, <1>16, <2>1
  <2>5. U = W \ {w}
    BY <2>3, <2>4
  <2> QED BY <2>2, <2>5
<1>18. /\ BlocksOK(blocks, w[3], W \ {w}) /\ w[3] \in 1 .. Len(blocks)
       /\ ~Full(blocks[w[3]].code)
  <2>1. w \in W /\ BlocksOK(blocks, builder, W)
    BY <1>10, <1>14, <1>16
  <2> QED BY <1>10, <2>1, BlocksEnter
<1> QED BY <1>1, <1>9, <1>11, <1>13, <1>17, <1>18 DEF Running

LEMMA MarkRuns ==
  ASSUME Vetted, Running(gens, blocks, builder), Codegen!GetInsertBlock
  PROVE  stage' = stage /\ prog' = prog /\ Running(gens', blocks', builder')
<1> PICK m : m = Len(gens)
  OBVIOUS
<1> PICK f : f = gens[m]
  OBVIOUS
<1>a. PICK s : s = Codegen!Step
  OBVIOUS
<1>1. /\ s.do = "mark" /\ stage' = stage /\ prog' = prog /\ builder' = builder /\ blocks' = blocks
      /\ Codegen!Advance(<<>>, <<builder>>)
  BY <1>a DEF Codegen!GetInsertBlock, Codegen!Active
<1>2. m \in 1 .. m /\ Good(f) /\ Does(f, s)
  BY <1>a, TopDoes DEF Running
<1>3. Same(f, 0, 1)
  BY <1>1, <1>2, DoesWhat DEF DoesMark
<1>4. PICK e : e = <<>>
  OBVIOUS
<1>5. PICK bb : bb = <<builder>>
  OBVIOUS
<1>6. IsSeq(e) /\ Len(e) = 0 /\ IsSeq(bb) /\ Len(bb) = 1 /\ Advances(gens, gens', e, bb)
  BY <1>1, <1>4, <1>5, AdvanceIs, SeqSmall
<1>7. FramesOK(gens)
  BY DEF Running
<1>8. FramesOK(gens') /\ Waiting(gens') = Waiting(gens) /\ Len(gens') = m /\ (Live(gens'[m]) <=> Live(f))
  BY <1>3, <1>6, <1>7, SameRuns
<1> QED BY <1>1, <1>8 DEF Running

LEMMA BindRuns ==
  ASSUME Vetted, Running(gens, blocks, builder), Codegen!BindName
  PROVE  stage' = stage /\ prog' = prog /\ Running(gens', blocks', builder')
<1> PICK m : m = Len(gens)
  OBVIOUS
<1> PICK f : f = gens[m]
  OBVIOUS
<1>a. PICK s : s = Codegen!Step
  OBVIOUS
<1>1. /\ s.do = "bind" /\ stage' = stage /\ prog' = prog /\ builder' = builder /\ blocks' = blocks
      /\ Codegen!Advance(<<>>, <<>>)
  BY <1>a DEF Codegen!BindName, Codegen!Active
<1>2. m \in 1 .. m /\ Good(f) /\ Does(f, s)
  BY <1>a, TopDoes DEF Running
<1>3. Same(f, 0, 0)
  BY <1>1, <1>2, DoesWhat DEF DoesBind
<1>4. PICK e : e = <<>>
  OBVIOUS
<1>6. IsSeq(e) /\ Len(e) = 0 /\ Advances(gens, gens', e, e)
  BY <1>1, <1>4, AdvanceIs, SeqSmall
<1>7. FramesOK(gens)
  BY DEF Running
<1>8. FramesOK(gens') /\ Waiting(gens') = Waiting(gens) /\ Len(gens') = m /\ (Live(gens'[m]) <=> Live(f))
  BY <1>3, <1>6, <1>7, SameRuns
<1> QED BY <1>1, <1>8 DEF Running

LEMMA AllocaRuns ==
  ASSUME Vetted, Running(gens, blocks, builder), Codegen!CreateEntryAlloca
  PROVE  stage' = stage /\ prog' = prog /\ Running(gens', blocks', builder')
<1> PICK m : m = Len(gens)
  OBVIOUS
<1> PICK f : f = gens[m]
  OBVIOUS
<1>a. PICK s : s = Codegen!Step
  OBVIOUS
<1>b. PICK x : x = Codegen!Instr("alloca", "ptr", <<>>, <<>>)
  OBVIOUS
<1>c. PICK en : en = Codegen!EntryBlock
  OBVIOUS
<1>d. PICK vs : vs = <<Codegen!Reg("ptr", regs + 1)>>
  OBVIOUS
<1>1. /\ s.do = "alloca" /\ stage' = stage /\ prog' = prog /\ builder' = builder
      /\ blocks' = Put(blocks, en, <<x>> \o blocks[en].code)
      /\ Codegen!Advance(vs, <<>>)
  BY <1>a, <1>b, <1>c, <1>d DEF Codegen!CreateEntryAlloca, Codegen!Active, Put
<1>2. m \in 1 .. m /\ Good(f) /\ Does(f, s)
  BY <1>a, TopDoes DEF Running
<1>3. Same(f, 1, 0)
  BY <1>1, <1>2, DoesWhat DEF DoesAlloca
<1>4. PICK e : e = <<>>
  OBVIOUS
<1>5. IsSeq(vs) /\ Len(vs) = 1
  BY <1>d, SeqSmall
<1>6. IsSeq(e) /\ Len(e) = 0 /\ Advances(gens, gens', vs, e)
  BY <1>1, <1>4, AdvanceIs, SeqSmall
<1>7. FramesOK(gens) /\ builder \in 1 .. Len(blocks) /\ (Live(f) <=> ~Full(blocks[builder].code))
  BY DEF Running
<1>8. FramesOK(gens') /\ Waiting(gens') = Waiting(gens) /\ Len(gens') = m /\ (Live(gens'[m]) <=> Live(f))
  <2>1. Same(f, Len(vs), Len(e)) /\ IsSeq(vs) /\ IsSeq(e)
    BY <1>3, <1>5, <1>6
  <2>2. FramesOK(gens) /\ Advances(gens, gens', vs, e)
    BY <1>6, <1>7
  <2> QED BY <2>1, <2>2, SameRuns
<1>9. x.op \notin Terminator
  BY <1>b DEF Codegen!Instr, Terminator, Codegen!Terminator
<1>10. PICK W : W = Waiting(gens)
  OBVIOUS
<1>11. BlocksOK(blocks, builder, W)
  BY <1>10 DEF Running
<1>12. PICK bs : bs = blocks'
  OBVIOUS
<1>13. bs = Put(blocks, en, <<x>> \o blocks[en].code)
  BY <1>1, <1>12
<1>14. BlocksOK(bs, builder, W)
  BY <1>7, <1>9, <1>11, <1>13, BlocksAlloca
<1>15. Len(bs) = Len(blocks)
  BY <1>7, <1>9, <1>11, <1>13, BlocksAlloca
<1>16. Full(bs[builder].code) <=> Full(blocks[builder].code)
  BY <1>7, <1>9, <1>11, <1>13, BlocksAlloca
<1> QED BY <1>1, <1>7, <1>8, <1>10, <1>12, <1>14, <1>15, <1>16 DEF Running

\* A child is generated.
LEMMA GenRuns ==
  ASSUME Vetted, Running(gens, blocks, builder), Codegen!GenChild
  PROVE  stage' = stage /\ prog' = prog /\ Running(gens', blocks', builder')
<1> PICK m : m = Len(gens)
  OBVIOUS
<1> PICK f : f = gens[m]
  OBVIOUS
<1>a. PICK s : s = Codegen!Step
  OBVIOUS
<1>b. PICK owned : gens' = Append(gens, Codegen!Frame(s.n, owned))
  BY <1>a DEF Codegen!GenChild
<1>c. PICK t : t = Codegen!Frame(s.n, owned)
  OBVIOUS
<1>1. /\ s.do \in {"gen", "value"} /\ stage' = stage /\ prog' = prog /\ builder' = builder /\ blocks' = blocks
      /\ gens' = Append(gens, t)
  BY <1>a, <1>b, <1>c DEF Codegen!GenChild, Codegen!Active
<1>2. m \in 1 .. m /\ m \in Nat \ {0} /\ Good(f) /\ Does(f, s)
  BY <1>a, TopDoes DEF Running
<1>3. DoesGen(f, s)
  BY <1>1, <1>2, DoesWhat
<1>4. /\ Live(f) /\ s.n \in NodesOf(prog) /\ Nodes[s.n].k \in ExprKind \cup StmtKind /\ Awaits(f, s.n)
  BY <1>3 DEF DoesGen
<1>5. Good(t) /\ Live(t) /\ Pending(t) = {} /\ t.n = s.n
  BY <1>4, <1>c, FreshFrame
<1>6. FramesOK(gens) /\ BlocksOK(blocks, builder, Waiting(gens)) /\ builder \in 1 .. Len(blocks) /\ ~Full(blocks[builder].code)
  BY <1>4 DEF Running
<1>7. IsSeq(gens)
  BY <1>6 DEF FramesOK
<1>8. PICK h : h = gens'
  OBVIOUS
<1>9. IsSeq(h) /\ Len(h) = m + 1 /\ h[m + 1] = t /\ \A i \in 1 .. m : h[i] = gens[i]
  BY <1>1, <1>7, <1>8, SeqAppend
<1>10. Kind(t) # "Func"
  BY <1>4, <1>5 DEF Kind, ExprKind, StmtKind
<1>11. FramesOK(h)
  <2>1. \A i \in 1 .. m + 1 : i \in 1 .. m \/ i = m + 1
    BY <1>2
  <2>2. \A i \in 1 .. m + 1 : Good(h[i])
    BY <1>5, <1>6, <1>9, <2>1 DEF FramesOK
  <2>3. Kind(h[1]) = "Func" /\ h[1].n \in {prog[i] : i \in DOMAIN prog}
    <3>1. 1 \in 1 .. m
      BY <1>2
    <3> QED BY <1>6, <1>9, <3>1 DEF FramesOK
  <2>4. \A i \in 2 .. m + 1 : Kind(h[i]) # "Func"
    <3>1. \A i \in 2 .. m + 1 : (i \in 2 .. m /\ i \in 1 .. m) \/ i = m + 1
      BY <1>2
    <3> QED BY <1>6, <1>9, <1>10, <3>1 DEF FramesOK
  <2>5. \A i \in 1 .. m : Awaits(h[i], h[i + 1].n)
    <3>1. TAKE i \in 1 .. m
    <3>2. CASE i = m
      BY <1>4, <1>5, <1>9, <3>2
    <3>3. CASE i # m
      <4>1. i \in 1 .. m - 1 /\ i + 1 \in 1 .. m
        BY <1>2, <3>3
      <4> QED BY <1>6, <1>9, <4>1 DEF FramesOK
    <3> QED BY <3>2, <3>3
  <2>6. Len(h) > 0 /\ m + 1 - 1 = m
    BY <1>2, <1>9
  <2> QED BY <1>9, <2>2, <2>3, <2>4, <2>5, <2>6 DEF FramesOK
<1>12. Waiting(h) = Waiting(gens)
  <2>1. \A i \in 1 .. m : WaitsOf(h, i) = WaitsOf(gens, i)
    BY <1>9 DEF WaitsOf
  <2>2. Pending(h[m + 1]) = {}
    BY <1>5, <1>9
  <2> QED BY <1>7, <1>9, <2>1, <2>2, WaitingPush
<1> QED BY <1>1, <1>5, <1>6, <1>8, <1>9, <1>11, <1>12 DEF Running

\* It answers, and its caller goes on.
LEMMA SeqFront ==
  ASSUME NEW g, IsSeq(g), NEW n \in Nat, Len(g) = n + 1, NEW h, h = SubSeq(g, 1, n)
  PROVE  IsSeq(h) /\ Len(h) = n /\ \A i \in 1 .. n : h[i] = g[i]
<1>1. DOMAIN g = 1 .. n + 1
  BY SeqFacts
<1>2. h = [i \in 1 .. n |-> h[i]] /\ \A i \in 1 .. n : h[i] = g[i]
  BY <1>1
<1>3. h = [i \in 1 .. n |-> h[i]]
  BY <1>2
<1> QED BY <1>2, <1>3, SeqBuilt

Answered(f, x) == [n |-> f.n, pc |-> f.pc + 1, owned |-> f.owned, vs |-> Append(f.vs, x), bbs |-> f.bbs]

LEMMA AnsweredMoves ==
  ASSUME NEW f, Good(f), NEW x, NEW t, t = Answered(f, x)
  PROVE  Moves(f, t, 1, 0) /\ t.n = f.n /\ t.vs[Len(f.vs) + 1] = x
<1>1. /\ t = [n |-> t.n, pc |-> t.pc, owned |-> t.owned, vs |-> t.vs, bbs |-> t.bbs]
      /\ t.n = f.n /\ t.pc = f.pc + 1 /\ t.vs = Append(f.vs, x) /\ t.bbs = f.bbs
  BY DEF Answered
<1>2. IsSeq(f.vs) /\ IsSeq(f.bbs)
  BY DEF Good
<1>3. IsSeq(t.vs) /\ Len(t.vs) = Len(f.vs) + 1 /\ t.vs[Len(f.vs) + 1] = x /\ \A i \in 1 .. Len(f.vs) : t.vs[i] = f.vs[i]
  BY <1>1, <1>2, SeqAppend
<1>4. Len(t.bbs) = Len(f.bbs) + 0
  BY <1>1, <1>2, SeqFacts
<1> QED BY <1>1, <1>2, <1>3, <1>4 DEF Moves

Answers(g, n, h, x) == h = [g EXCEPT ![n].pc = @ + 1, ![n].vs = Append(@, x)]

LEMMA AnswerTop ==
  ASSUME NEW g, IsSeq(g), NEW n, n = Len(g), n > 0, Good(g[n]), NEW x, NEW h, Answers(g, n, h, x)
  PROVE  TopIs(g, h, Answered(g[n], x))
<1>1. DOMAIN g = 1 .. n /\ n \in Nat /\ n \in 1 .. n
  BY SeqFacts
<1>2. g[n] = [n |-> g[n].n, pc |-> g[n].pc, owned |-> g[n].owned, vs |-> g[n].vs, bbs |-> g[n].bbs]
  BY DEF Good
<1>3. h[n] = Answered(g[n], x)
  BY <1>1, <1>2 DEF Answered, Answers
<1>4. PICK y : y = [g[n] EXCEPT !.pc = @ + 1]
  OBVIOUS
<1>5. PICK a : a = At(g, n, y)
  OBVIOUS
<1>6. PICK z : z = [a[n] EXCEPT !.vs = Append(@, x)]
  OBVIOUS
<1>7. h = At(a, n, z)
  BY <1>4, <1>5, <1>6 DEF At, Answers
<1>8. IsSeq(a) /\ Len(a) = n /\ \A i \in 1 .. n : i # n => a[i] = g[i]
  BY <1>5, SeqExcept
<1>9. IsSeq(h) /\ Len(h) = n /\ \A i \in 1 .. n : i # n => h[i] = a[i]
  BY <1>7, <1>8, SeqExcept
<1>10. \A i \in 1 .. n - 1 : i \in 1 .. n /\ i # n
  BY <1>1
<1> QED BY <1>3, <1>8, <1>9, <1>10 DEF TopIs

LEMMA ReturnRuns ==
  ASSUME Vetted, Running(gens, blocks, builder), Codegen!Return, ~Codegen!Panics
  PROVE  stage' = stage /\ prog' = prog /\ Running(gens', blocks', builder')
<1> PICK m : m = Len(gens)
  OBVIOUS
<1> PICK f : f = gens[m]
  OBVIOUS
<1>a. PICK s : s = Codegen!Step
  OBVIOUS
<1>b. PICK n : n = m - 1
  OBVIOUS
<1>c. PICK g : g = SubSeq(gens, 1, n)
  OBVIOUS
<1>d. PICK h : h = gens'
  OBVIOUS
<1>0. m \in 1 .. m /\ m \in Nat \ {0} /\ IsSeq(gens) /\ f = Codegen!Top /\ Good(f) /\ Does(f, s)
  BY <1>a, TopDoes DEF Running
<1>1. /\ s.do = "give" /\ Kind(f) # "Func" /\ stage' = stage /\ prog' = prog /\ builder' = builder /\ blocks' = blocks
      /\ Answers(g, n, h, s.x)
  BY <1>0, <1>a, <1>b, <1>c, <1>d DEF Codegen!Return, Codegen!Active, Answers, Kind
<1>2. DoesGive(f, s)
  BY <1>0, <1>1, DoesWhat
<1>3. Pending(f) = {} /\ Gives(f.n, s.x) /\ (Live(f) <=> ~MustReturn(f.n))
  BY <1>2 DEF DoesGive
<1>4. FramesOK(gens) /\ BlocksOK(blocks, builder, Waiting(gens)) /\ builder \in 1 .. Len(blocks) /\ (Live(f) <=> ~Full(blocks[builder].code))
  BY DEF Running
<1>5. m # 1
  BY <1>1, <1>4 DEF FramesOK
<1>6. n \in Nat /\ n > 0 /\ m = n + 1 /\ n \in 1 .. n /\ n \in 1 .. m /\ \A i \in 1 .. n : i \in 1 .. m
  BY <1>0, <1>5, <1>b
<1>7. IsSeq(g) /\ Len(g) = n /\ \A i \in 1 .. n : g[i] = gens[i]
  <2>1. IsSeq(gens) /\ n \in Nat /\ Len(gens) = n + 1
    BY <1>0, <1>6
  <2> QED BY <2>1, <1>c, SeqFront
<1>8. Good(g[n])
  BY <1>4, <1>6, <1>7 DEF FramesOK
<1>9. PICK t : t = Answered(g[n], s.x)
  OBVIOUS
<1>10. TopIs(g, h, t)
  BY <1>1, <1>6, <1>7, <1>8, <1>9, AnswerTop
<1>11. Moves(g[n], t, 1, 0) /\ t.n = g[n].n /\ t.vs[Len(g[n].vs) + 1] = s.x
  BY <1>8, <1>9, AnsweredMoves
<1>12. Good(t) /\ Pending(t) = Pending(g[n]) /\ (Live(t) <=> ~MustReturn(f.n))
  <2>1. n \in 1 .. m - 1
    BY <1>6
  <2>2. Awaits(gens[n], gens[n + 1].n)
    BY <1>4, <2>1 DEF FramesOK
  <2>3. Awaits(g[n], f.n)
    BY <1>6, <1>7, <2>2
  <2> QED BY <1>3, <1>11, <2>3 DEF Awaits
<1>13. FramesOK(g)
  <2>1. \A i \in 1 .. n : Good(g[i])
    BY <1>4, <1>6, <1>7 DEF FramesOK
  <2>2. Kind(g[1]) = "Func" /\ g[1].n \in {prog[i] : i \in DOMAIN prog}
    <3>1. 1 \in 1 .. n
      BY <1>6
    <3> QED BY <1>4, <1>7, <3>1 DEF FramesOK
  <2>3. \A i \in 2 .. n : Kind(g[i]) # "Func"
    <3>1. \A i \in 2 .. n : i \in 1 .. n /\ i \in 2 .. m
      BY <1>6
    <3> QED BY <1>4, <1>7, <3>1 DEF FramesOK
  <2>4. \A i \in 1 .. n - 1 : Awaits(g[i], g[i + 1].n)
    <3>1. \A i \in 1 .. n - 1 : i \in 1 .. n /\ i + 1 \in 1 .. n /\ i \in 1 .. m - 1
      BY <1>6
    <3> QED BY <1>4, <1>7, <3>1 DEF FramesOK
  <2> QED BY <1>6, <1>7, <2>1, <2>2, <2>3, <2>4 DEF FramesOK
<1>14. FramesOK(h)
  BY <1>7, <1>10, <1>11, <1>12, <1>13, FramesMove
<1>15. IsSeq(h) /\ Len(h) = n /\ h[n] = t /\ \A i \in 1 .. n - 1 : h[i] = g[i]
  BY <1>7, <1>10 DEF TopIs
<1>16. \A i \in 1 .. n : WaitsOf(gens, i) = WaitsOf(h, i)
  <2>1. TAKE i \in 1 .. n
  <2>2. CASE i = n
    <3>1. \A j \in Pending(g[n]) : t.bbs[j] = g[n].bbs[j]
      BY <1>8, <1>11, PendingThere DEF Moves
    <3>2. gens[i] = g[n] /\ h[i] = t
      BY <1>7, <1>15, <2>2
    <3> QED BY <1>12, <3>1, <3>2, WaitsSame
  <2>3. CASE i # n
    <3>1. i \in 1 .. n - 1
      BY <1>6, <2>3
    <3>2. gens[i] = h[i]
      BY <1>7, <1>15, <3>1
    <3> QED BY <3>2, WaitsSame
  <2> QED BY <2>2, <2>3
<1>17. Waiting(gens) = Waiting(h)
  <2>1. Len(gens) = Len(h) + 1 /\ Pending(gens[n + 1]) = {}
    BY <1>3, <1>6, <1>15
  <2>2. n = Len(h)
    BY <1>15
  <2> QED BY <1>0, <1>15, <1>16, <2>1, <2>2, WaitingPush
<1>18. Live(h[Len(h)]) <=> ~Full(blocks[builder].code)
  BY <1>3, <1>4, <1>12, <1>15
<1> QED BY <1>1, <1>4, <1>14, <1>17, <1>18, <1>d DEF Running
-----------------------------------------------------------------------------
(***************************************************************************)
(* A function's beginning and its end, and the C main.                     *)
(***************************************************************************)
\* Code without a terminator.
LEMMA CleanOpen ==
  ASSUME NEW c, IsSeq(c), \A i \in 1 .. Len(c) : c[i].op \notin Terminator
  PROVE  Clean(c) /\ ~Full(c)
<1>1. PICK m : m = Len(c)
  OBVIOUS
<1>2. m \in Nat /\ \A i \in 1 .. m - 1 : i \in 1 .. m
  BY <1>1, SeqFacts
<1>3. Clean(c)
  BY <1>1, <1>2 DEF Clean
<1>4. ASSUME c # <<>> PROVE m \in 1 .. m
  BY <1>1, <1>2, <1>4, SeqEmpty
<1> QED BY <1>1, <1>3, <1>4 DEF Full

\* A function's parameters are spilled to slots: nothing in its entry ends it.
LEMMA OpenJoin ==
  ASSUME NEW a, IsSeq(a), NEW s, IsSeq(s), \A i \in 1 .. Len(a) : a[i].op \notin Terminator,
         \A i \in 1 .. Len(s) : s[i].op \notin Terminator, NEW c, c = a \o s
  PROVE  Clean(c) /\ ~Full(c)
<1>1. PICK m : m = Len(a)
  OBVIOUS
<1>2. PICK n : n = Len(s)
  OBVIOUS
<1>3. m \in Nat /\ n \in Nat
  BY <1>1, <1>2, SeqFacts
<1>4. IsSeq(c) /\ Len(c) = m + n
  BY <1>1, <1>2, SeqIs, SeqLen
<1>5. \A i \in 1 .. m : c[i] = a[i]
  BY <1>1, SeqLeft
<1>6. \A i \in 1 .. n : c[m + i] = s[i]
  BY <1>1, <1>2, SeqRight
<1>7. \A i \in 1 .. m : c[i].op \notin Terminator
  BY <1>1, <1>5
<1>8. \A j \in 1 .. n : c[m + j].op \notin Terminator
  BY <1>2, <1>6
<1>9. \A i \in 1 .. m + n : i \in 1 .. m \/ \E j \in 1 .. n : i = m + j
  <2>1. TAKE i \in 1 .. m + n
  <2>2. i > m => i - m \in 1 .. n /\ i = m + (i - m)
    BY <1>3
  <2> QED BY <1>3, <2>2
<1>10. \A i \in 1 .. m + n : c[i].op \notin Terminator
  BY <1>7, <1>8, <1>9
<1> QED BY <1>4, <1>10, CleanOpen

LEMMA CompileRuns ==
  ASSUME Vetted, gens = <<>>, BlocksOK(blocks, 0, {}), todo \in Nat \ {0}, Codegen!CompileFunction
  PROVE  /\ stage' = stage /\ stage = "compile" /\ prog' = prog /\ todo' = todo
         /\ gens' # <<>> /\ Running(gens', blocks', builder')
<1>a. PICK d : d = prog[todo]
  OBVIOUS
<1>b. PICK ps : ps = Nodes[d].params
  OBVIOUS
<1>c. PICK m : m = Len(ps)
  OBVIOUS
<1>d. PICK as : as = [i \in 1 .. m |-> [Codegen!Instr("alloca", "ptr", <<>>, <<>>) EXCEPT !.r = regs + m + 1 - i]]
  OBVIOUS
<1>e. PICK ss : ss = [i \in 1 .. m |->
                        [Codegen!Instr("store", "none",
                           <<Codegen!Reg("ptr", regs + i), Codegen!Arg(Codegen!LType(Nodes[ps[i]].ty), i)>>, <<>>)
                           EXCEPT !.r = regs + m + i]]
  OBVIOUS
<1>f. PICK c : c = as \o ss
  OBVIOUS
<1>1. /\ stage = "compile" /\ todo <= Len(prog) /\ Nodes[d].k = "Func"
      /\ stage' = stage /\ prog' = prog /\ todo' = todo /\ builder' = Len(blocks) + 1
      /\ gens' = <<Codegen!Frame(d, 0)>>
  BY <1>a DEF Codegen!CompileFunction, Codegen!Decl
<1>2. PICK fn : blocks' = Append(blocks, [fn |-> fn, code |-> c])
  BY <1>a, <1>b, <1>c, <1>d, <1>e, <1>f DEF Codegen!CompileFunction, Codegen!Decl
<1>3. todo \in 1 .. Len(prog) /\ d \in NodesOf(prog) /\ d \in NodeId /\ d \in {prog[i] : i \in DOMAIN prog}
  <2>1. prog \in Programs
    BY DEF Vetted
  <2>2. DOMAIN prog = 1 .. Len(prog) /\ Len(prog) \in Nat
    BY <2>1, ProgramNodes
  <2>3. todo \in 1 .. Len(prog)
    BY <1>1, <2>2
  <2> QED BY <1>a, <2>1, <2>2, <2>3, ProgramNodes
<1>4. m \in Nat
  BY <1>3, <1>b, <1>c, NodeType
<1>5. IsSeq(as) /\ Len(as) = m /\ \A i \in 1 .. m : as[i].op = "alloca"
  <2>1. as = [i \in 1 .. m |-> as[i]]
    BY <1>d
  <2>2. \A i \in 1 .. m : as[i].op = "alloca"
    BY <1>d DEF Codegen!Instr
  <2> QED BY <1>4, <2>1, <2>2, SeqBuilt
<1>6. IsSeq(ss) /\ Len(ss) = m /\ \A i \in 1 .. m : ss[i].op = "store"
  <2>1. ss = [i \in 1 .. m |-> ss[i]]
    BY <1>e
  <2>2. \A i \in 1 .. m : ss[i].op = "store"
    BY <1>e DEF Codegen!Instr
  <2> QED BY <1>4, <2>1, <2>2, SeqBuilt
<1>7. Clean(c) /\ ~Full(c)
  <2>1. "alloca" \notin Terminator /\ "store" \notin Terminator
    BY DEF Terminator, Codegen!Terminator
  <2>2. \A i \in 1 .. Len(as) : as[i].op \notin Terminator
    BY <1>5, <2>1
  <2>3. \A i \in 1 .. Len(ss) : ss[i].op \notin Terminator
    BY <1>6, <2>1
  <2>4. IsSeq(as) /\ IsSeq(ss)
    BY <1>5, <1>6
  <2> QED BY <1>f, <2>2, <2>3, <2>4, OpenJoin
<1>8. PICK x : x = [fn |-> fn, code |-> c]
  OBVIOUS
<1>9. Block(x) /\ Clean(x.code) /\ ~Full(x.code)
  BY <1>7, <1>8 DEF Block
<1>10. PICK bs : bs = blocks'
  OBVIOUS
<1>11. bs = Append(blocks, x)
  BY <1>2, <1>8, <1>10
<1>12. BlocksOK(bs, builder', {}) /\ builder' \in 1 .. Len(bs) /\ bs[builder'] = x
  <2>1. Block(x) /\ Clean(x.code)
    BY <1>9
  <2>2. BlocksOK(bs, Len(blocks) + 1, {}) /\ Len(blocks) + 1 \in 1 .. Len(bs) /\ bs[Len(blocks) + 1] = x
    BY <1>11, <2>1, BlocksBegin
  <2> QED BY <1>1, <2>2
<1>13. PICK f : f = Codegen!Frame(d, 0)
  OBVIOUS
<1>14. Good(f) /\ Live(f) /\ Pending(f) = {} /\ f.n = d
  BY <1>1, <1>3, <1>13, FreshFrame
<1>15. PICK h : h = gens'
  OBVIOUS
<1>16. IsSeq(h) /\ Len(h) = 1 /\ h[1] = f
  BY <1>1, <1>13, <1>15, SeqSmall
<1>17. \A i \in 1 .. Len(h) : i = 1
  BY <1>16
<1>18. FramesOK(h)
  <2>1. \A i \in 1 .. Len(h) : Good(h[i])
    BY <1>14, <1>16, <1>17
  <2>2. Kind(h[1]) = "Func" /\ h[1].n \in {prog[i] : i \in DOMAIN prog}
    BY <1>1, <1>3, <1>14, <1>16 DEF Kind
  <2>3. (\A i \in 2 .. Len(h) : FALSE) /\ (\A i \in 1 .. Len(h) - 1 : FALSE) /\ Len(h) > 0
    BY <1>16
  <2> QED BY <1>16, <2>1, <2>2, <2>3 DEF FramesOK
<1>19. Waiting(h) = {}
  <2>1. \A i \in 1 .. Len(h) : WaitsOf(h, i) = {}
    BY <1>14, <1>16, <1>17 DEF WaitsOf
  <2> QED BY <2>1, WaitingIs
<1>20. h # <<>>
  BY <1>16, SeqSmall
<1> QED BY <1>1, <1>9, <1>10, <1>12, <1>14, <1>15, <1>16, <1>18, <1>19, <1>20 DEF Running

\* A function's body answers, with what MustReturn says of it.
LEMMA BodyAnswers ==
  ASSUME Vetted, Running(gens, blocks, builder), Codegen!Active({"give"}), Nodes[Codegen!Top.n].k = "Func",
         NEW f, f = Codegen!Top
  PROVE  /\ gens[1] = f /\ Len(gens) = 1 /\ Waiting(gens) = {} /\ f.n \in {prog[i] : i \in DOMAIN prog}
         /\ (Ended(Codegen!Step.x) <=> MustReturn(f.n)) /\ (Live(f) <=> ~MustReturn(f.n))
<1> PICK m : m = Len(gens)
  OBVIOUS
<1>a. PICK s : s = Codegen!Step
  OBVIOUS
<1>1. s.do = "give" /\ Kind(f) = "Func"
  BY <1>a DEF Codegen!Active, Kind
<1>2. f = gens[m] /\ m \in 1 .. m /\ m \in Nat \ {0} /\ Good(f) /\ Does(f, s)
  <2>1. PICK t : t = gens[m]
    OBVIOUS
  <2>2. m \in 1 .. m /\ m \in Nat \ {0} /\ t = Codegen!Top /\ Good(t) /\ Does(t, s)
    BY <1>a, <2>1, TopDoes DEF Running
  <2> QED BY <2>1, <2>2
<1>3. DoesGive(f, s)
  BY <1>1, <1>2, DoesWhat
<1>4. Pending(f) = {} /\ Gives(f.n, s.x) /\ (Live(f) <=> ~MustReturn(f.n))
  BY <1>3 DEF DoesGive
<1>5. FramesOK(gens)
  BY DEF Running
<1>6. m = 1
  <2>1. m # 1 => m \in 2 .. m
    BY <1>2
  <2> QED BY <1>1, <1>2, <1>5, <2>1 DEF FramesOK
<1>7. gens[1] = f /\ Len(gens) = 1
  BY <1>2, <1>6
<1>8. f.n \in {prog[i] : i \in DOMAIN prog}
  BY <1>5, <1>7 DEF FramesOK
<1>9. Waiting(gens) = {}
  <2>1. \A i \in 1 .. Len(gens) : i = 1
    BY <1>7
  <2>2. \A i \in 1 .. Len(gens) : WaitsOf(gens, i) = {}
    BY <1>4, <1>7, <2>1 DEF WaitsOf
  <2> QED BY <2>2, WaitingIs
<1>10. Ended(s.x) <=> MustReturn(f.n)
  BY <1>1, <1>4 DEF Gives, Kind, ExprKind
<1> QED BY <1>a, <1>4, <1>7, <1>8, <1>9, <1>10

LEMMA EndRuns ==
  ASSUME Vetted, Running(gens, blocks, builder), todo \in Nat \ {0}, Codegen!EndFunction
  PROVE  stage' = stage /\ prog' = prog /\ todo' \in Nat \ {0} /\ gens' = <<>> /\ BlocksOK(blocks', 0, {})
<1>a. PICK f : f = Codegen!Top
  OBVIOUS
<1>b. PICK c : c = blocks[builder].code
  OBVIOUS
<1>c. PICK d : d = Codegen!Close(c)
  OBVIOUS
<1>1. /\ Codegen!Active({"give"}) /\ Nodes[Codegen!Top.n].k = "Func"
      /\ stage' = stage /\ prog' = prog /\ gens' = <<>> /\ todo' = todo + 1
      /\ blocks' = Put(blocks, builder, d)
  BY <1>b, <1>c DEF Codegen!EndFunction, Put
<1>2. /\ gens[1] = f /\ Len(gens) = 1 /\ Waiting(gens) = {}
      /\ (Ended(Codegen!Step.x) <=> MustReturn(f.n)) /\ (Live(f) <=> ~MustReturn(f.n))
  BY <1>a, <1>1, BodyAnswers
<1>3. BlocksOK(blocks, builder, {}) /\ builder \in 1 .. Len(blocks) /\ (Ended(Codegen!Step.x) <=> Full(c))
  BY <1>2, <1>b DEF Running
<1>4. Clean(c)
  BY <1>3, <1>b DEF BlocksOK
<1>5. Clean(d) /\ Full(d)
  <2>1. CASE Ended(Codegen!Step.x)
    BY <1>3, <1>4, <1>c, <2>1 DEF Codegen!Close, Ended
  <2>2. CASE ~Ended(Codegen!Step.x)
    <3>1. PICK i : i = Codegen!Instr(IF Codegen!Decl.ty = Codegen!TVoid THEN "ret" ELSE "unreachable", "none", <<>>, <<>>)
      OBVIOUS
    <3>2. i.op \in Terminator
      BY <3>1 DEF Codegen!Instr, Terminator, Codegen!Terminator
    <3>3. d = Grown(c, i)
      BY <1>c, <2>2, <3>1 DEF Codegen!Close, Ended, Grown
    <3>4. ~Full(c)
      BY <1>3, <2>2
    <3>5. Clean(d) /\ (Full(d) <=> i.op \in Terminator)
      BY <1>4, <3>3, <3>4, CleanGrown
    <3> QED BY <3>2, <3>5
  <2> QED BY <2>1, <2>2
<1>6. PICK bs : bs = blocks'
  OBVIOUS
<1>7. bs = Put(blocks, builder, d)
  BY <1>1, <1>6
<1>8. BlocksOK(bs, builder, {}) /\ Len(bs) = Len(blocks) /\ bs[builder].code = d
  <2>1. Clean(d)
    BY <1>5
  <2> QED BY <1>3, <1>7, <2>1, BlocksPut
<1>9. BlocksOK(bs, 0, {})
  <2>1. builder \in 1 .. Len(bs) /\ Full(bs[builder].code) /\ BlocksOK(bs, builder, {})
    BY <1>3, <1>5, <1>8
  <2> QED BY <2>1, BlocksEnd
<1> QED BY <1>1, <1>6, <1>9

LEMMA MainRuns ==
  ASSUME gens = <<>>, BlocksOK(blocks, 0, {}), Codegen!EmitCMainWrapper
  PROVE  stage' = "done" /\ prog' = prog /\ todo' = todo /\ gens' = <<>> /\ BlocksOK(blocks', 0, {})
<1>a. PICK u, v : /\ u = Codegen!Instr("call", "void", <<>>, <<CHOOSE d \in Codegen!Func("main") : TRUE>>)
                  /\ v = Codegen!Instr("ret", "none", <<Codegen!I64(0)>>, <<>>)
  OBVIOUS
<1>b. PICK c : c = <<u, v>>
  OBVIOUS
<1>c. PICK x : x = [fn |-> 0, code |-> c]
  OBVIOUS
<1>1. stage' = "done" /\ prog' = prog /\ todo' = todo /\ gens' = gens /\ blocks' = Append(blocks, x)
  BY <1>a, <1>b, <1>c DEF Codegen!EmitCMainWrapper
<1>2. u.op \notin Terminator /\ v.op \in Terminator
  BY <1>a DEF Codegen!Instr, Terminator, Codegen!Terminator
<1>3. IsSeq(c) /\ Len(c) = 2 /\ c[1] = u /\ c[2] = v /\ c # <<>>
  BY <1>b, SeqSmall
<1>4. Clean(c) /\ Full(c)
  BY <1>2, <1>3 DEF Clean, Full
<1>5. Block(x) /\ Clean(x.code) /\ Full(x.code)
  BY <1>4, <1>c DEF Block
<1>6. PICK bs : bs = blocks'
  OBVIOUS
<1>7. bs = Append(blocks, x)
  BY <1>1, <1>6
<1>8. Full(x.code) => BlocksOK(bs, 0, {})
  <2>1. Block(x) /\ Clean(x.code)
    BY <1>5
  <2> QED BY <1>7, <2>1, BlocksBegin
<1> QED BY <1>1, <1>5, <1>6, <1>8
-----------------------------------------------------------------------------
(***************************************************************************)
(* The invariant of code generation, and its steps.                        *)
(***************************************************************************)
\* Between two functions every block is full; within one, Running says which are not.
BlocksInv ==
  /\ todo \in Nat \ {0}
  /\ stage # "panic" /\ gens = <<>> => BlocksOK(blocks, 0, {})
  /\ gens # <<>> => stage = "compile" /\ Sema!Accepted /\ Running(gens, blocks, builder)

\* Nothing of what Running says changes but the activations, the blocks and the builder.
LEMMA RunningNext ==
  ASSUME prog' = prog, Running(gens', blocks', builder')
  PROVE  Running(gens, blocks, builder)' /\ gens' # <<>>
<1>1. \A f : Good(f)' <=> Good(f)
  BY DEF Good
<1>2. \A f, n : Awaits(f, n)' <=> Awaits(f, n)
  BY <1>1 DEF Awaits
<1>3. FramesOK(gens)' <=> FramesOK(gens')
  BY <1>1, <1>2 DEF FramesOK
<1>4. gens' # <<>>
  BY SeqSmall DEF Running, FramesOK
<1> QED BY <1>3, <1>4 DEF Running

\* A step within a function's body.
LEMMA BodyStep ==
  ASSUME Vetted, BlocksInv, Codegen!CodegenExpr, ~Codegen!Panics
  PROVE  stage' = stage /\ prog' = prog /\ todo' = todo /\ gens # <<>> /\ Running(gens', blocks', builder')
<1>1. gens # <<>>
  BY DEF Codegen!CodegenExpr, Codegen!GenChild, Codegen!Return, Codegen!EmitInstr, Codegen!RuntimeGuard,
         Codegen!AppendBlocks, Codegen!PositionAtEnd, Codegen!GetInsertBlock, Codegen!CreateEntryAlloca,
         Codegen!BindName, Codegen!GiveUp, Codegen!Active
<1>2. Running(gens, blocks, builder)
  BY <1>1 DEF BlocksInv
<1>3. ~Codegen!GiveUp
  BY DEF Codegen!GiveUp
<1>4. todo' = todo
  BY <1>3 DEF Codegen!CodegenExpr, Codegen!GenChild, Codegen!Return, Codegen!EmitInstr, Codegen!RuntimeGuard,
         Codegen!AppendBlocks, Codegen!PositionAtEnd, Codegen!GetInsertBlock, Codegen!CreateEntryAlloca,
         Codegen!BindName
<1>5. CASE Codegen!GenChild
  BY <1>1, <1>2, <1>4, <1>5, GenRuns
<1>6. CASE Codegen!Return
  BY <1>1, <1>2, <1>4, <1>6, ReturnRuns
<1>7. CASE Codegen!EmitInstr
  BY <1>1, <1>2, <1>4, <1>7, EmitRuns
<1>8. CASE Codegen!RuntimeGuard
  BY <1>1, <1>2, <1>4, <1>8, GuardRuns
<1>9. CASE Codegen!AppendBlocks
  BY <1>1, <1>2, <1>4, <1>9, BlocksRuns
<1>10. CASE Codegen!PositionAtEnd
  BY <1>1, <1>2, <1>4, <1>10, PositionRuns
<1>11. CASE Codegen!GetInsertBlock
  BY <1>1, <1>2, <1>4, <1>11, MarkRuns
<1>12. CASE Codegen!CreateEntryAlloca
  BY <1>1, <1>2, <1>4, <1>12, AllocaRuns
<1>13. CASE Codegen!BindName
  BY <1>1, <1>2, <1>4, <1>13, BindRuns
<1> QED BY <1>3, <1>5, <1>6, <1>7, <1>8, <1>9, <1>10, <1>11, <1>12, <1>13 DEF Codegen!CodegenExpr

LEMMA PanicsKeep == ASSUME BlocksInv, Codegen!Panics PROVE BlocksInv' /\ prog' = prog
<1>1. stage' = "panic" /\ gens' = <<>> /\ todo' = todo /\ prog' = prog
  BY DEF Codegen!Panics
<1> QED BY <1>1 DEF BlocksInv

LEMMA AcceptedStays == ASSUME UNCHANGED semaVars PROVE Sema!Accepted' <=> Sema!Accepted
  BY DEF semaVars, Sema!Accepted

\* Every step of code generation, of a program that the checker has accepted.
LEMMA GenerateStep == ASSUME Vetted, BlocksInv, Generate PROVE BlocksInv' /\ prog' = prog
<1>1. Sema!Accepted /\ Codegen!Next /\ Sema!Accepted'
  BY AcceptedStays DEF Generate
<1>2. CASE Codegen!Panics
  BY <1>2, PanicsKeep
<1>3. CASE Codegen!CodegenExpr /\ ~Codegen!Panics
  <2>1. /\ stage' = stage /\ prog' = prog /\ todo' = todo /\ gens # <<>>
        /\ Running(gens', blocks', builder')
    BY <1>3, BodyStep
  <2>2. Running(gens, blocks, builder)' /\ gens' # <<>>
    BY <2>1, RunningNext
  <2>3. stage = "compile" /\ todo \in Nat \ {0}
    BY <2>1 DEF BlocksInv
  <2> QED BY <1>1, <2>1, <2>2, <2>3 DEF BlocksInv
<1>4. CASE Codegen!DeclareFunction /\ ~Codegen!Panics
  <2>1. /\ stage = "declare" /\ todo' = todo + 1 /\ stage' = stage /\ gens' = gens /\ blocks' = blocks /\ prog' = prog
    BY <1>4 DEF Codegen!DeclareFunction
  <2>2. gens = <<>> /\ BlocksOK(blocks, 0, {}) /\ todo + 1 \in Nat \ {0}
    BY <2>1 DEF BlocksInv
  <2>3. BlocksOK(blocks, 0, {})'
    BY <2>1, <2>2
  <2> QED BY <2>1, <2>2, <2>3 DEF BlocksInv
<1>5. CASE Codegen!DeclareDone
  <2>1. stage = "declare" /\ stage' = "compile" /\ todo' = 1 /\ gens' = gens /\ blocks' = blocks /\ prog' = prog
    BY <1>5 DEF Codegen!DeclareDone
  <2>2. gens = <<>> /\ BlocksOK(blocks, 0, {})
    BY <2>1 DEF BlocksInv
  <2>3. BlocksOK(blocks, 0, {})'
    BY <2>1, <2>2
  <2> QED BY <2>1, <2>2, <2>3 DEF BlocksInv
<1>6. CASE Codegen!CompileFunction
  <2>1. gens = <<>> /\ stage = "compile"
    BY <1>6 DEF Codegen!CompileFunction
  <2>2. BlocksOK(blocks, 0, {}) /\ todo \in Nat \ {0}
    BY <2>1 DEF BlocksInv
  <2>3. stage' = stage /\ prog' = prog /\ todo' = todo /\ Running(gens', blocks', builder')
    BY <1>6, <2>1, <2>2, CompileRuns
  <2>4. Running(gens, blocks, builder)' /\ gens' # <<>>
    BY <2>3, RunningNext
  <2> QED BY <1>1, <2>1, <2>2, <2>3, <2>4 DEF BlocksInv
<1>7. CASE Codegen!EndFunction
  <2>1. gens # <<>>
    BY <1>7 DEF Codegen!EndFunction, Codegen!Active
  <2>2. Running(gens, blocks, builder) /\ todo \in Nat \ {0}
    BY <2>1 DEF BlocksInv
  <2>3. prog' = prog /\ todo' \in Nat \ {0} /\ gens' = <<>> /\ BlocksOK(blocks', 0, {})
    BY <1>7, <2>2, EndRuns
  <2>4. BlocksOK(blocks, 0, {})'
    BY <2>3
  <2> QED BY <2>3, <2>4 DEF BlocksInv
<1>8. CASE Codegen!SkipVariable
  <2>1. gens = <<>> /\ stage = "compile" /\ todo' = todo + 1 /\ stage' = stage /\ gens' = gens /\ blocks' = blocks /\ prog' = prog
    BY <1>8 DEF Codegen!SkipVariable
  <2>2. BlocksOK(blocks, 0, {}) /\ todo + 1 \in Nat \ {0}
    BY <2>1 DEF BlocksInv
  <2>3. BlocksOK(blocks, 0, {})'
    BY <2>1, <2>2
  <2> QED BY <2>1, <2>2, <2>3 DEF BlocksInv
<1>9. CASE Codegen!EmitCMainWrapper
  <2>1. gens = <<>> /\ stage = "compile"
    BY <1>9 DEF Codegen!EmitCMainWrapper
  <2>2. BlocksOK(blocks, 0, {}) /\ todo \in Nat \ {0}
    BY <2>1 DEF BlocksInv
  <2>3. prog' = prog /\ todo' = todo /\ gens' = <<>> /\ BlocksOK(blocks', 0, {})
    BY <1>9, <2>1, <2>2, MainRuns
  <2>4. BlocksOK(blocks, 0, {})'
    BY <2>3
  <2> QED BY <2>2, <2>3, <2>4 DEF BlocksInv
<1> QED BY <1>1, <1>2, <1>3, <1>4, <1>5, <1>6, <1>7, <1>8, <1>9 DEF Codegen!Next, Codegen!Compile
-----------------------------------------------------------------------------
(***************************************************************************)
(* The checker of AnxDual is the checker of AnxSema: Sound!... , of which  *)
(* AnxSemaProofs proves what it does, and Sema!... are the same, as the    *)
(* provers see by expanding both.                                          *)
(***************************************************************************)
Sound == INSTANCE AnxSemaProofs

\* The nodes and their shapes.
LEMMA SameTree ==
  /\ Sound!NodeId = NodeId /\ Sound!Node = Node /\ \A n : Sound!Shape(n) = Shape(n)
  /\ Sound!DeclKind = DeclKind /\ Sound!LitKind = LitKind /\ \A s, K : Sound!AllIn(s, K) <=> AllIn(s, K)
  /\ \A n : Sound!Below(n) = Below(n)
<1>1. Sound!NodeId = NodeId
  BY DEF Sound!NodeId, NodeId
<1>2. Sound!DeclKind = DeclKind /\ Sound!LitKind = LitKind /\ Sound!ExprKind = ExprKind /\ Sound!StmtKind = StmtKind
  BY DEF Sound!DeclKind, DeclKind, Sound!LitKind, LitKind, Sound!ExprKind, ExprKind, Sound!StmtKind, StmtKind
<1>3. \A n : Sound!Below(n) = Below(n)
  BY DEF Sound!Below, Below, Sound!NodeId, NodeId
<1>4. \A s, K : Sound!AllIn(s, K) <=> AllIn(s, K)
  BY DEF Sound!AllIn, AllIn
<1>7. Sound!BinOp = BinOp /\ Sound!UnOp = UnOp /\ Sound!IncDecOp = IncDecOp /\ Sound!Arith = Arith /\ Sound!Bitwise = Bitwise
  BY DEF Sound!BinOp, BinOp, Sound!UnOp, UnOp, Sound!IncDecOp, IncDecOp, Sound!Arith, Arith, Sound!Bitwise, Bitwise, Sound!Compare, Compare, Sound!Equality, Equality, Sound!Lazy, Lazy
<1>8. Sound!NodeKind = NodeKind /\ Sound!Type = Type /\ Sound!Scalar = Scalar
  <2>1. Sound!NodeKind = NodeKind
    BY <1>2 DEF Sound!NodeKind, NodeKind
  <2>2. Sound!Type = Type
    BY DEF Sound!Type, Type
  <2>3. Sound!VoidV = VoidV /\ Sound!Int64 = Int64 /\ Sound!Float = Float /\ Sound!Byte = Byte
    BY DEF Sound!VoidV, VoidV, Sound!Int64, Int64, Sound!Float, Float, Sound!Byte, Byte
  <2>4. Sound!Scalar = Scalar
    BY <2>3 DEF Sound!Scalar, Scalar
  <2> QED BY <2>1, <2>2, <2>4
<1>5. \A n : Sound!Shape(n) = Shape(n)
  BY <1>1, <1>2, <1>4, <1>7 DEF Sound!Shape, Shape
<1>6. Sound!Node = Node
  BY <1>1, <1>7, <1>8 DEF Sound!Node, Node
<1> QED BY <1>1, <1>2, <1>3, <1>4, <1>5, <1>6

\* The assumptions.
LEMMA SameAssumptions ==
  /\ Sound!AstAssumption /\ Sound!ProgramAssumption
  /\ Sound!TreeAssumption /\ Sound!LiteralAssumption
<1>1. Sound!AstAssumption
  BY AstAssumption, SameTree
<1>2. Sound!ProgramAssumption
  BY ProgramAssumption, SameTree
<1>3. Sound!TreeAssumption
  BY TreeAssumption, SameTree
<1>4. Sound!LiteralAssumption
  BY LiteralAssumption, SameTree
<1> QED BY <1>1, <1>2, <1>3, <1>4

\* What the steps are about.
LEMMA SameTop ==
  /\ Sema!Top = Sound!Top /\ Sema!Here = Sound!Here /\ Sema!Done = Sound!Done /\ (Sema!Walking <=> Sound!Walking)
  /\ Sema!Scope = Sound!Scope /\ Sema!Decl = Sound!Decl
  BY DEF Sema!Top, Sound!Top, Sema!Here, Sound!Here, Sema!Done, Sound!Done, Sema!Walking, Sound!Walking, Sema!Scope,
         Sound!Scope, Sema!Decl, Sound!Decl

\* What an activation answers, asks and says.
LEMMA SameAnswers ==
  /\ Sema!Report(Sema!Top) = Sound!Report(Sound!Top)
  /\ Sema!TypeFrom(Sema!Top) = Sound!TypeFrom(Sound!Top)
  /\ Sema!Complete(Sema!Top) <=> Sound!Complete(Sound!Top)
  /\ \A i : Sema!Expected(Sema!Top, i) = Sound!Expected(Sound!Top, i)
  /\ Sema!ReturnsOnAllPaths(Sema!Top) <=> Sound!ReturnsOnAllPaths(Sound!Top)
  BY DEF Sema!Top, Sound!Top, Sema!Report, Sound!Report, Sema!Condition, Sound!Condition, Sema!ExprKind,
         Sound!ExprKind, Sema!Complete, Sound!Complete, Sema!TypeFrom, Sound!TypeFrom, Sema!None, Sound!None,
         Sema!Against, Sound!Against, Sema!Said, Sound!Said, Sema!TBool, Sound!TBool, Sema!ReportExpr,
         Sound!ReportExpr, Sema!ReportStmt, Sound!ReportStmt, Sema!GivesUp, Sound!GivesUp, Sema!AnyOf, Sound!AnyOf,
         Sema!BadTarget, Sound!BadTarget, Sema!Resolve, Sound!Resolve, Sema!CombineBinaryTypes,
         Sound!CombineBinaryTypes, Sema!TInt, Sound!TInt, Sema!TFloat, Sound!TFloat, Sema!UnaryAccepts,
         Sound!UnaryAccepts, Sema!TVoid, Sound!TVoid, Sema!CallType, Sound!CallType, Sema!IsArray, Sound!IsArray,
         Sema!ElemOf, Sound!ElemOf, Sema!TStr, Sound!TStr, Sema!ArrayLiteralType, Sound!ArrayLiteralType,
         Sema!ArrayOf, Sound!ArrayOf, Sema!LiteralType, Sound!LiteralType, Sema!Ty, Sound!Ty, Sema!Unknown,
         Sound!Unknown, Sema!CallError, Sound!CallError, Sema!NoRule, Sound!NoRule, Sema!Scope, Sound!Scope,
         Sema!ReturnsOnAllPaths, Sound!ReturnsOnAllPaths, Sema!HasTarget, Sound!HasTarget, Sema!IsLvalue,
         Sound!IsLvalue, Sema!Arith, Sound!Arith, Sema!Bitwise, Sound!Bitwise, Sema!Compare, Sound!Compare,
         Sema!Equality, Sound!Equality, Sema!NoSymbol, Sound!NoSymbol, Sema!NoSig, Sound!NoSig, Sema!Returns,
         Sound!Returns, Sema!Expected, Sound!Expected, Sema!StmtKind, Sound!StmtKind

\* How it is said, and what it leaves behind.
LEMMA SameSayings ==
  /\ \A n, ks : Sema!Log(n, ks) <=> Sound!Log(n, ks)
  /\ \A r : Sema!Popped(r) = Sound!Popped(r)
  /\ \A s, ds : Sema!Declare(s, ds) = Sound!Declare(s, ds)
  /\ \A ss : Sema!Close(ss) = Sound!Close(ss)
  BY DEF Sema!Log, Sound!Log, Sema!Popped, Sound!Popped, Sema!Declare, Sound!Declare, Sema!Close, Sound!Close,
         Sema!Top, Sound!Top

\* The steps, one by one.
LEMMA SameCheckChild == Sema!CheckChild <=> Sound!CheckChild
  BY SameTop, SameAnswers, SameSayings DEF Sema!Opened, Sound!Opened, Sema!IsBody, Sound!IsBody, Sema!Frame,
     Sound!Frame, Sema!CheckChild, Sound!CheckChild, Sema!None, Sound!None, Sema!Ty, Sound!Ty, Sema!NoNames,
     Sound!NoNames, Sema!Unknown, Sound!Unknown, Sema!NoSymbol, Sound!NoSymbol

LEMMA SameCheckExpr == Sema!CheckExpr <=> Sound!CheckExpr
  BY SameTop, SameAnswers, SameSayings DEF Sema!Resolve, Sound!Resolve, Sema!Unknown, Sound!Unknown, Sema!NoSymbol,
     Sound!NoSymbol, Sema!None, Sound!None, Sema!Ty, Sound!Ty, Sema!Against, Sound!Against, Sema!Insert,
     Sound!Insert, Sema!ExprKind, Sound!ExprKind, Sema!CheckExpr, Sound!CheckExpr

LEMMA SameDeclareLocalVar == Sema!DeclareLocalVar <=> Sound!DeclareLocalVar
  BY SameTop, SameAnswers, SameSayings DEF Sema!None, Sound!None, Sema!Ty, Sound!Ty, Sema!DeclareLocalVar,
     Sound!DeclareLocalVar

LEMMA SameCheckStmt == Sema!CheckStmt <=> Sound!CheckStmt
  BY SameTop, SameAnswers, SameSayings DEF Sema!StmtKind, Sound!StmtKind, Sema!Returns, Sound!Returns, Sema!Ty,
     Sound!Ty, Sema!None, Sound!None, Sema!CheckStmt, Sound!CheckStmt

LEMMA SameHoistFunc == Sema!HoistFunc <=> Sound!HoistFunc
  BY SameTop, SameAnswers, SameSayings DEF Sema!Signature, Sound!Signature, Sema!NoSig, Sound!NoSig, Sema!None,
     Sound!None, Sema!Ty, Sound!Ty, Sema!Said, Sound!Said, Sema!HoistFunc, Sound!HoistFunc

LEMMA SameRequireMain == Sema!RequireMain <=> Sound!RequireMain
  BY SameTop, SameAnswers, SameSayings DEF Sema!TVoid, Sound!TVoid, Sema!Ty, Sound!Ty, Sema!Said, Sound!Said,
     Sema!RequireMain, Sound!RequireMain

LEMMA SameCheckDecl == Sema!CheckDecl <=> Sound!CheckDecl
  BY SameTop, SameAnswers, SameSayings DEF Sema!Frame, Sound!Frame, Sema!CheckDecl, Sound!CheckDecl, Sema!None,
     Sound!None, Sema!Ty, Sound!Ty, Sema!NoNames, Sound!NoNames, Sema!Unknown, Sound!Unknown, Sema!NoSymbol,
     Sound!NoSymbol

\* Where they start, and what is proved of them.
LEMMA SameInit == Sema!Init <=> Sound!Init
  BY DEF Sema!Init, Sound!Init, Sema!NoNames, Sound!NoNames, Sema!BuiltinFuncs, Sound!BuiltinFuncs, Sema!Unknown,
         Sound!Unknown, Sema!TStr, Sound!TStr, Sema!TInt, Sound!TInt, Sema!NoSig, Sound!NoSig, Sema!NoSymbol,
         Sound!NoSymbol, Sema!None, Sound!None, Sema!Ty, Sound!Ty

LEMMA SameTyping == Sound!WellTyped(types, prog) <=> WellTyped(types, prog)
  BY DEF Sound!WellTyped, WellTyped,
         Sound!NodesOf, NodesOf, Sound!Means, Means, Sound!ScopesOf, ScopesOf, Sound!OneEach, OneEach,
         Sound!HasMain, HasMain, Sound!Returning, Returning, Sound!Judged, Judged, Sound!Below, Below,
         Sound!NoDecl, NoDecl, Sound!DeclScopes, DeclScopes, Sound!Inside, Inside, Sound!TVoid, TVoid,
         Sound!MustReturn, MustReturn, Sound!ExprKind, ExprKind, Sound!Type, Type, Sound!ExprRule, ExprRule,
         Sound!StmtRule, StmtRule, Sound!RetOf, RetOf, Sound!NodeId, NodeId, Sound!GlobalsAt, GlobalsAt,
         Sound!ParamScope, ParamScope, Sound!After, After, Sound!NewScopes, NewScopes, Sound!NoDecls, NoDecls,
         Sound!Ty, Ty, Sound!LitKind, LitKind, Sound!LitType, LitType, Sound!Place, Place, Sound!BinaryRule,
         BinaryRule, Sound!Numeric, Numeric, Sound!UnaryRule, UnaryRule, Sound!TBool, TBool, Sound!CallRule,
         CallRule, Sound!IsArray, IsArray, Sound!TInt, TInt, Sound!ElemOf, ElemOf, Sound!TStr, TStr,
         Sound!ArrayOf, ArrayOf, Sound!LastOf, LastOf, Sound!Vars, Vars, Sound!With, With, Sound!Scoped,
         Scoped, Sound!Arith, Arith, Sound!Bitwise, Bitwise, Sound!Compare, Compare, Sound!Equality, Equality,
         Sound!Lazy, Lazy, Sound!TFloat, TFloat, Sound!BuiltinParams, BuiltinParams, Sound!Takes, Takes,
         Sound!BuiltinRet, BuiltinRet, Sound!ParamTypes, ParamTypes, Sound!Binders, Binders

LEMMA SameVerdict == Sound!AcceptedIsWellTyped /\ Sema!Accepted => WellTyped(types, prog)
  BY SameTyping DEF Sound!AcceptedIsWellTyped, Sound!Accepted, Sema!Accepted

\* All the steps.
LEMMA SameNext == Sema!Step <=> Sound!Step
  BY SameCheckChild, SameCheckExpr, SameDeclareLocalVar, SameCheckStmt, SameHoistFunc, SameRequireMain, SameCheckDecl
     DEF Sema!Step, Sound!Step, Sema!Conclude, Sound!Conclude

-----------------------------------------------------------------------------
(***************************************************************************)
(* What runs is well typed.                                                *)
(***************************************************************************)
\* The interpreter leaves the program as it is.
LEMMA SameProgram == ASSUME Interp!Next PROVE prog' = prog
<1>1. \A s : Interp!Halt(s) => prog' = prog
  BY DEF Interp!Halt
<1>2. \A n : Interp!Eval(n) => prog' = prog
  BY DEF Interp!Eval
<1>3. \A v : Interp!Keep(v) \/ Interp!Yield(v) => prog' = prog
  BY DEF Interp!Keep, Interp!Yield
<1>4. \A o : Interp!Finish(o) => prog' = prog
  BY <1>1, <1>3 DEF Interp!Finish
<1>5. \A x, v, r : Interp!SetVar(x, v, r) => prog' = prog
  BY <1>1 DEF Interp!SetVar
<1>6. \A r, i, v, s : Interp!SetCell(r, i, v, s) => prog' = prog
  BY DEF Interp!SetCell
<1>7. \A f, as, st : Interp!CallFunction(f, as, st) => prog' = prog
  BY <1>1 DEF Interp!CallFunction
<1>8. \A n, e : Interp!Exec(n, e) => prog' = prog
  BY DEF Interp!Exec
<1>9. \A n : Interp!ExecScoped(n) => prog' = prog
  BY <1>8 DEF Interp!ExecScoped
<1>10. CASE Interp!EvalExpr
  <2> USE <1>1, <1>2, <1>3 DEF Interp!Branch, Interp!OnCell
  <2>1. Interp!EvalOperand \/ Interp!EvalLiteral \/ Interp!EvalIdent \/ Interp!EvalBinary => prog' = prog
    BY <1>4 DEF Interp!EvalOperand, Interp!EvalLiteral, Interp!EvalIdent, Interp!EvalBinary
  <2>2. Interp!EvalShortCircuit \/ Interp!EvalTernary \/ Interp!EvalUnary => prog' = prog
    BY <1>4 DEF Interp!EvalShortCircuit, Interp!EvalTernary, Interp!EvalUnary
  <2>3. Interp!EvalAssign \/ Interp!LoadSlot \/ Interp!EvalCompoundAssign => prog' = prog
    BY <1>5, <1>6 DEF Interp!EvalAssign, Interp!LoadSlot, Interp!EvalCompoundAssign
  <2>4. Interp!EvalIncDec => prog' = prog
    BY <1>5, <1>6 DEF Interp!EvalIncDec
  <2>5. Interp!EvalIndex \/ Interp!EvalFieldAccess => prog' = prog
    BY <1>4 DEF Interp!EvalIndex, Interp!EvalFieldAccess
  <2>6. Interp!EvalArrayLiteral \/ Interp!EvalArrayCreation => prog' = prog
    BY DEF Interp!EvalArrayLiteral, Interp!EvalArrayCreation
  <2>7. Interp!EvalPrint \/ Interp!EvalBuiltin \/ Interp!EvalCall \/ Interp!EndCall => prog' = prog
    BY <1>4, <1>7 DEF Interp!EvalPrint, Interp!EvalBuiltin, Interp!EvalCall, Interp!EndCall
  <2> QED BY <1>10, <2>1, <2>2, <2>3, <2>4, <2>5, <2>6, <2>7 DEF Interp!EvalExpr
<1>11. CASE Interp!ExecStmt
  <2> USE <1>1, <1>2, <1>3 DEF Interp!Branch, Interp!Again
  <2>1. Interp!ExecExpr \/ Interp!ExecVarDecl \/ Interp!ExecReturn \/ Interp!Unwind => prog' = prog
    BY DEF Interp!ExecExpr, Interp!ExecVarDecl, Interp!ExecReturn, Interp!Unwind
  <2>2. Interp!ExecBlock \/ Interp!ExecIf \/ Interp!ExecWhile \/ Interp!ExecFor => prog' = prog
    BY <1>8, <1>9 DEF Interp!ExecBlock, Interp!ExecIf, Interp!ExecWhile, Interp!ExecFor
  <2> QED BY <1>11, <2>1, <2>2 DEF Interp!ExecStmt
<1>12. CASE Interp!Run
  BY <1>1, <1>7, <1>12 DEF Interp!Run, Interp!RunDecl, Interp!RunMain, Interp!RunEnd
<1>13. CASE Interp!Halted
  BY <1>13 DEF Interp!Halted, Interp!vars
<1> QED BY <1>10, <1>11, <1>12, <1>13 DEF Interp!Next

\* So does code generation.
LEMMA CodegenProgram == ASSUME Codegen!Next PROVE prog' = prog
<1>1. ASSUME Codegen!Panics PROVE prog' = prog
  BY <1>1 DEF Codegen!Panics
<1>2. CASE Codegen!CodegenExpr
  BY <1>1, <1>2 DEF Codegen!CodegenExpr, Codegen!GenChild, Codegen!Return, Codegen!EmitInstr, Codegen!RuntimeGuard,
     Codegen!AppendBlocks, Codegen!PositionAtEnd, Codegen!GetInsertBlock, Codegen!CreateEntryAlloca,
     Codegen!BindName, Codegen!GiveUp
<1>3. CASE Codegen!Compile
  BY <1>1, <1>3 DEF Codegen!Compile, Codegen!DeclareFunction, Codegen!DeclareDone, Codegen!CompileFunction,
     Codegen!EndFunction, Codegen!SkipVariable, Codegen!EmitCMainWrapper
<1> QED BY <1>2, <1>3 DEF Codegen!Next

\* A step of the whole is a step of the checker, or leaves what is the checker's alone.
LEMMA CheckerStep == ASSUME [Next]_vars PROVE [Sound!Next]_Sound!vars
<1>1. CASE Analyze
  BY <1>1, SameNext DEF Analyze, Sound!Next
<1>2. CASE Generate
  <2>1. prog' = prog
    BY <1>2, CodegenProgram DEF Generate
  <2> QED BY <1>2, <2>1 DEF Generate, semaVars, Sound!vars
<1>3. CASE Execute
  BY <1>3 DEF Execute, semaVars, Sound!vars
<1>4. CASE Interpret
  <2>1. prog' = prog
    BY <1>4, SameProgram DEF Interpret
  <2> QED BY <1>4, <2>1 DEF Interpret, semaVars, Sound!vars
<1>5. CASE UNCHANGED vars
  BY <1>5 DEF vars, semaVars, Sound!vars
<1> QED BY <1>1, <1>2, <1>3, <1>4, <1>5 DEF Next, Step

\* The checker leaves the program as it is.
LEMMA CheckerProgram == ASSUME Sema!Step PROVE prog' = prog
  BY DEF Sema!Step, Sema!CheckChild, Sema!CheckExpr, Sema!DeclareLocalVar, Sema!CheckStmt, Sema!HoistFunc,
         Sema!RequireMain, Sema!CheckDecl, Sema!Conclude

LEMMA ProgramStays == ASSUME prog \in Programs, [Next]_vars PROVE (prog \in Programs)'
<1>1. CASE Analyze
  BY <1>1, CheckerProgram DEF Analyze
<1>2. CASE Generate
  BY <1>2, CodegenProgram DEF Generate
<1>3. CASE Execute
  BY <1>3 DEF Execute
<1>4. CASE Interpret
  BY <1>4, SameProgram DEF Interpret
<1>5. CASE UNCHANGED vars
  BY <1>5 DEF vars
<1> QED BY <1>1, <1>2, <1>3, <1>4, <1>5 DEF Next, Step

\* What code generation is given, the parser has made and the checker has accepted.
LEMMA GivenIsVetted == Spec => [](Sema!Accepted => Vetted)
<1>1. Init => Sound!Init /\ prog \in Programs
  BY SameInit DEF Init, Sema!Init
<1>2. [Next]_vars => [Sound!Next]_Sound!vars
  BY CheckerStep
<1>3. Sound!Spec => []Sound!AcceptedIsWellTyped
  BY Sound!AcceptedPrograms, SameAssumptions, IntAssumption
<1>4. prog \in Programs /\ [Next]_vars => (prog \in Programs)'
  BY ProgramStays
<1>5. Sound!AcceptedIsWellTyped /\ prog \in Programs => (Sema!Accepted => Vetted)
  BY SameVerdict DEF Vetted
<1> QED BY <1>1, <1>2, <1>3, <1>4, <1>5, PTL DEF Spec, Sound!Spec
-----------------------------------------------------------------------------
(***************************************************************************)
(* What is proved of code generation.                                      *)
(***************************************************************************)
LEMMA InitBlocks == Init => BlocksInv
<1>1. BlocksOK(<<>>, 0, {})
  <2>1. PICK e : e = <<>>
    OBVIOUS
  <2>2. IsSeq(e) /\ Len(e) = 0
    BY <2>1, SeqSmall
  <2>3. BlocksOK(e, 0, {})
    BY <2>2 DEF BlocksOK
  <2> QED BY <2>1, <2>3
<1>2. ASSUME Init PROVE todo = 1 /\ gens = <<>> /\ blocks = <<>>
  BY <1>2 DEF Init, Codegen!Init
<1> QED BY <1>1, <1>2 DEF BlocksInv

\* The checker takes no step once it has a verdict.
LEMMA NoStepAfterVerdict == ASSUME Sema!Step PROVE ~Sema!Accepted
  BY DEF Sema!Step, Sema!CheckChild, Sema!CheckExpr, Sema!DeclareLocalVar, Sema!CheckStmt, Sema!HoistFunc,
         Sema!RequireMain, Sema!CheckDecl, Sema!Conclude, Sema!Walking, Sema!Accepted

\* Whatever step is taken: the others leave code generation, and what is accepted, alone.
LEMMA BlocksStep ==
  ASSUME Sema!Accepted => Vetted, BlocksInv, [Next]_vars
  PROVE  BlocksInv'
<1>1. CASE Generate
  <2>1. Vetted
    BY <1>1 DEF Generate
  <2> QED BY <1>1, <2>1, GenerateStep
<1>2. ASSUME UNCHANGED cgVars, prog' = prog, Sema!Accepted => Sema!Accepted' PROVE BlocksInv'
  <2>1. todo' = todo /\ stage' = stage /\ gens' = gens /\ blocks' = blocks /\ builder' = builder
    BY <1>2 DEF cgVars
  <2>2. stage # "panic" /\ gens = <<>> => BlocksOK(blocks, 0, {})'
    BY <2>1 DEF BlocksInv
  <2>3. ASSUME gens # <<>> PROVE stage = "compile" /\ Sema!Accepted' /\ Running(gens, blocks, builder)'
    <3>1. stage = "compile" /\ Sema!Accepted /\ Running(gens, blocks, builder)
      BY <2>3 DEF BlocksInv
    <3>2. Running(gens', blocks', builder')
      BY <2>1, <3>1
    <3>3. Running(gens, blocks, builder)'
      BY <1>2, <3>2, RunningNext
    <3> QED BY <1>2, <3>1, <3>3
  <2> QED BY <2>1, <2>2, <2>3 DEF BlocksInv
<1>3. CASE Analyze
  <2>1. UNCHANGED cgVars /\ prog' = prog
    BY <1>3, CheckerProgram DEF Analyze
  <2>2. ~Sema!Accepted
    BY <1>3, NoStepAfterVerdict DEF Analyze
  <2> QED BY <1>2, <2>1, <2>2
<1>4. CASE Execute
  BY <1>2, <1>4, AcceptedStays DEF Execute
<1>5. CASE Interpret
  BY <1>2, <1>5, AcceptedStays, SameProgram DEF Interpret
<1>6. CASE UNCHANGED vars
  BY <1>2, <1>6, AcceptedStays DEF vars
<1> QED BY <1>1, <1>3, <1>4, <1>5, <1>6 DEF Next, Step

LEMMA BlocksHold == Spec => []BlocksInv
<1>1. BlocksInv /\ (Sema!Accepted => Vetted) /\ [Next]_vars => BlocksInv'
  BY BlocksStep
<1> QED BY <1>1, InitBlocks, GivenIsVetted, PTL DEF Spec

\* Whatever an accepted program is made of, however its returns, loops, conditions and
\* short circuits are nested, no block of what is generated for it has an instruction
\* after its terminator, and none of a finished function is without one: the module
\* passes that part of LLVM's verifier, which the code relies on (cli.rs:139).
THEOREM BlocksEndOnce == Spec => []OneTerminatorPerBlock
<1>1. ASSUME BlocksInv PROVE OneTerminatorPerBlock
  <2>1. SUFFICES ASSUME stage # "panic", NEW b \in DOMAIN blocks, NEW c, c = blocks[b].code
                 PROVE  /\ \A i \in 1 .. Len(c) - 1 : c[i].op \notin Terminator
                        /\ Codegen!Finished(b) => Full(c)
    BY DEF OneTerminatorPerBlock, Codegen!OneTerminatorPerBlock, Codegen!Terminated, Full, Terminator
  <2>2. CASE gens = <<>>
    <3>1. BlocksOK(blocks, 0, {})
      BY <1>1, <2>1, <2>2 DEF BlocksInv
    <3>2. DOMAIN blocks = 1 .. Len(blocks) /\ Len(blocks) \in Nat
      BY <3>1, SeqFacts DEF BlocksOK
    <3> QED BY <2>1, <3>1, <3>2 DEF BlocksOK, Clean
  <2>3. CASE gens # <<>>
    <3>1. PICK W : W = Waiting(gens)
      OBVIOUS
    <3>2. BlocksOK(blocks, builder, W)
      BY <1>1, <2>3, <3>1 DEF BlocksInv, Running
    <3>3. DOMAIN blocks = 1 .. Len(blocks) /\ Len(blocks) \in Nat
      BY <3>2, SeqFacts DEF BlocksOK
    <3>4. Codegen!Finished(b) => b # builder /\ \A w \in W : w[3] # b
      BY <2>3, <3>2 DEF Codegen!Finished, BlocksOK
    <3> QED BY <2>1, <3>2, <3>3, <3>4 DEF BlocksOK, Clean
  <2> QED BY <2>2, <2>3
<1> QED BY <1>1, BlocksHold, PTL

\* The body of every function of an accepted program that is not void answers
\* `terminated`: compile_function's closing unreachable (codegen/mod.rs:174) is never
\* emitted, for any program.
THEOREM OnlyVoidCloses == Spec => []OnlyVoidFallsOff
<1>1. ASSUME BlocksInv, Sema!Accepted => Vetted PROVE OnlyVoidFallsOff
  <2>1. SUFFICES ASSUME Compiling, Codegen!Active({"give"}), Nodes[Codegen!Top.n].k = "Func"
                 PROVE  Nodes[Codegen!Top.n].ty = TVoid \/ Codegen!Ended(Codegen!Step.x)
    BY DEF OnlyVoidFallsOff
  <2>2. PICK f : f = Codegen!Top
    OBVIOUS
  <2>3. Vetted /\ Running(gens, blocks, builder)
    BY <1>1, <2>1 DEF BlocksInv, Compiling
  <2>4. f.n \in {prog[i] : i \in DOMAIN prog} /\ (Ended(Codegen!Step.x) <=> MustReturn(f.n))
    BY <2>1, <2>2, <2>3, BodyAnswers
  <2>5. Nodes[f.n].ty # TVoid => MustReturn(f.n)
    BY <2>1, <2>2, <2>3, <2>4 DEF Vetted, WellTyped, Returning
  <2> QED BY <2>2, <2>4, <2>5 DEF Ended
<1> QED BY <1>1, BlocksHold, GivenIsVetted, PTL
===============================================================================
