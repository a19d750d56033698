------------------------------- MODULE AnxBuild -------------------------------
(***************************************************************************)
(* Writes programs as terms and lays them out as the node table of AnxAst. *)
(* A term is a node whose children are terms; Table numbers the nodes of a *)
(* list of declarations as the parser does, every child before its parent. *)
(* For model checking only: its operators are recursive.                   *)
(***************************************************************************)
EXTENDS AnxAst, SequencesExt

Term(k) == [k |-> k, op |-> "none", name |-> "", ty |-> Ty("Void"), lit |-> VoidV,
            prefix |-> FALSE, params |-> <<>>, kids |-> <<>>]

int(i)    == [Term("IntLiteral") EXCEPT !.lit = IntV(i)]
float(f)  == [Term("FloatLiteral") EXCEPT !.lit = FloatV(f)]   \* in half units
bool(b)   == [Term("BoolLiteral") EXCEPT !.lit = BoolV(b)]
str(s)    == [Term("StringLiteral") EXCEPT !.lit = StrV(s)]
null      == Term("Null")
id(x)     == [Term("Ident") EXCEPT !.name = x]
bin(op, l, r)     == [Term("Binary") EXCEPT !.op = op, !.kids = <<l, r>>]
un(op, e)         == [Term("Unary") EXCEPT !.op = op, !.kids = <<e>>]
set(t, e)         == [Term("Assign") EXCEPT !.kids = <<t, e>>]
upd(op, t, e)     == [Term("CompoundAssign") EXCEPT !.op = op, !.kids = <<t, e>>]
pre(op, t)        == [Term("IncDec") EXCEPT !.op = op, !.prefix = TRUE, !.kids = <<t>>]
post(op, t)       == [Term("IncDec") EXCEPT !.op = op, !.kids = <<t>>]
cond(c, a, b)     == [Term("Ternary") EXCEPT !.kids = <<c, a, b>>]
call(f, args)     == [Term("Call") EXCEPT !.name = f, !.kids = args]
at(a, i)          == [Term("Index") EXCEPT !.kids = <<a, i>>]
len(a)            == [Term("FieldAccess") EXCEPT !.name = "length", !.kids = <<a>>]
arr(es)           == [Term("ArrayLiteral") EXCEPT !.kids = es]
new(t, n)         == [Term("ArrayCreation") EXCEPT !.ty = t, !.kids = <<n>>]
print(e)          == call("print", <<e>>)

do(e)             == [Term("Expr") EXCEPT !.kids = <<e>>]
var(t, x, e)      == [Term("VarDecl") EXCEPT !.ty = t, !.name = x, !.kids = <<e>>]
var0(t, x)        == [Term("VarDecl") EXCEPT !.ty = t, !.name = x]
if(c, a)          == [Term("If") EXCEPT !.kids = <<c, a>>]
ifelse(c, a, b)   == [Term("If") EXCEPT !.kids = <<c, a, b>>]
while(c, b)       == [Term("While") EXCEPT !.kids = <<c, b>>]
for(i, c, u, b)   == [Term("For") EXCEPT !.kids = <<i, c, u, b>>]
ret(e)            == [Term("Return") EXCEPT !.kids = <<e>>]
ret0              == Term("Return")
block(ss)         == [Term("Block") EXCEPT !.kids = ss]
say(e)            == do(print(e))

param(t, x)       == [Term("Param") EXCEPT !.ty = t, !.name = x]
func(t, f, ps, b) == [Term("Func") EXCEPT !.ty = t, !.name = f, !.params = ps, !.kids = b]
main(b)           == func(TVoid, "main", <<>>, b)

\* How many nodes the terms of a list have.
RECURSIVE Size(_)
Size(ts) == IF ts = <<>> THEN 0
            ELSE 1 + Size(Head(ts).params) + Size(Head(ts).kids) + Size(Tail(ts))

\* The ids of the roots of a list of terms whose nodes are numbered from base + 1.
RECURSIVE Roots(_, _)
Roots(ts, base) ==
  IF ts = <<>> THEN <<>>
  ELSE LET root == base + Size(<<Head(ts)>>) IN <<root>> \o Roots(Tail(ts), root)

\* Their rows: a term's children come before it.
RECURSIVE Rows(_, _)
Rows(ts, base) ==
  IF ts = <<>> THEN <<>>
  ELSE LET t == Head(ts)
           kids == t.params \o t.kids
           ids == Roots(kids, base)
           mine == Append(Rows(kids, base),
                          [t EXCEPT !.params = SubSeq(ids, 1, Len(t.params)),
                                    !.kids = SubSeq(ids, Len(t.params) + 1, Len(kids))])
       IN  mine \o Rows(Tail(ts), base + Len(mine))

\* The rows of a list of programs, each a list of declarations, and their ids.
TableRows(programs) == Rows(FlattenSeq(programs), 0)

RECURSIVE Ids(_, _)
Ids(programs, base) ==
  IF programs = <<>> THEN <<>>
  ELSE <<Roots(Head(programs), base)>> \o Ids(Tail(programs), base + Size(Head(programs)))
TablePrograms(programs) == Ids(programs, 0)
===============================================================================
