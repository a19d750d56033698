-------------------------------- MODULE AnxOps --------------------------------
(***************************************************************************)
(* The programs whose main evaluates one operation, whatever its operands: *)
(* each operator, assignment, index, field, call, ternary and array        *)
(* expression, on a variable of each type (and on null) in each operand    *)
(* position.  The checker rejects most; the interpreter meets every        *)
(* combination of operand types that the checker lets through.             *)
(***************************************************************************)
EXTENDS AnxBuild

\* The globals, one for each type, and the leaves that name them.
Declared == << var(TInt, "i", int(1)), var(TFloat, "f", float(1)), var(TBool, "b", bool(TRUE)),
               var(TStr, "s", str(<<97, 98>>)), var(ArrayOf(TInt), "a", arr(<<int(1), int(2)>>)) >>
Leaves  == << id("i"), id("f"), id("b"), id("s"), id("a"), null >>
NLeaves == Len(Leaves)

\* The rows: the globals', then three of each leaf, one for each operand position.
GlobalRows == TableRows(<<Declared>>)
GlobalIds  == TablePrograms(<<Declared>>)[1]
LeafRows   == Leaves \o Leaves \o Leaves

WithOp(k, ops) == [j \in DOMAIN ops |-> [Term(k) EXCEPT !.op = ops[j]]]
Calls(fs)      == [j \in DOMAIN fs |-> call(fs[j], <<>>)]

Compoundable == <<"Add", "Sub", "Mul", "Div", "Mod", "BitAnd", "BitOr", "BitXor", "Shl", "Shr", "UShr">>
Others       == <<"Lt", "LtEq", "Gt", "GtEq", "Eq", "NotEq", "And", "Or">>

\* The operations without their operands, by how many they take.
OfOne == WithOp("Unary", <<"Neg", "Not", "BitNot">>) \o WithOp("IncDec", <<"Inc", "Dec">>)
         \o << pre("Inc", 0), Term("ArrayLiteral"), new(TInt, 0), len(0),
               [len(0) EXCEPT !.name = "i"] >> \o Calls(<<"print", "length", "charAt", "main">>)
OfTwo == WithOp("Binary", Compoundable \o Others) \o WithOp("CompoundAssign", Compoundable)
         \o << Term("Assign"), Term("Index"), Term("ArrayLiteral") >> \o Calls(<<"charAt", "print">>)
OfThree == <<Term("Ternary"), call("substring", <<>>)>>

\* Each operation of the list on all the choices of k leaves, which are the rows
\* after `base`.
OnLeaves(ops, k, base) ==
  [c \in 1 .. Len(ops) * NLeaves ^ k |->
     [ops[((c - 1) \div NLeaves ^ k) + 1] EXCEPT
        !.kids = [p \in 1 .. k |->
                    base + (p - 1) * NLeaves + (((c - 1) \div NLeaves ^ (p - 1)) % NLeaves) + 1]]]
Operations(base) == <<Term("ArrayLiteral")>> \o OnLeaves(OfOne, 1, base)
                    \o OnLeaves(OfTwo, 2, base) \o OnLeaves(OfThree, 3, base)

\* The rows of one program: the operation, the statement that evaluates it, and main.
Rows3(op, n) == << op, [Term("Expr") EXCEPT !.kids = <<n + 1>>],
                   [main(<<>>) EXCEPT !.kids = <<n + 2>>] >>
OpNodes ==
  LET globals == GlobalRows
      base == Len(globals)
      ops  == Operations(base)
      rows == [j \in 1 .. 3 * Len(ops) |->
                 Rows3(ops[((j - 1) \div 3) + 1], base + 3 * NLeaves + j - 1 - ((j - 1) % 3))
                   [((j - 1) % 3) + 1]]
  IN  globals \o LeafRows \o rows

\* A program declares the globals its operation names, and main.
OpPrograms ==
  LET rows == OpNodes
      ids  == GlobalIds
      base == ids[Len(ids)]
      named(n) == {ids[l] : l \in {k \in DOMAIN ids : (n - base) % NLeaves = k /\ n > base}}
      program(n) == LET kids == rows[n].kids
                        uses == UNION {named(kids[p]) : p \in DOMAIN kids}
                    IN  SelectSeq(ids, LAMBDA g : g \in uses) \o <<n + 2>>
      first == base + 3 * NLeaves + 1
  IN  {program(first + 3 * c) : c \in 0 .. ((Len(rows) - first) \div 3)}

OpNames == {"", "i", "f", "b", "s", "a", "main", "print", "length", "charAt", "substring"}
===============================================================================
