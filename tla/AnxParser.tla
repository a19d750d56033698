------------------------------ MODULE AnxParser ------------------------------
(***************************************************************************)
(* The parser (parser/mod.rs), a recursive descent with one token of       *)
(* lookahead, as a machine: a frame for each parse_ function that is       *)
(* running, with what it has left to do and the node it is making.  What   *)
(* the functions do is the table Grammar, one entry for each function or   *)
(* decision: its alternatives, and the tokens that choose between them.    *)
(*                                                                         *)
(* Nodes are numbered as they are made, children before their parent.      *)
(* Parameters, blocks and expression statements, which have no id in the   *)
(* code, are numbered too.                                                 *)
(***************************************************************************)
EXTENDS AnxLexer

VARIABLES pos, rows, frames, parsed

parseVars == <<pos, rows, frames, parsed>>

(***************************************************************************)
(* What a function does, step by step.                                     *)
(***************************************************************************)
Eat(k)    == [do |-> "eat", of |-> k]       \* expect(k), or advance past a k just seen
EatType   == [do |-> "type", of |-> ""]     \* parse_base_type
EatName   == [do |-> "name", of |-> ""]     \* expect_identifier
EatOp     == [do |-> "op", of |-> ""]       \* advance, keeping the operator
EatLit    == [do |-> "lit", of |-> ""]      \* advance, keeping the literal
Brackets  == [do |-> "array", of |-> ""]    \* Type::Array
Call(f)   == [do |-> "call", of |-> f]      \* a child, parsed by f
Go(f)     == [do |-> "go", of |-> f]        \* go on as f, in the same function
Make(k)   == [do |-> "make", of |-> k]      \* the node is complete

On(ks, todo) == [on |-> ks, todo |-> todo]

BinaryOp == "+" :> "Add" @@ "-" :> "Sub" @@ "*" :> "Mul" @@ "/" :> "Div" @@ "%" :> "Mod"
         @@ "&" :> "BitAnd" @@ "|" :> "BitOr" @@ "^" :> "BitXor" @@ "<<" :> "Shl"
         @@ ">>" :> "Shr" @@ ">>>" :> "UShr" @@ "==" :> "Eq" @@ "!=" :> "NotEq"
         @@ "<" :> "Lt" @@ "<=" :> "LtEq" @@ ">" :> "Gt" @@ ">=" :> "GtEq"
         @@ "&&" :> "And" @@ "||" :> "Or" @@ "++" :> "Inc" @@ "--" :> "Dec"
PrefixOp == "-" :> "Neg" @@ "!" :> "Not" @@ "~" :> "BitNot" @@ "++" :> "Inc" @@ "--" :> "Dec"
\* compound_assign_op
CompoundOp == "+=" :> "Add" @@ "-=" :> "Sub" @@ "*=" :> "Mul" @@ "/=" :> "Div" @@ "%=" :> "Mod"
           @@ "&=" :> "BitAnd" @@ "|=" :> "BitOr" @@ "^=" :> "BitXor" @@ "<<=" :> "Shl"
           @@ ">>=" :> "Shr" @@ ">>>=" :> "UShr"

BaseType == "int" :> TInt @@ "float" :> TFloat @@ "bool" :> TBool @@ "string" :> TStr
         @@ "void" :> TVoid
Lit == {"IntLiteral", "FloatLiteral", "StringLiteral"}

\* Every kind of token.
Kind == Keyword \cup Single \cup DOMAIN BinaryOp \cup DOMAIN PrefixOp \cup DOMAIN CompoundOp
        \cup {"="} \cup Lit \cup {"Identifier", "Eof"}

Always(todo)         == <<On(Kind, todo)>>
OnOne(k, todo, else) == <<On({k}, todo), On(Kind, else)>>

\* A list that ends at `close`: items parsed by f, commas between them.
ListOf(name, close, f) ==
  name :> OnOne(close, <<>>, <<Call(f), Go(name \o "_more")>>)
  @@ (name \o "_more") :> OnOne(",", <<Eat(","), Call(f), Go(name \o "_more")>>, <<>>)

DeclRules ==
  [program       |-> OnOne("Eof", <<>>, <<Call("decl"), Go("program")>>),
   type          |-> Always(<<EatType, Go("type_suffix")>>),
   type_suffix   |-> OnOne("[", <<Eat("["), Eat("]"), Brackets>>, <<>>),
   decl          |-> Always(<<Go("type"), EatName, Go("decl_rest")>>),
   decl_rest     |-> OnOne("(", <<Eat("("), Go("params"), Eat(")"), Go("block"), Make("Func")>>,
                                <<Go("var_decl_rest")>>),
   param         |-> Always(<<Go("type"), EatName, Make("Param")>>),
   var_decl      |-> Always(<<Go("type"), EatName, Go("var_decl_rest")>>),
   var_decl_rest |-> Always(<<Go("init"), Eat(";"), Make("VarDecl")>>),
   init          |-> OnOne("=", <<Eat("="), Call("expr")>>, <<>>)]
  @@ ListOf("params", ")", "param")

StmtRules ==
  [block |-> Always(<<Eat("{"), Go("stmts"), Eat("}")>>),
   stmts |-> <<On({"}", "Eof"}, <<>>), On(Kind, <<Call("stmt"), Go("stmts")>>)>>,
   stmt  |-> <<On({"{"}, <<Go("block"), Make("Block")>>),
               On({"if"}, <<Eat("if"), Go("guard"), Call("stmt"), Go("else"), Make("If")>>),
               On({"while"}, <<Eat("while"), Go("guard"), Call("stmt"), Make("While")>>),
               On({"for"}, <<Eat("for"), Eat("("), Call("var_decl"), Call("expr"), Eat(";"),
                             Call("expr"), Eat(")"), Call("stmt"), Make("For")>>),
               On({"return"}, <<Eat("return"), Go("value"), Eat(";"), Make("Return")>>),
               On(DOMAIN BaseType, <<Go("var_decl")>>),
               On(Kind, <<Call("expr"), Eat(";"), Make("Expr")>>)>>,
   guard |-> Always(<<Eat("("), Call("expr"), Eat(")")>>),
   else  |-> OnOne("else", <<Eat("else"), Call("stmt")>>, <<>>),
   value |-> OnOne(";", <<>>, <<Call("expr")>>)]

AssignRules ==
  [expr         |-> Always(<<Call("ternary"), Go("assign_rest")>>),
   assign_rest  |-> <<On({"="}, <<Eat("="), Call("expr"), Make("Assign")>>),
                      On(DOMAIN CompoundOp, <<EatOp, Call("expr"), Make("CompoundAssign")>>),
                      On(Kind, <<>>)>>,
   ternary      |-> Always(<<Call("or"), Go("ternary_rest")>>),
   ternary_rest |-> OnOne("?", <<Eat("?"), Call("expr"), Eat(":"), Call("ternary"), Make("Ternary")>>,
                               <<>>)]

\* One level of binary operators: operands of the next level, as many as the
\* level's operators join, in a tree that leans to the left.
\* A slip: it leans to the right.
RightLeaning(self, ops, tighter) ==
  self :> Always(<<Call(tighter), Go(self \o "_rest")>>)
  @@ (self \o "_rest") :> <<On(ops, <<EatOp, Call(self), Make("Binary")>>), On(Kind, <<>>)>>
Level(self, ops, tighter) ==
  self :> Always(<<Call(tighter), Go(self \o "_rest")>>)
  @@ (self \o "_rest") :> <<On(ops, <<EatOp, Call(tighter), Make("Binary"), Go(self \o "_rest")>>),
                            On(Kind, <<>>)>>

OneOpLevels ==
  Level("or", {"||"}, "and") @@ Level("and", {"&&"}, "bit_or") @@ Level("bit_or", {"|"}, "bit_xor")
  @@ Level("bit_xor", {"^"}, "bit_and") @@ Level("bit_and", {"&"}, "equality")
ManyOpLevels ==
  Level("equality", {"==", "!="}, "comparison") @@ Level("comparison", {"<", "<=", ">", ">="}, "shift")
  @@ Level("shift", {"<<", ">>", ">>>"}, "term") @@ Level("term", {"+", "-"}, "factor")
  @@ Level("factor", {"*", "/", "%"}, "unary")

UnaryRules == [unary |-> <<On({"++", "--"}, <<EatOp, Call("unary"), Make("IncDec")>>),
                      On({"!", "-", "~"}, <<EatOp, Call("unary"), Make("Unary")>>),
                      On(Kind, <<Go("postfix")>>)>>]

IncDecs == {"++", "--"}
\* ++ and -- bind once, after the whole chain.  A slip: they are links of it.
PostfixChained ==
  [postfix |-> Always(<<Call("primary"), Go("chain")>>),
   chain   |-> <<On({"["}, <<Eat("["), Call("expr"), Eat("]"), Make("Index"), Go("chain")>>),
                 On({"."}, <<Eat("."), EatName, Make("FieldAccess"), Go("chain")>>),
                 On(IncDecs, <<EatOp, Make("IncDec"), Go("chain")>>),
                 On(Kind, <<>>)>>]
PostfixRules ==
  [postfix |-> Always(<<Call("primary"), Go("chain")>>),
   chain   |-> <<On({"["}, <<Eat("["), Call("expr"), Eat("]"), Make("Index"), Go("chain")>>),
                 On({"."}, <<Eat("."), EatName, Make("FieldAccess"), Go("chain")>>),
                 On(IncDecs, <<EatOp, Make("IncDec")>>),
                 On(Kind, <<>>)>>]

PrimaryRules ==
  [primary |-> <<On({"IntLiteral"}, <<EatLit, Make("IntLiteral")>>),
                 On({"FloatLiteral"}, <<EatLit, Make("FloatLiteral")>>),
                 On({"StringLiteral"}, <<EatLit, Make("StringLiteral")>>),
                 On({"true", "false"}, <<EatLit, Make("BoolLiteral")>>),
                 On({"null"}, <<Eat("null"), Make("Null")>>),
                 On({"new"}, <<Eat("new"), EatType, Eat("["), Call("expr"), Eat("]"),
                               Make("ArrayCreation")>>),
                 On({"["}, <<Eat("["), Go("elements"), Eat("]"), Make("ArrayLiteral")>>),
                 On({"Identifier"}, <<EatName, Go("name_rest")>>),
                 On({"("}, <<Eat("("), Call("expr"), Eat(")")>>)>>,
   name_rest     |-> OnOne("(", <<Eat("("), Go("args"), Eat(")"), Make("Call")>>, <<Make("Ident")>>)]
  @@ ListOf("args", ")", "expr") @@ ListOf("elements", "]", "expr")

Grammar == DeclRules @@ StmtRules @@ AssignRules @@ OneOpLevels @@ ManyOpLevels
           @@ UnaryRules @@ PostfixRules @@ PrimaryRules

(***************************************************************************)
(* The machine.                                                            *)
(***************************************************************************)
Blank == [k |-> "none", op |-> "none", name |-> "", ty |-> TVoid, lit |-> VoidV,
          prefix |-> FALSE, params |-> <<>>, kids |-> <<>>]
Frame(f) == [todo |-> <<Go(f)>>, node |-> Blank]

Top  == frames[Len(frames)]
Item == Head(Top.todo)
Token == tokens[pos]
Is(do) == Top.todo # <<>> /\ Item.do = do

\* The rest of the top frame, with its node as it is now.
Continue(todo, node) == frames' = [frames EXCEPT ![Len(frames)] = [todo |-> todo, node |-> node]]
Proceed(node) == Continue(Tail(Top.todo), node)

Reject ==
  /\ parsed' = [is |-> "UnexpectedToken", line |-> Token.line]
  /\ UNCHANGED <<pos, rows, frames>>

\* `advance`: never past the end of the file.
Take(node) ==
  /\ pos' = IF Token.k = "Eof" THEN pos ELSE pos + 1
  /\ Proceed(node)
  /\ UNCHANGED <<rows, parsed>>

Expect(ks, node) == IF Token.k \in ks THEN Take(node) ELSE Reject

Choose ==
  LET alts == Grammar[Item.of]
      fit  == {i \in DOMAIN alts : Token.k \in alts[i].on}
  IN  /\ Is("go")
      /\ IF fit = {} THEN Reject
         ELSE /\ Continue(alts[Min(fit)].todo \o Tail(Top.todo), Top.node)
              /\ UNCHANGED <<pos, rows, parsed>>

CallFunction ==
  /\ Is("call")
  /\ frames' = Append([frames EXCEPT ![Len(frames)].todo = Tail(@)], Frame(Item.of))
  /\ UNCHANGED <<pos, rows, parsed>>

ExpectToken == Is("eat") /\ Expect({Item.of}, Top.node)
ExpectName  == Is("name") /\ Expect({"Identifier"}, [Top.node EXCEPT !.name = Token.name])
ExpectType  ==
  Is("type") /\ Expect(DOMAIN BaseType,
                       [Top.node EXCEPT !.ty = IF Token.k \in DOMAIN BaseType THEN BaseType[Token.k] ELSE @])

\* An operator with nothing before it is a prefix.
OpOf(first) == IF first THEN PrefixOp[Token.k] ELSE (BinaryOp @@ CompoundOp)[Token.k]
\* A slip: an increment is always taken for a postfix one.
TakeOpAsPostfix ==
  Is("op") /\ Take([Top.node EXCEPT !.op = OpOf(Top.node.kids = <<>>)])
TakeOp ==
  LET first == Top.node.kids = <<>>
  IN  Is("op") /\ Take([Top.node EXCEPT !.op = OpOf(first),
                                       !.prefix = first /\ Token.k \in {"++", "--"}])
TakeLit ==
  Is("lit") /\ Take([Top.node EXCEPT !.lit = IF Token.k \in {"true", "false"} THEN BoolV(Token.k = "true")
                                                                            ELSE Token.lit])

TakeBrackets ==
  /\ Is("array")
  /\ Proceed([Top.node EXCEPT !.ty = ArrayOf(@)])
  /\ UNCHANGED <<pos, rows, parsed>>

MakeNode ==
  /\ Is("make")
  /\ rows' = Append(rows, [Top.node EXCEPT !.k = Item.of])
  /\ Proceed([Blank EXCEPT !.kids = <<Len(rows) + 1>>])
  /\ UNCHANGED <<pos, parsed>>

\* A function returns its node, which its caller takes as the next child.
Return ==
  LET child  == Top.node.kids
      below  == Len(frames) - 1
      caller == frames[below].node
  IN  /\ Top.todo = <<>> /\ Len(frames) > 1
      /\ frames' = [SubSeq(frames, 1, below) EXCEPT ![below].node =
                      IF rows[child[1]].k = "Param" THEN [caller EXCEPT !.params = @ \o child]
                                                    ELSE [caller EXCEPT !.kids = @ \o child]]
      /\ UNCHANGED <<pos, rows, parsed>>

Accept ==
  /\ Top.todo = <<>> /\ Len(frames) = 1
  /\ parsed' = [is |-> "ok", line |-> Token.line]
  /\ UNCHANGED <<pos, rows, frames>>

Parsing == parsed.is = "parsing"

\* The declarations of the program, once it is accepted.
Decls == frames[1].node.kids

ParseInit ==
  /\ pos = 1 /\ rows = <<>> /\ frames = <<Frame("program")>>
  /\ parsed = [is |-> "parsing", line |-> 1]

\* parse(lex(source)?): the tokens are all there before the first is parsed.
ParseStep ==
  /\ lexed.is = "ok" /\ Parsing
  /\ \/ Choose
     \/ CallFunction
     \/ ExpectToken
     \/ ExpectName
     \/ ExpectType
     \/ TakeOp
     \/ TakeLit
     \/ TakeBrackets
     \/ MakeNode
     \/ Return
     \/ Accept
===============================================================================
