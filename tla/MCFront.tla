------------------------------- MODULE MCFront -------------------------------
(***************************************************************************)
(* Texts for the front end: the suites' programs written down, every way   *)
(* to put one kind of expression inside another, every short sequence over *)
(* some alphabets of tokens and of characters, and a few texts by hand.    *)
(***************************************************************************)
EXTENDS AnxLanguage, AnxSemaSuite

Min8 == -128
MCLetter == {"a", "b", "c", "d", "e", "f", "g", "h", "i", "j", "k", "l", "m", "n", "o", "p", "q",
             "r", "s", "t", "u", "v", "w", "x", "y", "z", "A", "D", "I", "T", "é"}
MCSpace == {" ", "\t", "\n"}
MCUtf8 == "a" :> <<97>> @@ "b" :> <<98>> @@ "c" :> <<99>> @@ "d" :> <<100>> @@ "n" :> <<110>>
       @@ "t" :> <<116>> @@ "x" :> <<120>> @@ "\n" :> <<10>> @@ "\t" :> <<9>> @@ "\"" :> <<34>>
       @@ "\\" :> <<92>> @@ "/" :> <<47>> @@ "*" :> <<42>> @@ " " :> <<32>> @@ "é" :> <<195, 169>>

(***************************************************************************)
(* Written programs, with blanks and comments between their lexemes.       *)
(***************************************************************************)
Gaps == << <<" ">>, <<"\n">>, Chars(" /**/"), Chars(" // x\n") >>
Spaced(lexemes) ==
  Flat([j \in DOMAIN lexemes |-> Chars(lexemes[j]) \o Gaps[(j % Len(Gaps)) + 1]])

InfixOps == <<"Or", "And", "BitOr", "BitXor", "BitAnd", "NotEq", "LtEq", "UShr", "Sub", "Mod">>
Plain == [j \in DOMAIN InfixOps |-> bin(InfixOps[j], x, y)]
         \o <<un("Not", x), pre("Inc", x), post("Dec", x), at(x, y), len(x), set(x, y), upd("UShr", x, y),
              cond(x, y, n), call("f", <<>>), arr(<<>>), new(TBool, int(3)), int(7), null>>
Around(e) == [j \in DOMAIN InfixOps |-> bin(InfixOps[j], e, n)]
             \o [j \in DOMAIN InfixOps |-> bin(InfixOps[j], n, e)]
             \o <<un("Neg", e), pre("Dec", e), post("Inc", e), at(e, n), at(n, e), len(e), set(e, n),
                  set(n, e), upd("Shl", e, n), upd("Mul", n, e), cond(e, n, i), cond(n, e, i),
                  cond(n, i, e), call("f", <<e, n>>), call("f", <<n, e>>), arr(<<e>>), new(TInt, e)>>
\* Of the infix operators, each inside its own level and the next ones, and the
\* loosest and the tightest with everything else.
Worth(j, m) ==
  LET outer == ((m - 1) % Len(InfixOps)) + 1
      infix == j <= Len(InfixOps)
  IN  IF m > 2 * Len(InfixOps) THEN infix => j \in {1, Len(InfixOps)}
      ELSE IF infix THEN j - outer \in -1 .. 1 ELSE outer \in {1, Len(InfixOps)}
Pairs == Flat([j \in DOMAIN Plain |->
           LET around == Around(Plain[j])
               worth  == SelectSeq([m \in DOMAIN around |-> m], LAMBDA m : Worth(j, m))
           IN  [m \in DOMAIN worth |-> <<main(<<do(around[worth[m]])>>)>>]])
ByHand == <<
  <<var(TStr, "x", str(<<34, 92, 10, 9, 47, 42, 195, 169>>)), main(<<>>)>>,
  <<func(ArrayOf(TFloat), "f", <<param(ArrayOf(TStr), "x"), param(TBool, "n")>>, <<ret(float(5))>>)>>,
  <<main(<<if(x, ifelse(y, block(<<>>), if(n, do(x)))), ifelse(x, while(y, do(n)), ret0)>>)>> >>

\* What cannot be written: a literal without its sign, and more than one pair
\* of brackets.
Writable(tab) == \A r \in DOMAIN tab : tab[r].ty.dim <= 1 /\ (tab[r].k = "IntLiteral" => tab[r].lit.i >= 0)

Source == SelectSeq([c \in DOMAIN Suite |-> Suite[c][2]] \o [c \in DOMAIN SemaSuite |-> SemaSuite[c][2]]
                    \o Pairs \o ByHand, LAMBDA p : Writable(Rows(p, 0)))
WrittenTrees ==
  LET source == Source
      tree(c) == LET rows1 == Rows(source[c], 0)
                     decls == Roots(source[c], 0)
                 IN  [text |-> Spaced(Written(rows1, decls)), rows |-> rows1, decls |-> decls]
      trees == Settled([c \in DOMAIN source |-> tree(c)])
  IN  trees
MCTrees == LET trees == WrittenTrees IN trees

(***************************************************************************)
(* Every short sequence of pieces, between a beginning and an end.         *)
(***************************************************************************)
UpTo(n1, S) == UNION {[1 .. m -> S] : m \in 0 .. n1}
Around2(before, pieces, n1, after) ==
  {Chars(before) \o Flat([j \in DOMAIN s |-> Chars(s[j] \o " ")]) \o Chars(after) : s \in UpTo(n1, pieces)}

Phrases ==
  Around2("int x = ", {"x", "-", "++", "(", ")", "[x]", ".x"}, 4, ";")
  \cup Around2("int x = x", {"x", "?", ":", "="}, 4, ";")
  \cup Around2("int x = f(", {"x", ",", ")", "[", "]"}, 4, ";")
  \cup Around2("void f() {", {"if(x)", "else", "x;", "{", "}", ";"}, 4, "}")
  \cup Around2("void f() {", {"while(x)", "for(int i;x;x)", "return", "int y", "=x", ";"}, 3, "}")
  \cup Around2("", {"int", "x", "[]", "(", ")", "{}", ";", ","}, 4, "")

Glued(chars, n1) == UpTo(n1, chars)
Lexical == Glued({">", "=", "<", "x"}, 4) \cup Glued({"/", "*", "\n", "x"}, 4)
           \cup Glued({"1", "2", ".", "x"}, 4) \cup Glued({"\"", "\\", "n"}, 4)
           \cup Glued({"+", "-", "=", "&", "|", "!"}, 3)
           \cup {Chars("12.25 .5 127 128 9.75 0.74"), Chars("x\n\t /* \n */ é2_ 1x"), Chars("a @"),
                 Chars("^=%=~??:{}"), Chars("int x = -128;"), Chars("ifx if true nullx")}

MCTexts == LET trees == MCTrees IN {trees[c].text : c \in DOMAIN trees} \cup Phrases \cup Lexical

MCNodes    == <<>>
MCPrograms == {}
MCName     == {""}

===============================================================================
