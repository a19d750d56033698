----------------------------- MODULE AnxLanguage -----------------------------
(***************************************************************************)
(* The language as its documents define it, to compare the lexer and the   *)
(* parser with: what the lexemes are, which sequences of tokens are        *)
(* programs (the grammar of docs/P1/ANX-P1-Operators-Plan-v1.md, section   *)
(* 2, with the increments and the targets the code adds to it), and how a  *)
(* tree is written with no more parentheses than its levels need.          *)
(* For model checking only: its operators are recursive.                   *)
(***************************************************************************)
EXTENDS AnxFront, AnxBuild

CONSTANTS
  Trees,       \* trees of programs, each with a text it was written as
  MaxLexeme,   \* how long a lexeme is looked for
  MaxTokens    \* how long a text the reference grammar is asked about

\* The same sequence, with each element computed once.
Settled(s) == SelectSeq(s, LAMBDA e : TRUE)
Flat(s) == FlattenSeq(Settled(s))

(***************************************************************************)
(* Lexemes, over sequences of characters.                                  *)
(***************************************************************************)
Chars(s) == Settled([i \in 1 .. Len(s) |-> SubSeq(s, i, i)])
Word(s) == FoldLeft(LAMBDA w, c : w \o c, "", s)

OperatorText ==
  {"+", "-", "*", "/", "%", "==", "!=", "<", "<=", ">", ">=", "&&", "||", "!", "=", "&", "|", "^",
   "~", "<<", ">>", ">>>", "?", ":", "+=", "-=", "*=", "/=", "%=", "&=", "|=", "^=", "<<=", ">>=",
   ">>>=", "++", "--", "(", ")", "{", "}", "[", "]", ",", ";", "."}

AllIn2(s, C) == s # <<>> /\ \A i \in DOMAIN s : s[i] \in C
IsInt(s)   == AllIn2(s, Digit)
IsFloat(s) == \E d \in DOMAIN s : /\ s[d] = "." /\ IsInt(SubSeq(s, 1, d - 1))
                                  /\ IsInt(SubSeq(s, d + 1, Len(s)))
IsWord(s)  == AllIn2(s, Letter \cup Digit \cup {"_"}) /\ s[1] \notin Digit

\* The characters that the rest of a string literal stands for, after its
\* opening quote; <<"none">> when the literal does not end where s does.
RECURSIVE Unquoted(_)
Unquoted(s) ==
  CASE s = <<>> -> <<"none">>
    [] Head(s) = "\"" -> IF Len(s) = 1 THEN <<>> ELSE <<"none">>
    [] Head(s) = "\\" /\ Len(s) = 1 -> <<"none">>
    [] Head(s) = "\\" /\ Len(s) > 1 ->
         <<IF s[2] = "n" THEN "\n" ELSE IF s[2] = "t" THEN "\t" ELSE s[2]>> \o Unquoted(Tail(Tail(s)))
    [] OTHER -> <<Head(s)>> \o Unquoted(Tail(s))
IsString(s) == s # <<>> /\ Head(s) = "\"" /\ ~Contains(Unquoted(Tail(s)), "none")

IsLexeme(s) == IsInt(s) \/ IsFloat(s) \/ IsWord(s) \/ IsString(s) \/ Word(s) \in OperatorText

RECURSIVE Decimal(_)
Decimal(s) == IF s = <<>> THEN 0 ELSE 10 * Decimal(Front(s)) + DigitOf(Last(s))

\* The literal or the name that a token holds is the one that s spells.
Spells(t, s) ==
  CASE t.k = "IntLiteral" -> IsInt(s) /\ t.lit = IntV(Decimal(s)) /\ Decimal(s) <= MaxInt
    [] t.k = "FloatLiteral" ->
         LET d == CHOOSE d \in DOMAIN s : s[d] = "."
             scale == 10 ^ (Len(s) - d)
             n == Decimal(SubSeq(s, 1, d - 1) \o SubSeq(s, d + 1, Len(s)))
         IN  /\ IsFloat(s)
             /\ IF t.lit.f = PosInf THEN 2 * n > MaxFloat * scale
                ELSE 2 * n - t.lit.f * scale \in -scale .. scale
    [] t.k = "StringLiteral" ->
         IsString(s) /\ t.lit = StrV(Flat([i \in DOMAIN Unquoted(Tail(s)) |-> Utf8[Unquoted(Tail(s))[i]]]))
    [] t.k = "Identifier" -> IsWord(s) /\ t.name = Word(s) /\ t.name \notin Keyword
    [] OTHER -> t.k = Word(s) /\ t.k \in Keyword \cup OperatorText

StartsComment(s) == Len(s) > 1 /\ s[1] = "/" /\ s[2] \in {"/", "*"}

\* Blanks and whole comments.
RECURSIVE IsGap(_)
IsGap(s) ==
  \/ s = <<>>
  \/ Head(s) \in Space /\ IsGap(Tail(s))
  \/ /\ StartsComment(s) /\ s[2] = "/"
     /\ LET breaks == {i \in DOMAIN s : s[i] = "\n"}
        IN  IF breaks = {} THEN TRUE ELSE IsGap(SubSeq(s, Min(breaks), Len(s)))
  \/ /\ StartsComment(s) /\ s[2] = "*"
     /\ LET ends == {i \in 4 .. Len(s) : s[i - 1] = "*" /\ s[i] = "/"}
        IN  ends # {} /\ IsGap(SubSeq(s, Min(ends) + 1, Len(s)))

\* Where a line begins (one before its first character), and the place of a
\* line and a column, if the text has it.
LineStart(l) ==
  LET breaks == {q \in DOMAIN text : text[q] = "\n"}
  IN  CHOOSE b \in {0} \cup breaks : Cardinality({q \in breaks : q <= b}) = l - 1
PlaceOf(l, c) ==
  CHOOSE p \in {LineStart(l) + c} :
    p <= Len(text) + 1 /\ \A q \in LineStart(l) + 1 .. p - 1 : text[q] # "\n"
Longest(p) ==
  Max({0} \cup {n \in 1 .. MaxLexeme : p + n <= Len(text) + 1 /\ IsLexeme(SubSeq(text, p, p + n - 1))})

(***************************************************************************)
(* The grammar, over sequences of token kinds.                             *)
(***************************************************************************)
Upto(s, i)  == SubSeq(s, 1, i)
After(s, i) == SubSeq(s, i + 1, Len(s))
Bounded(s, a, b) == Len(s) > 1 /\ Head(s) = a /\ Last(s) = b
Inside(s) == SubSeq(s, 2, Len(s) - 1)

AssignText == {"=", "+=", "-=", "*=", "/=", "%=", "&=", "|=", "^=", "<<=", ">>=", ">>>="}
BinaryText == <<{"||"}, {"&&"}, {"|"}, {"^"}, {"&"}, {"==", "!="}, {"<", "<=", ">", ">="},
                {"<<", ">>", ">>>"}, {"+", "-"}, {"*", "/", "%"}>>
Base == {"int", "float", "bool", "string", "void"}

RECURSIVE IsExpr(_), IsTernary(_), IsBinary(_, _), IsUnary(_), IsChain(_), IsPrimary(_), IsList(_, _)
IsExpr(s) ==
  IsTernary(s) \/ \E i \in DOMAIN s : s[i] \in AssignText /\ IsTernary(Upto(s, i - 1)) /\ IsExpr(After(s, i))
IsTernary(s) ==
  \/ IsBinary(1, s)
  \/ \E i, j \in DOMAIN s : /\ i < j /\ s[i] = "?" /\ s[j] = ":"
                            /\ IsBinary(1, Upto(s, i - 1)) /\ IsExpr(SubSeq(s, i + 1, j - 1))
                            /\ IsTernary(After(s, j))
IsBinary(l, s) ==
  IF l > Len(BinaryText) THEN IsUnary(s)
  ELSE \/ IsBinary(l + 1, s)
       \/ \E i \in DOMAIN s : s[i] \in BinaryText[l] /\ IsBinary(l, Upto(s, i - 1)) /\ IsBinary(l + 1, After(s, i))
IsUnary(s) ==
  /\ s # <<>>
  /\ \/ Head(s) \in {"!", "-", "~", "++", "--"} /\ IsUnary(Tail(s))
     \/ IsChain(s)
     \/ Last(s) \in {"++", "--"} /\ IsChain(Front(s))
IsChain(s) ==
  \/ IsPrimary(s)
  \/ \E i \in DOMAIN s : Bounded(After(s, i), "[", "]") /\ IsChain(Upto(s, i)) /\ IsExpr(Inside(After(s, i)))
  \/ Len(s) > 2 /\ After(s, Len(s) - 2) = <<".", "Identifier">> /\ IsChain(Upto(s, Len(s) - 2))
IsPrimary(s) ==
  \/ Len(s) = 1 /\ Head(s) \in Lit \cup {"true", "false", "null", "Identifier"}
  \/ Bounded(s, "(", ")") /\ IsExpr(Inside(s))
  \/ Bounded(s, "[", "]") /\ IsList(Inside(s), FALSE)
  \/ Len(s) > 2 /\ Head(s) = "Identifier" /\ Bounded(Tail(s), "(", ")") /\ IsList(Inside(Tail(s)), FALSE)
  \/ /\ Len(s) > 3 /\ Head(s) = "new" /\ s[2] \in Base
     /\ Bounded(After(s, 2), "[", "]") /\ IsExpr(Inside(After(s, 2)))
\* Items with commas between them: expressions, or parameters.
IsType(s) == s # <<>> /\ Head(s) \in Base /\ Tail(s) \in {<<>>, <<"[", "]">>}
IsTyped(s) == Len(s) > 1 /\ Last(s) = "Identifier" /\ IsType(Front(s))
IsList(s, typed) ==
  LET IsItem(t) == IF typed THEN IsTyped(t) ELSE IsExpr(t)
  IN  s = <<>> \/ IsItem(s)
      \/ \E i \in DOMAIN s : s[i] = "," /\ i < Len(s) /\ IsItem(Upto(s, i - 1)) /\ IsList(After(s, i), typed)

IsVarDecl(s) ==
  /\ s # <<>> /\ Last(s) = ";"
  /\ \/ IsTyped(Front(s))
     \/ \E i \in DOMAIN s : s[i] = "=" /\ IsTyped(Upto(s, i - 1)) /\ IsExpr(SubSeq(s, i + 1, Len(s) - 1))

RECURSIVE IsStmt(_), IsStmts(_)
IsStmts(s) == s = <<>> \/ \E i \in DOMAIN s : IsStmt(Upto(s, i)) /\ IsStmts(After(s, i))
IsStmt(s) ==
  \/ IsVarDecl(s)
  \/ Last(s) = ";" /\ IsExpr(Front(s))
  \/ Head(s) = "return" /\ Last(s) = ";" /\ (Len(s) = 2 \/ IsExpr(Inside(s)))
  \/ Bounded(s, "{", "}") /\ IsStmts(Inside(s))
  \/ /\ Len(s) > 2 /\ Head(s) \in {"if", "while"} /\ s[2] = "("
     /\ \E i \in 3 .. Len(s) - 1 :
          /\ s[i] = ")" /\ IsExpr(SubSeq(s, 3, i - 1))
          /\ \/ IsStmt(After(s, i))
             \/ \E j \in i + 2 .. Len(s) - 1 : /\ Head(s) = "if" /\ s[j] = "else"
                                               /\ IsStmt(SubSeq(s, i + 1, j - 1)) /\ IsStmt(After(s, j))
  \/ /\ Len(s) > 2 /\ Head(s) = "for" /\ s[2] = "("
     /\ \E i, j, m \in 3 .. Len(s) - 1 :
          /\ i < j /\ j < m /\ s[j] = ";" /\ s[m] = ")"
          /\ IsVarDecl(SubSeq(s, 3, i)) /\ IsExpr(SubSeq(s, i + 1, j - 1))
          /\ IsExpr(SubSeq(s, j + 1, m - 1)) /\ IsStmt(After(s, m))

IsFunc(s) ==
  \E i, j \in DOMAIN s :
    /\ i + 1 < j /\ s[i + 1] = "(" /\ s[j] = ")" /\ IsTyped(Upto(s, i))
    /\ IsList(SubSeq(s, i + 2, j - 1), TRUE)
    /\ Bounded(After(s, j), "{", "}") /\ IsStmts(Inside(After(s, j)))
RECURSIVE IsProgram(_)
IsProgram(s) ==
  s = <<>> \/ \E i \in DOMAIN s : (IsVarDecl(Upto(s, i)) \/ IsFunc(Upto(s, i))) /\ IsProgram(After(s, i))

(***************************************************************************)
(* Writing the tree of a table: In(tab, n, l) where level l is needed.     *)
(***************************************************************************)
OpText == [Add |-> "+", Sub |-> "-", Mul |-> "*", Div |-> "/", Mod |-> "%", BitAnd |-> "&",
           BitOr |-> "|", BitXor |-> "^", Shl |-> "<<", Shr |-> ">>", UShr |-> ">>>", Eq |-> "==",
           NotEq |-> "!=", Lt |-> "<", LtEq |-> "<=", Gt |-> ">", GtEq |-> ">=", And |-> "&&",
           Or |-> "||", Neg |-> "-", Not |-> "!", BitNot |-> "~", Inc |-> "++", Dec |-> "--"]
TypeText == [Int |-> "int", Float |-> "float", Bool |-> "bool", Str |-> "string", Void |-> "void"]
TypeLexemes(t) == <<TypeText[t.base]>> \o Flat([d \in 1 .. t.dim |-> <<"[", "]">>])

LevelOf(nd) ==
  CASE nd.k \in {"Assign", "CompoundAssign"} -> 1
    [] nd.k = "Ternary" -> 2
    [] nd.k = "Binary" -> 2 + CHOOSE l \in DOMAIN BinaryText : OpText[nd.op] \in BinaryText[l]
    [] nd.k = "Unary" \/ nd.prefix -> 13
    [] nd.k = "IncDec" /\ ~nd.prefix -> 14
    [] OTHER -> 15

\* The text of a string literal with these bytes.
RECURSIVE Quoted(_)
Quoted(bytes) ==
  IF bytes = <<>> THEN ""
  ELSE LET c == CHOOSE c \in DOMAIN Utf8 : IsPrefix(Utf8[c], bytes)
           text1 == CASE c \in {"\"", "\\"} -> "\\" \o c [] c = "\n" -> "\\n" [] c = "\t" -> "\\t"
                      [] OTHER -> c
       IN  text1 \o Quoted(SubSeq(bytes, Len(Utf8[c]) + 1, Len(bytes)))

LitText(v) ==
  CASE v.k = "Int"   -> ToString(v.i)
    [] v.k = "Float" -> ToString(v.f \div 2) \o IF v.f % 2 = 0 THEN ".0" ELSE ".5"
    [] v.k = "Bool"  -> IF v.b THEN "true" ELSE "false"
    [] v.k = "Str"   -> "\"" \o Quoted(v.s) \o "\""

Commas(ss) == IF ss = <<>> THEN <<>> ELSE FoldLeft(LAMBDA w, s : w \o <<",">> \o s, Head(ss), Tail(ss))

RECURSIVE In(_, _, _)
In(tab, node, level) ==
  LET nd == tab[node]
      kid(j, l) == In(tab, nd.kids[j], l)
      kids == Settled([j \in DOMAIN nd.kids |-> kid(j, 0)])
      typed(d) == TypeLexemes(tab[d].ty) \o <<tab[d].name>>
      own == LevelOf(nd)
      bare ==
        CASE nd.k = "Assign" -> kid(1, 2) \o <<"=">> \o kid(2, 1)
          [] nd.k = "CompoundAssign" -> kid(1, 2) \o <<OpText[nd.op] \o "=">> \o kid(2, 1)
          [] nd.k = "Ternary" -> kid(1, 3) \o <<"?">> \o kid(2, 1) \o <<":">> \o kid(3, 2)
          [] nd.k = "Binary"  -> kid(1, own) \o <<OpText[nd.op]>> \o kid(2, own + 1)
          [] own = 13 -> <<OpText[nd.op]>> \o kid(1, 13)
          [] own = 14 -> kid(1, 15) \o <<OpText[nd.op]>>
          [] nd.k = "Index" -> kid(1, 15) \o <<"[">> \o kid(2, 1) \o <<"]">>
          [] nd.k = "FieldAccess" -> kid(1, 15) \o <<".", nd.name>>
          [] nd.k = "ArrayLiteral" -> <<"[">> \o Commas(kids) \o <<"]">>
          [] nd.k = "ArrayCreation" -> <<"new">> \o TypeLexemes(nd.ty) \o <<"[">> \o kid(1, 1) \o <<"]">>
          [] nd.k = "Call" -> <<nd.name, "(">> \o Commas(kids) \o <<")">>
          [] nd.k = "Ident" -> <<nd.name>>
          [] nd.k = "Null" -> <<"null">>
          [] nd.k \in Lit \cup {"BoolLiteral"} -> <<LitText(nd.lit)>>
          [] nd.k = "Expr" -> kid(1, 1) \o <<";">>
          [] nd.k = "VarDecl" -> typed(node) \o (IF kids = <<>> THEN <<>> ELSE <<"=">> \o kid(1, 1)) \o <<";">>
          [] nd.k = "Return" -> <<"return">> \o Flat(kids) \o <<";">>
          [] nd.k = "Block" -> <<"{">> \o Flat(kids) \o <<"}">>
          [] nd.k = "If" -> <<"if", "(">> \o kid(1, 1) \o <<")">> \o kid(2, 1)
                            \o IF Len(kids) = 3 THEN <<"else">> \o kid(3, 1) ELSE <<>>
          [] nd.k = "While" -> <<"while", "(">> \o kid(1, 1) \o <<")">> \o kid(2, 1)
          [] nd.k = "For" -> <<"for", "(">> \o kid(1, 1) \o kid(2, 1) \o <<";">> \o kid(3, 1) \o <<")">>
                             \o kid(4, 1)
          [] nd.k = "Func" -> typed(node) \o <<"(">>
                              \o Commas(Settled([j \in DOMAIN nd.params |-> typed(nd.params[j])])) \o <<")", "{">>
                              \o Flat(kids) \o <<"}">>
  IN  IF own < level THEN <<"(">> \o bare \o <<")">> ELSE bare

Written(tab, decls) == Flat([d \in DOMAIN decls |-> In(tab, decls[d], 0)])

(***************************************************************************)
(* The lexer, once it has ended: every token is the longest lexeme at its  *)
(* line and column, holds what that lexeme spells, and only blanks and     *)
(* comments lie between; an error is where no lexeme is, or where an int   *)
(* literal is above the largest int, which makes the smallest unwritable   *)
(* (lexer/mod.rs:167).                                                     *)
(***************************************************************************)
TokensAre ==
  LET place(t)  == PlaceOf(tokens[t].line, tokens[t].col)
      places    == Settled([t \in DOMAIN tokens |-> place(t)])
      lengths   == Settled([t \in DOMAIN tokens |-> Longest(places[t])])
      endsAt(t) == IF t = 0 THEN 1 ELSE places[t] + lengths[t]
      rest(p)   == SubSeq(text, p, Len(text))
      p         == PlaceOf(lexed.line, lexed.col)
      long      == Longest(p)
  IN  /\ \A t \in DOMAIN tokens :
           /\ IsGap(SubSeq(text, endsAt(t - 1), places[t] - 1))
           /\ IF tokens[t].k = "Eof" THEN places[t] = Len(text) + 1 /\ t = Len(tokens)
              ELSE /\ ~StartsComment(rest(places[t]))
                   /\ Spells(tokens[t], SubSeq(text, places[t], endsAt(t) - 1))
      /\ IsGap(SubSeq(text, endsAt(Len(tokens)), p - 1))
      /\ CASE lexed.is = "ok" -> tokens # <<>> /\ Last(tokens).k = "Eof"
           [] lexed.is = "InvalidNumber" -> LET s == SubSeq(text, p, p + long - 1)
                                            IN  IsInt(s) /\ Decimal(s) > MaxInt
           [] lexed.is = "UnterminatedString" -> text[p] = "\"" /\ long = 0
           [] lexed.is = "UnexpectedChar" ->
                long = 0 /\ text[p] \notin Space \cup {"\""} /\ ~StartsComment(rest(p))
           [] OTHER -> StartsComment(rest(p)) /\ text[p + 1] = "*"
                       /\ \A q \in p + 2 .. Len(text) - 1 : ~(text[q] = "*" /\ text[q + 1] = "/")
LexesTheLanguage == ~Lexing /\ pos = 1 /\ rows = <<>> /\ Len(frames) = 1 => TokensAre

(***************************************************************************)
(* A written program is parsed to the table it was written from: the one   *)
(* that the checker, the interpreter and code generation are run on.       *)
(***************************************************************************)
RoundTrip ==
  ~Parsing => \A c \in DOMAIN Trees : Trees[c].text = text =>
    parsed.is = "ok" /\ rows = Trees[c].rows /\ Decls = Trees[c].decls

TokenText(t) == CASE t.k = "Identifier" -> t.name [] t.k \in Lit -> LitText(t.lit) [] OTHER -> t.k
NoParens(s) == SelectSeq(s, LAMBDA l : l \notin {"(", ")"})

(***************************************************************************)
(* The tree of an accepted text says what the text says: written with the  *)
(* fewest parentheses that precedence and associativity allow, it is the   *)
(* text's tokens in their order, without some of the parentheses.          *)
(***************************************************************************)
RECURSIVE IsSubsequence(_, _)
IsSubsequence(s, t) ==
  \/ s = <<>>
  \/ t # <<>> /\ IsSubsequence(IF Head(s) = Head(t) THEN Tail(s) ELSE s, Tail(t))
SaysWhatItSays ==
  parsed.is = "ok" =>
    LET said == Written(rows, Decls)
        read == [t \in 1 .. Len(tokens) - 1 |-> TokenText(tokens[t])]
    IN  NoParens(said) = NoParens(read) /\ IsSubsequence(said, read)

(***************************************************************************)
(* A text is accepted just when the grammar has it (the comment at         *)
(* parser/mod.rs:311-314 gives the grammar as the parser's own).           *)
(***************************************************************************)
AcceptsTheGrammar ==
  ~Parsing /\ Len(tokens) <= MaxTokens =>
    (parsed.is = "ok") = IsProgram([t \in 1 .. Len(tokens) - 1 |-> tokens[t].k])
===============================================================================
