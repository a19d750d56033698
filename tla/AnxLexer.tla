------------------------------- MODULE AnxLexer -------------------------------
(***************************************************************************)
(* The lexer (lexer/mod.rs): one action per token, comment and blank.      *)
(*                                                                         *)
(* A text is the sequence of its characters, each a string of length one.  *)
(* A token's kind is written as its lexeme when it has only one (a keyword *)
(* or an operator); `name` is an identifier's text and `lit` the value of  *)
(* a literal.                                                              *)
(***************************************************************************)
EXTENDS AnxAst, SequencesExt

CONSTANTS
  Texts,          \* the program texts of an instance
  Letter, Space,  \* the alphabetic characters, and the white ones, that occur in them
  Utf8            \* character -> its bytes

VARIABLES text, here, line, col, tokens, lexed

lexVars == <<text, here, line, col, tokens, lexed>>

Digit   == {"0", "1", "2", "3", "4", "5", "6", "7", "8", "9"}
Keyword == {"int", "float", "bool", "string", "void", "if", "else", "while", "for",
            "return", "true", "false", "null", "new"}
\* The characters that are operators by themselves, and those which a second
\* one may make longer.
Single  == {"~", "?", ":", "(", ")", "{", "}", "[", "]", ",", ";", "."}
Double  == [c \in {"+", "-", "*", "/", "%", "=", "!", "<", ">", "&", "|", "^"} |->
              IF c \in {"+", "-", "<", ">", "&", "|"} THEN {"=", c} ELSE {"="}]

\* The character at a place of the text; "" past its end.
CharOf(p) == IF p \in DOMAIN text THEN text[p] ELSE ""
Peek      == CharOf(here)
PeekNext  == CharOf(here + 1)

\* The first place from p on that holds no character of C.
EndOf(C, p) == Min({q \in p .. Len(text) + 1 : CharOf(q) \notin C})

Lexeme(p, q) == FoldLeft(LAMBDA s, c : s \o c, "", SubSeq(text, p, q - 1))

\* n calls of `advance`.
Advance(n) ==
  LET breaks == {q \in here .. here + n - 1 : CharOf(q) = "\n"}
  IN  /\ here' = here + n
      /\ line' = line + Cardinality(breaks)
      /\ col' = IF breaks = {} THEN col + n ELSE here + n - Max(breaks)

Emit(k, name, lit, n) ==
  /\ tokens' = Append(tokens, [k |-> k, name |-> name, lit |-> lit, line |-> line, col |-> col])
  /\ Advance(n)
  /\ UNCHANGED lexed

LexError(error) ==
  /\ lexed' = [is |-> error, line |-> line, col |-> col]
  /\ UNCHANGED <<here, line, col, tokens>>

Skip(n) == Advance(n) /\ UNCHANGED <<tokens, lexed>>

SkipSpace == Peek \in Space /\ Skip(1)

LineComment  == Peek = "/" /\ PeekNext = "/"
BlockComment == Peek = "/" /\ PeekNext = "*"

SkipLine == LineComment /\ Skip(Min({q \in here .. Len(text) + 1 : CharOf(q) \in {"\n", ""}}) - here)

\* A comment may not close with the star that opened it.
SkipBlock ==
  LET closers == {q \in here + 2 .. Len(text) : CharOf(q) = "*" /\ CharOf(q + 1) = "/"}
  IN  /\ BlockComment
      /\ IF closers = {} THEN LexError("UnterminatedBlockComment") ELSE Skip(Min(closers) + 2 - here)

DigitOf(c) == CHOOSE d \in 0 .. 9 : SubSeq("0123456789", d + 1, d + 1) = c
DecimalOf(p, q) == FoldLeft(LAMBDA n, c : 10 * n + DigitOf(c), 0, SubSeq(text, p, q - 1))

\* A dot is part of a number only before a digit.
PointAt(p) == CharOf(p) = "." /\ CharOf(p + 1) \in Digit

\* A literal that does not fit its type: an int is an error, a float infinite.
FitsInt(n) == n <= MaxInt
FloatOf(halves) == IF halves > MaxFloat THEN PosInf ELSE halves

LexNumber ==
  LET point == EndOf(Digit, here)
      end   == EndOf(Digit, point + 1)
      whole == DecimalOf(here, point)
      \* rounded to the nearest half
      halves == 2 * whole + (4 * DecimalOf(point + 1, end) + 10 ^ (end - point - 1))
                              \div (2 * 10 ^ (end - point - 1))
  IN  /\ Peek \in Digit
      /\ CASE PointAt(point) -> Emit("FloatLiteral", "", FloatV(FloatOf(halves)), end - here)
           [] ~PointAt(point) /\ FitsInt(whole) -> Emit("IntLiteral", "", IntV(whole), point - here)
           [] OTHER -> LexError("InvalidNumber")

\* What a character stands for after a backslash.
Escape(c) == CASE c = "n" -> "\n" [] c = "t" -> "\t" [] OTHER -> c

LexString ==
  LET \* whether the character at q follows a backslash that is not itself escaped
      escaped[q \in here .. Len(text)] == q > here + 1 /\ text[q - 1] = "\\" /\ ~escaped[q - 1]
      quotes  == {q \in here + 1 .. Len(text) : text[q] = "\"" /\ ~escaped[q]}
      kept(end) == SelectSeq([i \in 1 .. end - 1 |-> i],
                             LAMBDA q : q > here /\ (text[q] = "\\" => escaped[q]))
      bytes(q) == Utf8[IF escaped[q] THEN Escape(text[q]) ELSE text[q]]
  IN  /\ Peek = "\""
      /\ IF quotes = {} THEN LexError("UnterminatedString")
         ELSE LET end == Min(quotes) IN
              Emit("StringLiteral", "", StrV(FlattenSeq([i \in 1 .. Len(kept(end)) |-> bytes(kept(end)[i])])),
                   end + 1 - here)

LexWord ==
  LET end  == EndOf(Letter \cup Digit \cup {"_"}, here)
      word == Lexeme(here, end)
  IN  /\ Peek \in Letter \cup {"_"}
      /\ IF word \in Keyword THEN Emit(word, "", VoidV, end - here)
                             ELSE Emit("Identifier", word, VoidV, end - here)

\* A shift is a doubled < or >, and a third > makes it unsigned.
Angles == IF Peek = ">" /\ CharOf(here + 2) = ">" THEN 3 ELSE 2
AssignsAfter(n) == IF CharOf(here + n) = "=" THEN n + 1 ELSE n
\* A slip: an unsigned shift is never an assignment.
ShiftUnassigned == IF Angles = 3 THEN 3 ELSE AssignsAfter(2)
ShiftLength == AssignsAfter(Angles)

OperatorLength ==
  IF Peek \notin DOMAIN Double \/ PeekNext \notin Double[Peek] THEN 1
  ELSE IF Peek \in {"<", ">"} /\ PeekNext = Peek THEN ShiftLength ELSE 2

LexOperator ==
  /\ ~LineComment /\ ~BlockComment
  /\ Peek \notin {"", "\"", "_"} \cup Space \cup Digit \cup Letter
  /\ IF Peek \in Single \cup DOMAIN Double
     THEN Emit(Lexeme(here, here + OperatorLength), "", VoidV, OperatorLength)
     ELSE LexError("UnexpectedChar")

\* A slip: the end of the text makes no token.
LexEofSilent ==
  /\ Peek = ""
  /\ lexed' = [is |-> "ok", line |-> line, col |-> col]
  /\ UNCHANGED <<here, line, col, tokens>>
LexEof ==
  /\ Peek = ""
  /\ tokens' = Append(tokens, [k |-> "Eof", name |-> "", lit |-> VoidV, line |-> line, col |-> col])
  /\ lexed' = [is |-> "ok", line |-> line, col |-> col]
  /\ UNCHANGED <<here, line, col>>

Lexing == lexed.is = "lexing"

LexInit ==
  /\ text \in Texts
  /\ here = 1 /\ line = 1 /\ col = 1 /\ tokens = <<>>
  /\ lexed = [is |-> "lexing", line |-> 1, col |-> 1]

LexStep ==
  /\ Lexing /\ UNCHANGED text
  /\ \/ SkipSpace
     \/ SkipLine
     \/ SkipBlock
     \/ LexNumber
     \/ LexString
     \/ LexWord
     \/ LexOperator
     \/ LexEof
===============================================================================
