---------------------------- MODULE AnxFrontProofs ----------------------------
(***************************************************************************)
(* That the parser never indexes past its tokens, for every set of texts.  *)
(***************************************************************************)
EXTENDS AnxFront, TLAPS

(***************************************************************************)
(* The inductive invariant: the tokens are a sequence, and once the lexer  *)
(* has ended well the last of them is Eof and the parser is at one of      *)
(* them; until then the parser has not moved.                              *)
(***************************************************************************)
TokensInv == \E S : tokens \in Seq(S)
EndInv    == lexed.is = "ok" => tokens # <<>> /\ tokens[Len(tokens)].k = "Eof" /\ pos \in 1 .. Len(tokens)
StartInv  == lexed.is # "ok" => pos = 1
IInv == TokensInv /\ EndInv /\ StartInv

\* A sequence stays one when a token is appended, and ends with that token.
LEMMA AppendToken ==
  ASSUME NEW s, NEW S, s \in Seq(S), NEW e
  PROVE  /\ Append(s, e) \in Seq(S \cup {e})
         /\ Append(s, e) # <<>>
         /\ Len(Append(s, e)) \in Nat \ {0}
         /\ Append(s, e)[Len(Append(s, e))] = e
<1>1. s \in Seq(S \cup {e})
  OBVIOUS
<1>2. Append(s, e) \in Seq(S \cup {e}) /\ Len(Append(s, e)) = Len(s) + 1 /\ Len(s) \in Nat
  BY <1>1
<1>3. Append(s, e)[Len(s) + 1] = e
  BY <1>1
<1> QED BY <1>2, <1>3

\* Nothing was lexed, and nothing parsed, at the beginning.
LEMMA InitInv == Init => IInv
<1> SUFFICES ASSUME Init PROVE IInv
  OBVIOUS
<1>1. tokens \in Seq({})
  BY DEF Init, LexInit
<1>2. lexed.is = "lexing" /\ pos = 1
  BY DEF Init, LexInit, ParseInit
<1> QED BY <1>1, <1>2 DEF IInv, TokensInv, EndInv, StartInv

\* A step of the lexer that emits a token, skips some text or reports an error
\* does not end it well.
LEMMA EmitInv ==
  ASSUME IInv, Lexing, NEW k, NEW name, NEW lit, NEW n, Emit(k, name, lit, n), UNCHANGED parseVars
  PROVE  IInv'
<1>1. PICK S : tokens \in Seq(S)
  BY DEF IInv, TokensInv
<1>2. PICK e : tokens' = Append(tokens, e)
  BY DEF Emit
<1>3. TokensInv'
  BY <1>1, <1>2, AppendToken DEF TokensInv
<1>4. lexed'.is = "lexing" /\ pos' = 1
  BY DEF Emit, Lexing, parseVars, IInv, StartInv
<1> QED BY <1>3, <1>4 DEF IInv, EndInv, StartInv

LEMMA SkipInv ==
  ASSUME IInv, Lexing, NEW n, Skip(n), UNCHANGED parseVars
  PROVE  IInv'
  BY DEF Skip, Lexing, parseVars, IInv, TokensInv, EndInv, StartInv

LEMMA ErrorInv ==
  ASSUME IInv, Lexing, NEW error, error # "ok", LexError(error), UNCHANGED parseVars
  PROVE  IInv'
  BY DEF LexError, Lexing, parseVars, IInv, TokensInv, EndInv, StartInv

\* The end of the text: the token that the parser will not pass.
LEMMA EofInv ==
  ASSUME IInv, Lexing, LexEof, UNCHANGED parseVars
  PROVE  IInv'
<1>1. PICK S : tokens \in Seq(S)
  BY DEF IInv, TokensInv
<1>2. PICK e : tokens' = Append(tokens, e) /\ e.k = "Eof"
  <2> DEFINE eof == [k |-> "Eof", name |-> "", lit |-> VoidV, line |-> line, col |-> col]
  <2>1. tokens' = Append(tokens, eof)
    BY Zenon DEF LexEof
  <2>2. eof.k = "Eof"
    OBVIOUS
  <2> QED BY <2>1, <2>2
<1>3. /\ TokensInv'
      /\ tokens' # <<>> /\ Len(tokens') \in Nat \ {0}
      /\ tokens'[Len(tokens')].k = "Eof"
  BY <1>1, <1>2, AppendToken DEF TokensInv
<1>4. lexed'.is = "ok" /\ pos' = 1
  BY DEF LexEof, Lexing, parseVars, IInv, StartInv
<1> QED BY <1>3, <1>4 DEF IInv, EndInv, StartInv

\* Every step of the lexer.
LEMMA LexInv ==
  ASSUME IInv, LexStep, UNCHANGED parseVars
  PROVE  IInv'
<1>0. Lexing
  BY DEF LexStep
<1>1. CASE SkipSpace
  BY <1>0, <1>1, SkipInv DEF SkipSpace
<1>2. CASE SkipLine
  BY <1>0, <1>2, SkipInv DEF SkipLine
<1>3. CASE SkipBlock
  <2>1. LexError("UnterminatedBlockComment") \/ \E n : Skip(n)
    BY <1>3, Zenon DEF SkipBlock
  <2>2. "UnterminatedBlockComment" # "ok"
    OBVIOUS
  <2> QED BY <1>0, <2>1, <2>2, SkipInv, ErrorInv
<1>4. CASE LexNumber
  <2>1. (\E k, name, lit, n : Emit(k, name, lit, n)) \/ LexError("InvalidNumber")
    BY <1>4, Zenon DEF LexNumber
  <2>2. "InvalidNumber" # "ok"
    OBVIOUS
  <2> QED BY <1>0, <2>1, <2>2, EmitInv, ErrorInv
<1>5. CASE LexString
  <2>1. (\E k, name, lit, n : Emit(k, name, lit, n)) \/ LexError("UnterminatedString")
    BY <1>5, Zenon DEF LexString
  <2>2. "UnterminatedString" # "ok"
    OBVIOUS
  <2> QED BY <1>0, <2>1, <2>2, EmitInv, ErrorInv
<1>6. CASE LexWord
  <2>1. \E k, name, lit, n : Emit(k, name, lit, n)
    BY <1>6, Zenon DEF LexWord
  <2> QED BY <1>0, <2>1, EmitInv
<1>7. CASE LexOperator
  <2>1. (\E k, name, lit, n : Emit(k, name, lit, n)) \/ LexError("UnexpectedChar")
    BY <1>7, Zenon DEF LexOperator
  <2>2. "UnexpectedChar" # "ok"
    OBVIOUS
  <2> QED BY <1>0, <2>1, <2>2, EmitInv, ErrorInv
<1>8. CASE LexEof
  BY <1>0, <1>8, EofInv
<1> QED BY <1>1, <1>2, <1>3, <1>4, <1>5, <1>6, <1>7, <1>8 DEF LexStep

\* `advance` stays at the last token.
LEMMA TakeInv ==
  ASSUME IInv, lexed.is = "ok", NEW node, Take(node), UNCHANGED lexVars
  PROVE  IInv'
<1>1. PICK S : tokens \in Seq(S)
  BY DEF IInv, TokensInv
<1>2. pos \in 1 .. Len(tokens) /\ tokens[Len(tokens)].k = "Eof" /\ Len(tokens) \in Nat
  BY <1>1 DEF IInv, EndInv
<1>3. pos' = IF tokens[pos].k = "Eof" THEN pos ELSE pos + 1
  BY DEF Take, Token
<1>4. pos' \in 1 .. Len(tokens)
  BY <1>2, <1>3
<1> QED BY <1>4 DEF lexVars, IInv, TokensInv, EndInv, StartInv

\* A step that leaves the parser at its token.
LEMMA StayInv ==
  ASSUME IInv, UNCHANGED <<lexed, tokens, pos>>
  PROVE  IInv'
  BY DEF IInv, TokensInv, EndInv, StartInv

\* Expecting a token takes it or gives up.
LEMMA ExpectInv ==
  ASSUME IInv, lexed.is = "ok", NEW ks, NEW node, Expect(ks, node), UNCHANGED lexVars
  PROVE  IInv'
<1>1. Take(node) \/ Reject
  BY DEF Expect
<1>2. CASE Take(node)
  BY <1>2, TakeInv
<1>3. CASE Reject
  BY <1>3, StayInv DEF Reject, lexVars
<1> QED BY <1>1, <1>2, <1>3

\* Every step of the parser.
LEMMA ParseInv ==
  ASSUME IInv, ParseStep, UNCHANGED lexVars
  PROVE  IInv'
<1>0. lexed.is = "ok"
  BY DEF ParseStep
<1>1. CASE Choose
  BY <1>1, StayInv DEF Choose, Reject, lexVars
<1>2. CASE CallFunction
  BY <1>2, StayInv DEF CallFunction, lexVars
<1>3. CASE ExpectToken
  BY <1>0, <1>3, ExpectInv DEF ExpectToken
<1>4. CASE ExpectName
  BY <1>0, <1>4, ExpectInv DEF ExpectName
<1>5. CASE ExpectType
  BY <1>0, <1>5, ExpectInv DEF ExpectType
<1>6. CASE TakeOp
  BY <1>0, <1>6, TakeInv DEF TakeOp
<1>7. CASE TakeLit
  BY <1>0, <1>7, TakeInv DEF TakeLit
<1>8. CASE TakeBrackets
  BY <1>8, StayInv DEF TakeBrackets, lexVars
<1>9. CASE MakeNode
  BY <1>9, StayInv DEF MakeNode, lexVars
<1>10. CASE Return
  BY <1>10, StayInv DEF Return, lexVars
<1>11. CASE Accept
  BY <1>11, StayInv DEF Accept, lexVars
<1> QED BY <1>1, <1>2, <1>3, <1>4, <1>5, <1>6, <1>7, <1>8, <1>9, <1>10, <1>11 DEF ParseStep

(***************************************************************************)
(* Whatever the text, the parser's index is one of its tokens: peek_kind,  *)
(* peek_line and advance (parser/mod.rs:46-64) do not panic.               *)
(***************************************************************************)
THEOREM TokensSuffice == Spec => []ReadsItsTokens
<1>1. Init => IInv
  BY InitInv
<1>2. IInv /\ [Next]_vars => IInv'
  <2> SUFFICES ASSUME IInv, [Next]_vars PROVE IInv'
    OBVIOUS
  <2>1. CASE LexStep /\ UNCHANGED parseVars
    BY <2>1, LexInv
  <2>2. CASE ParseStep /\ UNCHANGED lexVars
    BY <2>2, ParseInv
  <2>3. CASE UNCHANGED vars
    BY <2>3, StayInv DEF vars, lexVars, parseVars
  <2> QED BY <2>1, <2>2, <2>3 DEF Next
<1>3. IInv => ReadsItsTokens
  <2> SUFFICES ASSUME IInv, lexed.is = "ok" PROVE pos \in DOMAIN tokens
    BY DEF ReadsItsTokens
  <2>1. PICK S : tokens \in Seq(S)
    BY DEF IInv, TokensInv
  <2> QED BY <2>1 DEF IInv, EndInv
<1> QED BY <1>1, <1>2, <1>3, PTL DEF Spec
===============================================================================
