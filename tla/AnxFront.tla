------------------------------- MODULE AnxFront -------------------------------
(***************************************************************************)
(* From a source text to its syntax tree: parse(lex(source)?), as the      *)
(* command line calls it (cli.rs, frontend).                               *)
(***************************************************************************)
EXTENDS AnxParser

vars == <<lexVars, parseVars>>

Init == LexInit /\ ParseInit

\* A text that the lexer rejects is never parsed.
Done == lexed.is \notin {"lexing", "ok"} \/ ~Parsing

Next == \/ LexStep /\ UNCHANGED parseVars
        \/ ParseStep /\ UNCHANGED lexVars
        \/ Done /\ UNCHANGED vars

Spec == Init /\ [][Next]_vars

(***************************************************************************)
(* The parser indexes its tokens unchecked (peek_kind, parser/mod.rs:46):  *)
(* it never reads past them, because the lexer ends every text with Eof    *)
(* and `advance` stays there.                                              *)
(***************************************************************************)
ReadsItsTokens == lexed.is = "ok" => pos \in DOMAIN tokens
===============================================================================
