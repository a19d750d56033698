------------------------------ MODULE MCPipeline ------------------------------
(***************************************************************************)
(* Any two of a run, a check and two builds, of one file to one path, with *)
(* two process ids between them: both are at work at once, or an id is     *)
(* used again.  There is a text for each outcome - a lexical or a syntax   *)
(* error ends an invocation as a rejection does - and two for which        *)
(* everything goes well.                                                   *)
(***************************************************************************)
EXTENDS AnxPipeline

MCCmd    == [i \in Call |-> CASE i = "check" -> "check" [] i = "run" -> "run" [] OTHER -> "build"]
MCFile   == [i \in Call |-> "f"]
MCOutput == [i \in Call |-> "o"]
MCStemOf == [x \in {"f"} |-> "s"]
Failing  == {"read", "analyze", "codegen", "verify", "run", "interpreter"}
MCText   == Failing \cup {"good", "better"}
MCFailsAt == [t \in MCText |-> IF t \in Failing THEN t ELSE "none"]
===============================================================================
