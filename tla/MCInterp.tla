------------------------------- MODULE MCInterp -------------------------------
(***************************************************************************)
(* The interpreter on the suite, with 8-bit ints and a release build's     *)
(* wrapping arithmetic.                                                    *)
(***************************************************************************)
EXTENDS AnxInterp, AnxSuite

Min8 == -128

\* TLC evaluates a constant's replacement anew at each use, so MCNodes names a table
\* that it computes once; under a LET, its coverage does not count the table's terms.
SuiteDecls == LET s == Suite IN [c \in DOMAIN s |-> s[c][2]]
SuiteNodes == TableRows(SuiteDecls)
SuiteIds   == TablePrograms(SuiteDecls)
SuiteNames == LET rows == SuiteNodes IN {rows[r].name : r \in DOMAIN rows}
MCNodes    == LET rows == SuiteNodes IN rows
MCPrograms == LET ids == SuiteIds IN ToSet(ids)
MCName     == LET names == SuiteNames IN names

\* The case a program comes from.
CaseOf(p) == Suite[CHOOSE c \in DOMAIN Suite : SuiteIds[c] = p]

(***************************************************************************)
(* Every program prints, and ends, as the tests of interp/mod.rs assert.   *)
(***************************************************************************)
Conforms == status # "run" => <<out, status>> = <<CaseOf(prog)[3], CaseOf(prog)[4]>>
===============================================================================
