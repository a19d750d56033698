-------------------------------- MODULE MCSema --------------------------------
(***************************************************************************)
(* The checker on both suites: the programs to run, which it accepts, and  *)
(* the programs to reject.                                                 *)
(***************************************************************************)
EXTENDS AnxSema, AnxSemaSuite

Min8 == -128

Expect(c) == IF c <= Len(Suite) THEN <<>> ELSE SemaSuite[c - Len(Suite)][3]
SuiteDecls == LET s == Suite IN [c \in DOMAIN s |-> s[c][2]]
SemaDecls  == LET s == SemaSuite IN [c \in DOMAIN s |-> s[c][2]]
AllDecls   == SuiteDecls \o SemaDecls
SuiteNodes == TableRows(AllDecls)
SuiteIds   == TablePrograms(AllDecls)
SuiteNames == LET rows == SuiteNodes IN {rows[r].name : r \in DOMAIN rows}
MCNodes    == LET rows == SuiteNodes IN rows
MCPrograms == LET ids == SuiteIds IN ToSet(ids)
MCName     == LET names == SuiteNames IN names

(***************************************************************************)
(* Every program gets the errors that the tests of sema/mod.rs assert.     *)
(***************************************************************************)
Kinds == [e \in DOMAIN errors |-> errors[e].k]
Conforms == pass = 3 => Kinds = Expect(CHOOSE c \in DOMAIN SuiteIds : SuiteIds[c] = prog)
===============================================================================
