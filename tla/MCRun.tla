-------------------------------- MODULE MCRun ---------------------------------
(***************************************************************************)
(* `anx run` on both suites, on programs that an accepted program's few    *)
(* gaps are about, and on the programs with one operation.                 *)
(***************************************************************************)
EXTENDS AnxRun, AnxSemaSuite, AnxOps

Min8 == -128

\* A global whose initialiser calls a function that uses a global defined after it.
EarlyUse(stmts) == <<var(TInt, "x", call("f", <<>>)), var(TInt, "y", int(2)),
                     func(TInt, "f", <<>>, stmts), main(<<say(x)>>)>>

FloatModCases == <<
  <<main(<<say(bin("Mod", float(3), float(2)))>>)>>,
  <<main(<<var(TFloat, "x", float(3)), do(upd("Mod", x, float(2)))>>)>> >>
GlobalCases == << EarlyUse(<<ret(y)>>), EarlyUse(<<ret(set(y, int(1)))>>),
                  EarlyUse(<<ret(upd("Add", y, int(1)))>>), EarlyUse(<<ret(pre("Inc", y))>>) >>
MinCases == <<
  <<main(<<var(TInt, "x", bin("Sub", un("Neg", int(MaxInt)), int(1))),
           say(bin("Div", x, un("Neg", int(1))))>>)>>,
  <<main(<<var(TInt, "x", bin("Sub", un("Neg", int(MaxInt)), int(1))),
           do(upd("Mod", x, un("Neg", int(1))))>>)>> >>

SuiteDecls == LET s == Suite IN [c \in DOMAIN s |-> s[c][2]]
SemaDecls  == LET s == SemaSuite IN [c \in DOMAIN s |-> s[c][2]]
AllDecls   == SuiteDecls \o SemaDecls \o FloatModCases \o GlobalCases \o MinCases
\* The operations' rows, then the suites'.
NOps       == Len(OpNodes)
SuiteNodes == Rows(FlattenSeq(AllDecls), NOps)
SuiteIds   == Ids(AllDecls, NOps)
SuiteNames == LET rows == SuiteNodes IN {rows[r].name : r \in DOMAIN rows}
MCNodes    == LET ops == OpNodes  rows == SuiteNodes IN ops \o rows
MCPrograms == LET ids == SuiteIds  ops == OpPrograms IN ToSet(ids) \cup ops
MCName     == LET names == SuiteNames IN names \cup OpNames

\* The ids of the programs of `part`, which AllDecls has after k others.
PartOf(part, k)  == {SuiteIds[k + c] : c \in DOMAIN part}
Cases            == Len(Suite) + Len(SemaSuite)
FloatModPrograms == PartOf(FloatModCases, Cases)
GlobalPrograms   == PartOf(GlobalCases, Cases + Len(FloatModCases))
MinPrograms      == PartOf(MinCases, Cases + Len(FloatModCases) + Len(GlobalCases))
===============================================================================
