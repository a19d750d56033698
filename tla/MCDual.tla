-------------------------------- MODULE MCDual --------------------------------
(***************************************************************************)
(* Both suites compiled and run both ways, and programs about what code    *)
(* generation does on its own.                                             *)
(***************************************************************************)
EXTENDS AnxDual, AnxSemaSuite

Min8 == -128

\* Returns a value from inside short circuits and ternaries, nested both ways.
Nested == func(TInt, "g", <<param(TBool, "w"), param(TInt, "n")>>,
  <<if(bin("And", bin("Or", w, bin("Gt", n, int(1))), bin("And", w, bin("Lt", n, int(3)))),
       ret(cond(w, cond(bin("Eq", n, int(2)), int(7), int(8)), int(9)))),
    ret(cond(bin("Or", w, bin("And", w, w)), cond(w, n, int(5)), bin("Div", int(6), n)))>>)

\* Each operand says that it is evaluated.
Loudly(stmts) ==
  <<func(ArrayOf(TInt), "f", <<param(ArrayOf(TInt), "n")>>, <<say(str(<<a_>>)), ret(n)>>),
    Mark("g", b_, TInt, int(1)), Mark("h", c_, TInt, int(3)),
    main(<<var(ArrayOf(TInt), "nums", arr(<<int(4), int(5)>>))>> \o stmts)>>
fn_ == call("f", <<nums>>)

\* One program for each thing; what it prints is for the interpreter to say.
NativeCases == <<
  <<Nested, main(<<say(call("g", <<bool(TRUE), int(2)>>)), say(call("g", <<bool(FALSE), int(2)>>)),
                   say(call("g", <<bool(TRUE), int(3)>>)), say(call("g", <<bool(FALSE), int(0)>>))>>)>>,
  \* dead code of every kind, and branches that both return
  <<func(TInt, "g", <<param(TBool, "w")>>,
         <<while(w, block(<<ret(int(1)), say(int(2))>>)),
           for(var(TInt, "i", int(0)), w, post("Inc", i), ret(int(3))),
           ifelse(w, ret(int(4)), block(<<ifelse(w, ret(int(5)), ret(int(6)))>>)), say(int(7))>>),
    main(<<say(call("g", <<bool(TRUE)>>)), say(call("g", <<bool(FALSE)>>)), ret0, say(int(8))>>)>>,
  \* a slot in a loop, a name hidden in a body, a parameter hidden by a later one
  <<func(TInt, "f", <<param(TInt, "x"), param(TInt, "x")>>, <<ret(x)>>),
    main(<<var(TInt, "x", int(1)), Count(int(0), block(<<var(TInt, "x", bin("Add", x, i)), say(x)>>)),
           if(bool(TRUE), var(TInt, "x", int(9))), say(call("f", <<x, int(2)>>))>>)>>,
  \* out of bounds below, and a bound met in a condition
  <<main(<<var(ArrayOf(TBool), "v", new(TBool, int(1))), do(set(at(v, int(0)), bool(TRUE))),
           if(bin("And", at(v, int(0)), at(v, un("Neg", int(1)))), say(int(1)))>>)>>,
  <<main(<<var(TStr, "x", str(<<a_>>)), do(upd("Add", x, bin("Add", x, str(<<b_>>)))), say(x),
           say(bin("NotEq", x, str(<<a_>>))), say(call("substring", <<x, int(3), int(4)>>))>>)>>,
  <<main(<<var(TFloat, "x", float(3)), do(post("Dec", x)), say(un("Neg", x)), say(bin("NotEq", x, float(1))),
           say(bin("GtEq", x, float(1))), say(bin("Mul", x, bin("Sub", x, float(4)))), var0(TStr, "y"),
           say(bin("Eq", y, str(<<>>))), say(bin("Add", y, str(<<a_>>))), say(len(y))>>)>>,
  <<main(<<var(TInt, "x", int(MaxInt)), do(pre("Inc", x)), say(x), say(bin("Mul", x, int(2))),
           say(un("Neg", x)), say(bin("Shl", int(1), int(8)))>>)>>,
  <<main(<<say(bin("NotEq", bin("Div", float(0), float(0)), float(1))), say(bin("Mod", float(3), float(2)))>>)>>,
  \* what a print of floats, and of an array without elements, makes of them
  <<main(<<say(arr(<<float(1), float(3)>>)), say(new(TFloat, int(0))), say(new(TBool, int(0)))>>)>>,
  \* the order of an assignment's operands, and of its bounds check
  Loudly(<<do(set(at(fn_, g_), h_)), say(at(nums, int(1)))>>),
  Loudly(<<do(upd("Sub", at(fn_, g_), h_)), say(post("Inc", at(fn_, g_))), say(pre("Dec", at(fn_, g_)))>>),
  Loudly(<<do(upd("Add", at(fn_, int(2)), h_))>>),
  Loudly(<<do(set(at(fn_, un("Neg", int(1))), h_))>>),
  <<main(<<say(call("f", <<int(3)>>)), do(call("g", <<>>))>>), Loud,
    func(TVoid, "g", <<>>, <<do(call("f", <<int(1)>>))>>)>>,
  \* a top-level variable that is not used, and a string that is not initialised
  <<Loud, var(TInt, "x", call("f", <<int(1)>>)), main(<<say(int(2))>>)>>,
  <<main(<<var0(TStr, "x"), say(x)>>)>>,
  <<main(<<var0(TVoid, "x")>>)>>, <<func(TVoid, "g", <<param(TVoid, "x")>>, <<>>), main(<<>>)>>,
  <<main(<<var(ArrayOf(TStr), "v", new(TStr, int(1)))>>)>> >>

\* Elements of one byte each, printed.
BoolCases == <<
  <<main(<<var(ArrayOf(TBool), "v", arr(<<bool(TRUE), bool(FALSE)>>)), say(v), say(int(1))>>)>> >>

\* Equal lengths, and elements that differ after the first.
ArrayCases == <<
  <<main(<<say(bin("Eq", arr(<<int(1), int(2)>>), arr(<<int(1), int(3)>>)))>>)>> >>

MinCases == <<
  <<main(<<var(TInt, "x", bin("Sub", un("Neg", int(MaxInt)), int(1))),
           say(bin("Div", x, un("Neg", int(1))))>>)>> >>

SuiteDecls == LET s == Suite IN [c \in DOMAIN s |-> s[c][2]]
SemaDecls  == LET s == SemaSuite IN [c \in DOMAIN s |-> s[c][2]]
AllDecls   == SuiteDecls \o SemaDecls \o NativeCases \o MinCases \o BoolCases \o ArrayCases
SuiteNodes == TableRows(AllDecls)
SuiteIds   == TablePrograms(AllDecls)
SuiteNames == LET rows == SuiteNodes IN {rows[r].name : r \in DOMAIN rows}
MCNodes    == LET rows == SuiteNodes IN rows
MCPrograms == LET ids == SuiteIds IN ToSet(ids)
MCName     == LET names == SuiteNames IN names

ArrayPrograms == LET ids == SuiteIds IN {ids[Len(ids)]}
BoolPrograms == LET ids == SuiteIds IN {ids[Len(ids) - 1]}
StructPrograms == LET ids == SuiteIds
                      k == Len(Suite) + Len(SemaSuite) + Len(NativeCases)
                  IN  {ids[k]}
===============================================================================
