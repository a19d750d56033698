------------------------------- MODULE AnxSuite -------------------------------
(***************************************************************************)
(* Programs to run, with what each prints and how it ends.  Most are the   *)
(* unit tests of interp/mod.rs (quoted by name), scaled to 8-bit ints; the *)
(* rest reach the corners those leave out.  A case is                      *)
(* <<name, declarations, texts printed, final status>>.                    *)
(***************************************************************************)
EXTENDS AnxBuild, AnxValue

I(n) == IntV(n)
B(b) == BoolV(b)

\* Strings of the suite: ASCII bytes, and one two-byte char.
a_ == 97   b_ == 98   c_ == 99   d_ == 100
Ecute == <<195, 169>>

x == id("x")   y == id("y")   n == id("n")   i == id("i")   nums == id("nums")

SideEffect == func(TBool, "f", <<>>, <<say(str(<<c_>>)), ret(bool(TRUE))>>)
Loud == func(TInt, "f", <<param(TInt, "n")>>, <<say(str(<<c_>>)), ret(n)>>)
Fib  == func(TInt, "f", <<param(TInt, "n")>>,
             <<if(bin("LtEq", n, int(1)), ret(n)),
               ret(bin("Add", call("f", <<bin("Sub", n, int(1))>>),
                              call("f", <<bin("Sub", n, int(2))>>)))>>)
\* A counter bumped each time an index expression is evaluated.
NextIndex == func(TInt, "f", <<>>, <<do(set(x, bin("Add", x, int(1)))), ret(int(0))>>)

Expressions == <<
  <<"evaluates_arithmetic", <<main(<<say(bin("Add", int(2), bin("Mul", int(3), int(4))))>>)>>,
    <<I(14)>>, "ok">>,
  <<"evaluates_comparisons_and_equality",
    <<main(<<say(bin("Lt", int(3), int(5))), say(bin("Eq", int(3), int(3))),
             say(bin("NotEq", int(3), int(5)))>>)>>, <<B(TRUE), B(TRUE), B(TRUE)>>, "ok">>,
  <<"short_circuits_and",
    <<SideEffect, main(<<if(bin("And", bool(FALSE), call("f", <<>>)), block(<<>>)),
                         say(str(<<d_>>))>>)>>, <<StrV(<<d_>>)>>, "ok">>,
  <<"short_circuits_or",
    <<SideEffect, main(<<if(bin("Or", bool(TRUE), call("f", <<>>)), block(<<>>)),
                         say(str(<<d_>>))>>)>>, <<StrV(<<d_>>)>>, "ok">>,
  <<"both operands of && and ||",
    <<SideEffect, main(<<say(bin("And", call("f", <<>>), bin("Or", bool(FALSE), bool(FALSE))))>>)>>,
    <<StrV(<<c_>>), B(FALSE)>>, "ok">>,
  <<"evaluates_ternary",
    <<main(<<var(TInt, "x", int(5)), var(TInt, "y", int(3)),
             say(cond(bin("Gt", x, y), x, y)), say(cond(bin("Gt", x, y), y, x))>>)>>,
    <<I(5), I(3)>>, "ok">>,
  <<"ternary_only_evaluates_the_taken_branch",
    <<Loud, main(<<say(cond(bool(TRUE), int(1), call("f", <<int(9)>>)))>>)>>, <<I(1)>>, "ok">>,
  <<"evaluates_bitwise_and_shift_operators",
    <<main(<<say(bin("BitAnd", int(5), int(3))), say(bin("BitOr", int(5), int(2))),
             say(bin("BitXor", int(5), int(1))), say(un("BitNot", int(5))),
             say(bin("Shl", int(1), int(4))), say(bin("Shr", int(16), int(2)))>>)>>,
    <<I(1), I(7), I(4), I(-6), I(16), I(4)>>, "ok">>,
  <<"evaluates_unsigned_right_shift",
    <<main(<<var(TInt, "x", un("Neg", int(1))), say(bin("UShr", x, int(1))),
             say(bin("Shr", x, int(1)))>>)>>, <<I(MaxInt), I(-1)>>, "ok">>,
  <<"evaluates_prefix_increment_and_decrement",
    <<main(<<var(TInt, "x", int(5)), say(pre("Inc", x)), say(x), say(pre("Dec", x)), say(x)>>)>>,
    <<I(6), I(6), I(5), I(5)>>, "ok">>,
  <<"evaluates_postfix_increment_and_decrement",
    <<main(<<var(TInt, "x", int(5)), say(post("Inc", x)), say(x), say(post("Dec", x)), say(x)>>)>>,
    <<I(5), I(6), I(6), I(5)>>, "ok">>,
  <<"compound_assignment_returns_the_new_value",
    <<main(<<var(TInt, "x", int(1)), say(upd("Add", x, int(4)))>>)>>, <<I(5)>>, "ok">>,
  <<"evaluates_compound_assignment_on_variable",
    <<main(<<var(TInt, "x", int(10)),
             say(upd("Add", x, int(5))), say(upd("Sub", x, int(3))), say(upd("Mul", x, int(2))),
             say(upd("Div", x, int(4))), say(upd("Mod", x, int(4))), say(upd("BitAnd", x, int(3))),
             say(upd("BitOr", x, int(8))), say(upd("BitXor", x, int(1))),
             say(upd("Shl", x, int(2))), say(upd("Shr", x, int(1)))>>)>>,
    <<I(15), I(12), I(24), I(6), I(2), I(2), I(10), I(11), I(44), I(22)>>, "ok">>,
  <<"a compound assignment reads its target before its right-hand side",
    <<main(<<var(TInt, "x", int(5)), do(upd("Add", x, set(x, int(1)))), say(x)>>)>>,
    <<I(6)>>, "ok">>,
  <<"floats: NaN compares as equal, and is not equal to itself",
    <<main(<<var(TFloat, "x", bin("Div", float(0), float(0))), say(bin("LtEq", x, x)),
             say(bin("Lt", x, x)), say(bin("Eq", x, x)),
             say(bin("Gt", bin("Div", float(2), float(0)), un("Neg", float(3)))),
             say(pre("Inc", x)), say(bin("Mul", float(3), float(4)))>>)>>,
    <<B(TRUE), B(FALSE), B(FALSE), B(TRUE), FloatV(NaN), FloatV(6)>>, "ok">>
>>

\* Prints its own letter and returns an index, a value, or the global array.
Mark(f, letter, t, e) == func(t, f, <<>>, <<say(str(<<letter>>)), ret(e)>>)
GlobalNums == var(ArrayOf(TInt), "nums", arr(<<int(4), int(5)>>))
Marks == <<GlobalNums, Mark("f", a_, ArrayOf(TInt), nums), Mark("g", b_, TInt, int(1)),
           Mark("h", c_, TInt, int(3))>>
f_ == call("f", <<>>)   g_ == call("g", <<>>)   h_ == call("h", <<>>)

Arrays == <<
  <<"arrays_are_reference_semantics_across_calls",
    <<func(TVoid, "f", <<param(ArrayOf(TInt), "x")>>,
           <<do(set(at(x, int(0)), bin("Add", at(x, int(0)), int(1))))>>),
      main(<<var(ArrayOf(TInt), "nums", arr(<<int(5)>>)), do(call("f", <<nums>>)),
             say(at(nums, int(0)))>>)>>, <<I(6)>>, "ok">>,
  <<"array_creation_default_initializes_to_zero",
    <<main(<<var(ArrayOf(TInt), "x", new(TInt, int(2))), say(at(x, int(0))),
             say(at(x, int(1))), say(len(x)), say(x)>>)>>,
    <<I(0), I(0), I(2), ArrayText>>, "ok">>,
  <<"errors_on_array_index_out_of_bounds",
    <<main(<<var(ArrayOf(TInt), "x", arr(<<int(1), int(2)>>)), say(at(x, int(2)))>>)>>,
    <<>>, "IndexOutOfBounds">>,
  <<"errors_on_negative_array_creation_size",
    <<main(<<var(TInt, "n", un("Neg", int(1))), var(ArrayOf(TInt), "x", new(TInt, n))>>)>>,
    <<>>, "NegativeArraySize">>,
  <<"increment_on_array_index_evaluates_index_once",
    <<var(TInt, "x", int(0)), NextIndex,
      main(<<var(ArrayOf(TInt), "nums", arr(<<int(10)>>)),
             say(post("Inc", at(nums, call("f", <<>>)))), say(at(nums, int(0))), say(x),
             say(pre("Dec", at(nums, int(0))))>>)>>, <<I(10), I(11), I(1), I(10)>>, "ok">>,
  <<"compound_assignment_evaluates_array_index_expression_exactly_once",
    <<var(TInt, "x", int(0)), NextIndex,
      main(<<var(ArrayOf(TInt), "nums", arr(<<int(10)>>)),
             do(upd("Add", at(nums, call("f", <<>>)), int(5))), say(at(nums, int(0))),
             say(x)>>)>>, <<I(15), I(1)>>, "ok">>,
  <<"an assignment evaluates its value, then the array, then the index",
    Marks \o <<main(<<do(set(at(f_, g_), h_)), say(at(nums, int(1)))>>)>>,
    <<StrV(<<c_>>), StrV(<<a_>>), StrV(<<b_>>), I(3)>>, "ok">>,
  <<"a compound assignment evaluates the array, then the index, then the value",
    Marks \o <<main(<<do(upd("Sub", at(f_, g_), h_)), say(at(nums, int(1)))>>)>>,
    <<StrV(<<a_>>), StrV(<<b_>>), StrV(<<c_>>), I(2)>>, "ok">>,
  <<"a compound assignment checks its bounds before it evaluates the value",
    Marks \o <<main(<<do(upd("Add", at(f_, int(2)), h_))>>)>>,
    <<StrV(<<a_>>)>>, "IndexOutOfBounds">>,
  <<"the right-hand side of a compound assignment replaces the array",
    <<GlobalNums, func(TInt, "f", <<>>, <<do(set(nums, new(TInt, int(0)))), ret(int(3))>>),
      main(<<do(upd("Add", at(nums, int(1)), call("f", <<>>))), say(len(nums))>>)>>,
    <<I(0)>>, "ok">>,
  <<"array equality is structural, whatever the nesting",
    <<main(<<var(ArrayOf(TInt), "x", arr(<<int(1), int(2)>>)),
             var(ArrayOf(TInt), "y", arr(<<int(1), int(2)>>)),
             say(bin("Eq", x, y)), do(upd("Add", at(y, int(1)), int(1))),
             say(bin("NotEq", arr(<<x, x>>), arr(<<x, y>>)))>>)>>, <<B(TRUE), B(TRUE)>>, "ok">>,
  <<"strings",
    <<main(<<var(TStr, "x", bin("Add", str(<<a_>> \o Ecute), str(<<b_>>))), say(x),
             say(call("length", <<x>>)), say(len(x)), say(call("charAt", <<x, int(3)>>)),
             say(call("charAt", <<x, int(1)>>)), say(call("substring", <<x, int(0), int(2)>>)),
             say(call("substring", <<x, int(2), int(4)>>)),
             say(call("substring", <<x, int(4), int(4)>>)),
             say(bin("Eq", call("substring", <<x, int(0), int(1)>>), str(<<a_>>)))>>)>>,
    <<StrV(<<a_>> \o Ecute \o <<b_>>), I(4), I(4), StrV(<<b_>>), StrV(<<195, 131>>),
      StrV(<<a_>> \o Replacement), StrV(Replacement \o <<b_>>), StrV(<<>>), B(TRUE)>>, "ok">>,
  <<"substring checks its end against its start",
    <<main(<<say(call("substring", <<str(<<a_, b_>>), int(2), int(1)>>))>>)>>,
    <<>>, "StringIndexOutOfBounds">>,
  <<"charAt checks its index",
    <<main(<<say(call("charAt", <<str(<<>>), int(0)>>))>>)>>, <<>>, "StringIndexOutOfBounds">>
>>

Count(init, body) == for(var(TInt, "i", init), bin("Lt", i, int(2)), post("Inc", i), body)

Statements == <<
  <<"evaluates_if_else_if_else",
    <<main(<<var(TInt, "x", int(0)),
             ifelse(bin("Gt", x, int(0)), block(<<say(str(<<a_>>))>>),
                    ifelse(bin("Eq", x, int(0)), block(<<say(str(<<b_>>))>>),
                           block(<<say(str(<<c_>>))>>)))>>)>>, <<StrV(<<b_>>)>>, "ok">>,
  <<"evaluates_while_loop",
    <<main(<<var(TInt, "x", int(2)),
             while(bin("Gt", x, int(0)), block(<<say(x), do(set(x, bin("Sub", x, int(1))))>>))>>)>>,
    <<I(2), I(1)>>, "ok">>,
  <<"evaluates_for_loop",
    <<main(<<var(ArrayOf(TInt), "nums", arr(<<int(10), int(20)>>)),
             Count(int(0), block(<<say(at(nums, i))>>))>>)>>, <<I(10), I(20)>>, "ok">>,
  <<"evaluates_recursion", <<Fib, main(<<say(call("f", <<int(5)>>))>>)>>, <<I(5)>>, "ok">>,
  <<"a return leaves every enclosing loop, and no caller",
    <<func(TInt, "f", <<>>,
           <<Count(int(0), while(bool(TRUE), ifelse(bin("Eq", i, int(1)), ret(i),
                                                do(post("Inc", i))))), ret(int(9))>>),
      main(<<Count(int(1), say(call("f", <<>>))), say(int(7))>>)>>, <<I(1), I(7)>>, "ok">>,
  <<"a body without braces has a scope of its own, per iteration",
    <<main(<<var(TInt, "x", int(1)), Count(int(0), var(TInt, "x", int(5))), say(x),
             Count(int(1), Count(int(1), say(i))),
             if(bool(FALSE), say(x)), block(<<var(TInt, "x", x), do(set(x, int(3)))>>),
             say(x)>>)>>, <<I(1), I(1), I(1)>>, "ok">>,
  <<"a callee sees globals and not its caller's locals",
    <<var(TInt, "x", int(1)), func(TVoid, "f", <<>>, <<do(upd("Add", x, int(1))), ret0>>),
      main(<<var(TInt, "x", int(5)), do(call("f", <<>>)), say(x), do(call("g", <<>>))>>),
      func(TVoid, "g", <<>>, <<say(x)>>)>>, <<I(5), I(2)>>, "ok">>,
  <<"the later of two parameters of one name is the one seen",
    <<func(TInt, "f", <<param(TInt, "x"), param(TInt, "x")>>, <<ret(x)>>),
      main(<<say(call("f", <<int(1), int(2)>>))>>)>>, <<I(2)>>, "ok">>,
  <<"defaults",
    <<main(<<var0(TInt, "x"), var0(TBool, "y"), var0(TStr, "n"), var0(TFloat, "i"),
             var0(ArrayOf(TInt), "nums"), say(x), say(y), say(n), say(i), say(len(nums)),
             say(bin("Eq", null, print(null)))>>)>>,
    <<I(0), B(FALSE), StrV(<<>>), FloatV(0), I(0), StrV(<<>>), B(TRUE)>>, "ok">>,
  <<"errors_on_division_by_zero",
    <<main(<<var(TInt, "x", int(5)), var(TInt, "y", int(0)), say(x), say(bin("Div", x, y)),
             say(y)>>)>>, <<I(5)>>, "DivisionByZero">>,
  <<"errors_on_modulo_by_zero",
    <<main(<<var(TInt, "x", un("Neg", int(5))), say(bin("Mod", x, int(3))),
             say(bin("Div", x, int(3))), say(un("Not", bin("GtEq", x, int(0)))),
             say(bin("Mod", x, int(0)))>>)>>, <<I(-2), I(-1), B(TRUE)>>, "DivisionByZero">>
>>

Suite == Expressions \o Arrays \o Statements
===============================================================================
