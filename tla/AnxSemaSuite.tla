----------------------------- MODULE AnxSemaSuite -----------------------------
(***************************************************************************)
(* Programs to check, with the errors they get: the unit tests of          *)
(* sema/mod.rs (quoted by name) and the corners those leave out.  A case   *)
(* is <<name, declarations, kinds of the errors in order>>.                *)
(***************************************************************************)
EXTENDS AnxSuite

v == id("v")   w == id("w")
ints == arr(<<int(1), int(2)>>)
Mism == "TypeMismatch"

\* A program that is one main.
InMain(name, stmts, kinds) == <<name, <<main(stmts)>>, kinds>>

\* A function of a bool w, to be checked for paths that return nothing.
Paths(name, stmts, kinds) ==
  <<name, <<func(TInt, "g", <<param(TBool, "w")>>, stmts),
            main(<<say(call("g", <<bool(TRUE)>>)), say(call("g", <<bool(FALSE)>>))>>)>>, kinds>>

DeclarationCases == <<
  InMain("errors_on_undeclared_identifier", <<say(y)>>, <<"UndeclaredIdentifier">>),
  InMain("errors_collect_more_than_one_at_once", <<say(y), say(x)>>,
         <<"UndeclaredIdentifier", "UndeclaredIdentifier">>),
  InMain("errors_on_type_mismatch_in_var_decl", <<var(TInt, "x", bool(TRUE)), say(x)>>, <<Mism>>),
  InMain("errors_on_duplicate_declaration_in_same_scope",
         <<var(TInt, "x", int(1)), var(TBool, "x", bool(TRUE)), if(x, do(x))>>,
         <<"DuplicateDeclaration">>),
  InMain("variable_scoping_is_block_local",
         <<if(bool(TRUE), block(<<var(TInt, "x", int(1))>>)), say(x)>>, <<"UndeclaredIdentifier">>),
  InMain("a body without braces is a scope too",
         <<if(bool(TRUE), var(TInt, "x", int(1))), var(TInt, "x", int(2)),
           while(bool(FALSE), var(TInt, "x", int(1))), say(x),
           if(bool(TRUE), ret0), if(bool(TRUE), var0(TInt, "y")), say(y)>>,
         <<"UndeclaredIdentifier">>),
  InMain("a declaration that is a body is not in scope after it",
         <<if(bool(TRUE), var(TInt, "x", int(1))), say(x)>>, <<"UndeclaredIdentifier">>),
  InMain("a for loop's variable ends with it",
         <<for(var(TInt, "i", int(0)), bin("Lt", i, int(2)), post("Inc", i), var(TInt, "i", i)),
           say(i)>>, <<"UndeclaredIdentifier">>),
  InMain("a variable is not in scope in its own initialiser", <<var(TInt, "x", x)>>,
         <<"UndeclaredIdentifier">>),
  <<"an initialiser sees the variable its own name hides",
    <<var(TInt, "x", int(1)), main(<<var(TInt, "x", x), say(x)>>)>>, <<>>>>,
  <<"a function sees the globals before it and every function",
    <<main(<<do(call("g", <<>>)), say(x)>>), func(TVoid, "g", <<>>, <<>>), var0(TInt, "x")>>,
    <<"UndeclaredIdentifier">>>>,
  <<"a parameter may be hidden, by a local of the same scope no less",
    <<func(TInt, "g", <<param(TInt, "x"), param(TBool, "x")>>,
           <<if(x, ret(int(1))), var(TInt, "x", int(1)), ret(x)>>), main(<<>>)>>,
    <<"DuplicateDeclaration">>>>,
  <<"errors_on_missing_main", <<func(TInt, "g", <<>>, <<ret(int(1))>>)>>, <<"MissingMain">>>>,
  <<"main with a parameter", <<func(TVoid, "main", <<param(TInt, "x")>>, <<>>)>>,
    <<"MissingMain">>>>,
  <<"two functions of a name: the first one's signature counts",
    <<func(TInt, "g", <<>>, <<ret(int(1))>>), func(TBool, "g", <<param(TInt, "x")>>, <<ret(x)>>),
      main(<<var(TInt, "x", call("g", <<>>))>>)>>, <<"DuplicateDeclaration", Mism>>>>,
  <<"a function named as a built-in, and one named print",
    <<func(TInt, "length", <<>>, <<ret(int(1))>>), func(TInt, "print", <<>>, <<ret(int(1))>>),
      main(<<do(call("print", <<>>)), do(call("length", <<str(<<>>)>>))>>)>>,
    <<"DuplicateDeclaration", "ArityMismatch">>>>
>>

ReturnCases == <<
  Paths("errors_on_missing_return_in_non_void_function", <<>>, <<"MissingReturn">>),
  Paths("one branch returns", <<if(w, ret(int(1)))>>, <<"MissingReturn">>),
  Paths("one branch returns, the other does not",
        <<ifelse(w, ret(int(1)), block(<<>>))>>, <<"MissingReturn">>),
  Paths("both branches return", <<ifelse(w, block(<<ret(int(1)), say(w)>>), ret(int(2)))>>, <<>>),
  Paths("a loop that never ends does not count as a return",
        <<while(bool(TRUE), ret(int(1)))>>, <<"MissingReturn">>),
  Paths("a wrong return is a return", <<ret(bool(TRUE))>>, <<Mism>>),
  Paths("a return of nothing", <<ret0>>, <<Mism>>),
  Paths("a return in a block, then a statement", <<block(<<ret(int(1))>>), say(w)>>, <<>>),
  InMain("a void function returns a value", <<ret(y)>>, <<"UndeclaredIdentifier", Mism>>)
>>

ExpressionCases == <<
  <<"errors_on_call_arity_mismatch", <<Fib, main(<<say(call("f", <<>>)), say(call("f", <<y, int(1)>>))>>)>>,
    <<"ArityMismatch", "ArityMismatch", "UndeclaredIdentifier">>>>,
  <<"errors_on_call_argument_type_mismatch", <<Fib, main(<<say(call("f", <<bool(TRUE)>>))>>)>>,
    <<Mism>>>>,
  InMain("an undeclared function without arguments", <<var(TInt, "x", call("g", <<>>))>>,
         <<"UndeclaredFunction">>),
  InMain("an undeclared function, and print's arity",
         <<do(call("g", <<y>>)), do(call("print", <<y, int(1)>>))>>,
         <<"UndeclaredFunction", "UndeclaredIdentifier", "ArityMismatch", "UndeclaredIdentifier">>),
  InMain("errors_on_non_bool_if_condition",
         <<if(int(5), block(<<>>)), while(str(<<>>), block(<<>>)),
           for(var(TInt, "i", int(0)), i, i, block(<<>>)), if(y, block(<<>>))>>,
         <<"NonBoolCondition", "NonBoolCondition", "NonBoolCondition", "UndeclaredIdentifier">>),
  InMain("errors_on_non_int_array_index",
         <<var(ArrayOf(TInt), "v", ints), say(at(v, bool(TRUE)))>>, <<Mism>>),
  InMain("errors_on_indexing_non_array",
         <<var(TInt, "x", int(5)), say(at(x, int(0))), say(at(x, x)), say(at(x, str(<<>>)))>>,
         <<"NotIndexable", "NotIndexable", "NotIndexable", Mism>>),
  InMain("errors_on_invalid_assignment_target",
         <<do(set(int(5), int(1))), do(upd("Add", int(5), int(1))), do(post("Inc", int(5))),
           do(set(len(y), y))>>,
         <<"InvalidAssignTarget", "InvalidAssignTarget", "InvalidAssignTarget",
           "InvalidAssignTarget", "UndeclaredIdentifier", "UndeclaredIdentifier">>),
  InMain("errors_on_unknown_field_access",
         <<var(TInt, "x", int(5)), say(len(x)),
           say([len(str(<<>>)) EXCEPT !.name = "size"]), say(len(str(<<>>)))>>,
         <<"UnknownField", "UnknownField">>),
  InMain("errors_on_inc_dec_on_non_numeric_type, and unary operators",
         <<var(TBool, "w", bool(TRUE)), do(post("Inc", w)), do(un("BitNot", w)), do(un("Neg", w)),
           do(un("Not", int(1))), do(un("Not", w)), do(un("Neg", float(1)))>>,
         <<Mism, Mism, Mism, Mism>>),
  InMain("a target without a type hides the value's errors",
         <<do(set(y, x)), do(upd("Add", y, x)), do(post("Inc", y))>>,
         <<"UndeclaredIdentifier", "UndeclaredIdentifier", "UndeclaredIdentifier">>),
  InMain("errors_on_compound_assign_type_mismatch, errors_on_string_plus_int",
         <<var(TInt, "x", int(1)), do(upd("Add", x, str(<<>>))), do(bin("Add", str(<<>>), int(1))),
           do(bin("Sub", str(<<>>), str(<<>>))), do(bin("And", bool(TRUE), int(1))),
           do(bin("Lt", str(<<>>), str(<<>>))), do(bin("BitAnd", float(1), float(1))),
           do(bin("Eq", str(<<>>), int(1))), do(bin("Mod", float(1), float(1)))>>,
         <<Mism, Mism, Mism, Mism, Mism, Mism, Mism>>),
  InMain("ternaries",
         <<do(cond(int(1), int(1), int(2))), do(cond(bool(TRUE), int(1), str(<<>>))),
           do(cond(bool(TRUE), print(int(1)), print(int(2)))), do(cond(bool(TRUE), null, y)),
           do(cond(y, int(1), int(2)))>>,
         <<"NonBoolCondition", Mism, Mism, "UndeclaredIdentifier", "UndeclaredIdentifier">>),
  InMain("array literals",
         <<var(ArrayOf(TInt), "v", arr(<<>>)), do(arr(<<>>)), do(set(v, arr(<<int(1), bool(TRUE)>>))),
           do(arr(<<int(1), bool(TRUE), y>>)), var(TInt, "x", arr(<<y>>)), do(arr(<<y, w>>)),
           say(arr(<<arr(<<int(1)>>), arr(<<>>)>>)), do(new(TInt, bool(TRUE))), do(new(TInt, y))>>,
         <<Mism, Mism, Mism, "UndeclaredIdentifier", Mism, "UndeclaredIdentifier", Mism,
           "UndeclaredIdentifier">>)
>>

SemaSuite == DeclarationCases \o ReturnCases \o ExpressionCases
===============================================================================
