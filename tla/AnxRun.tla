-------------------------------- MODULE AnxRun --------------------------------
(***************************************************************************)
(* `anx run` (cli.rs): the checker, then the interpreter on what it        *)
(* accepts, then the process's exit code.  The interpreter does not look   *)
(* at the checker's tables; it relies on what they stand for, in some      *)
(* twenty places that panic "sema guarantees ...".  The properties here    *)
(* are that reliance, stated of the two components together.               *)
(***************************************************************************)
EXTENDS AnxValue

VARIABLES
  prog,                                               \* the program, common to both
  pass, item, calls, scopes, functions, declared, types, var_refs, errors, \* AnxSema's
  decl, stack, envs, heap, flow, out, status,         \* AnxInterp's
  exit                                                \* the exit code; Running until then

Sema   == INSTANCE AnxSema
Interp == INSTANCE AnxInterp

semaVars   == <<pass, item, calls, scopes, functions, declared, types, var_refs, errors>>
interpVars == <<decl, stack, envs, heap, flow, out, status>>
vars == <<prog, semaVars, interpVars, exit>>

Running == -1

Analyze == exit = Running /\ Sema!Step /\ UNCHANGED <<interpVars, exit>>

\* frontend fails: a compile-time error.
Reject ==
  /\ exit = Running /\ pass = 3 /\ errors # <<>>
  /\ exit' = 1 /\ UNCHANGED <<prog, semaVars, interpVars>>

\* A slip: the errors are printed, and the program run all the same.
InterpretAnyway ==
  /\ exit = Running /\ pass = 3 /\ status = "run"
  /\ Interp!Next /\ UNCHANGED <<semaVars, exit>>
Interpret ==
  /\ exit = Running /\ Sema!Accepted /\ status = "run"
  /\ Interp!Next /\ UNCHANGED <<semaVars, exit>>

\* A Rust panic ends the process with 101.
Leave ==
  /\ exit = Running /\ status # "run"
  /\ exit' = CASE status = "ok" -> 0 [] status \in RuntimeError -> 2 [] OTHER -> 101
  /\ UNCHANGED <<prog, semaVars, interpVars>>

Init == Sema!Init /\ Interp!Init /\ exit = Running
Step == Analyze \/ Reject \/ Interpret \/ Leave
Next == Step \/ (exit # Running /\ UNCHANGED vars)

\* The process runs on until it exits.
Spec == Init /\ [][Next]_vars /\ WF_vars(Step)

-----------------------------------------------------------------------------
(***************************************************************************)
(* Properties.                                                             *)
(***************************************************************************)
Executing == exit = Running /\ status = "run"

\* The values at each depth of v: v, then the elements of its arrays, and so on.  v has
\* type t when each depth is arrays down to t's scalars.
HasType(v, t) ==
  LET level[d \in 0 .. t.dim] ==
        IF d = 0 THEN {v}
        ELSE UNION {{heap[a.r][i] : i \in DOMAIN heap[a.r]} :
                      a \in {w \in level[d - 1] : w.k = "Array"}}
  IN  \A d \in 0 .. t.dim : \A w \in level[d] : w.k = IF d < t.dim THEN "Array" ELSE t.base

\* The expression whose value is the frame's i-th: an operand; the target, for the
\* value a compound assignment has loaded; or a call itself, for what its callee
\* returned; or a ternary itself.
ValueOf(f, i) ==
  LET nd  == Nodes[f.n]
      ops == Interp!Operands(nd)
  IN  IF (nd.k = "Ternary" /\ i > 1) \/ (nd.k = "Call" /\ i > Len(ops)) THEN f.n
      ELSE IF ops[i] = Interp!Slot THEN nd.kids[1] ELSE ops[i]

FrameTyped(f) ==
  Nodes[f.n].k \in ExprKind \cup {"Expr", "VarDecl", "Return"} =>
    \A i \in DOMAIN f.vs : HasType(f.vs[i], types[ValueOf(f, i)])

\* The static types hold at run time: every variable holds a value of its declared
\* type, and every expression's value has the type the checker gave it - through
\* calls, array aliases, default values and returns from inside loops.
ValuesHaveTheirTypes ==
  Executing /\ Sema!Accepted =>
    /\ \A e \in DOMAIN envs : \A x \in Name :
         LET entry == envs[e].vars[x]
         IN  entry.d # 0 => HasType(entry.v, Nodes[entry.d].ty)
    /\ \A j \in DOMAIN stack : FrameTyped(stack[j])

\* A function whose end is reached without a return is void: the checker's account of
\* which statements always return is right about every execution.
OnlyVoidFallsOff ==
  Executing /\ Interp!At("Func") /\ Interp!Done = Len(Interp!Here.kids) =>
    Interp!Here.ty = TVoid

\* The identifier that the innermost activation reads or writes, if it is about one.
UsesOf(f) ==
  LET nd == Nodes[f.n]
  IN  CASE nd.k = "Ident" -> {f.n}
        [] nd.k \in {"Assign", "CompoundAssign", "IncDec"} ->
             {nd.kids[1]} \cap {n \in NodeId : Nodes[n].k = "Ident"}
        [] OTHER -> {}

\* The interpreter walks environments by name, the checker walked scopes by name and
\* noted a symbol id: both mean the same declaration, whatever shadows whatever, so
\* the type the checker gave an identifier is that of the variable it will name.
NamesMeanTheirSymbols ==
  Executing /\ Interp!Running =>
    \A n \in UsesOf(Interp!Top) :
      \A o \in Interp!Owner(Interp!Top.env, Nodes[n].name) :
        envs[o].vars[Nodes[n].name].d = declared[var_refs[n] + 1]

\* The two ways an accepted program can still trip over "sema guarantees ...": a
\* remainder of floats, and a global variable that is used, by a function that an
\* earlier global's initialiser calls, before it is defined.
FloatRemainder ==
  /\ Interp!Here.k \in {"Binary", "CompoundAssign"} /\ Interp!Here.op = "Mod"
  /\ Interp!Top.vs[Interp!Done].k = "Float"
UndefinedGlobal ==
  /\ Nodes[stack[1].n].k = "VarDecl"
  /\ \E n \in UsesOf(Interp!Top) : /\ Interp!Owner(Interp!Top.env, Nodes[n].name) = {}
                                   /\ declared[var_refs[n] + 1] \in {prog[i] : i \in DOMAIN prog}

\* Everywhere else the guarantee holds: no other step of an accepted program panics
\* on an operand, a name, a call or a target.
PanicsOnlyWhereKnown ==
  [][status = "run" /\ status' = "panic" => FloatRemainder \/ UndefinedGlobal]_vars

\* What the interpreter's panics say of the checker, taken at their word.
OperandsAreGuaranteed == [][status = "run" /\ status' = "panic" => ~FloatRemainder]_vars
NamesAreGuaranteed    == [][status = "run" /\ status' = "panic" => ~UndefinedGlobal]_vars

\* A program with a compile-time error exits with 1 and has run nothing, not even the
\* initialisers of its globals.
RejectedRunsNothing ==
  pass = 3 /\ errors # <<>> => interpVars = <<1, <<>>, envs, <<>>, Interp!Normal, <<>>, "run">>
                               /\ Len(envs) = 1 /\ exit \in {Running, 1}

\* The exit code is one the README names.
ExitIsDocumented == exit \in {Running, 0, 1, 2}
===============================================================================
