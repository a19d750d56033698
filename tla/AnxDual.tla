------------------------------- MODULE AnxDual --------------------------------
(***************************************************************************)
(* One program, both ways: what the checker accepts is compiled, the       *)
(* built program is run to its end, and the interpreter is run on the same *)
(* tree.  The documentation promises that the two behave identically; the  *)
(* properties here say where they do, and that code generation can rely on *)
(* the checker as the interpreter does.                                    *)
(***************************************************************************)
EXTENDS AnxValue

VARIABLES
  prog,
  pass, item, calls, scopes, functions, declared, types, var_refs, errors,  \* AnxSema's
  stage, todo, gens, slots, blocks, builder, regs,                          \* AnxCodegen's
  cpu, mem, printed, ended, gaps,                                           \* AnxNative's
  decl, stack, envs, heap, flow, out, status                                \* AnxInterp's

Sema    == INSTANCE AnxSema
Codegen == INSTANCE AnxCodegen
Native  == INSTANCE AnxNative
Interp  == INSTANCE AnxInterp

semaVars   == <<pass, item, calls, scopes, functions, declared, types, var_refs, errors>>
cgVars     == <<stage, todo, gens, slots, blocks, builder, regs>>
nativeVars == <<cpu, mem, printed, ended, gaps>>
interpVars == <<decl, stack, envs, heap, flow, out, status>>
vars == <<prog, semaVars, cgVars, nativeVars, interpVars>>

Analyze   == Sema!Step /\ UNCHANGED <<cgVars, nativeVars, interpVars>>
Generate  == Sema!Accepted /\ Codegen!Next /\ UNCHANGED <<semaVars, nativeVars, interpVars>>
Execute   == stage = "done" /\ Native!Next /\ UNCHANGED <<prog, semaVars, cgVars, interpVars>>
Interpret == /\ ended # "run" /\ status = "run" /\ Interp!Next
             /\ UNCHANGED <<semaVars, cgVars, nativeVars>>

Init == Sema!Init /\ Codegen!Init /\ Native!Init /\ Interp!Init
Step == Analyze \/ Generate \/ Execute \/ Interpret
Over == pass = 3 /\ (errors # <<>> \/ stage = "panic" \/ status # "run")
Next == Step \/ (Over /\ UNCHANGED vars)
Spec == Init /\ [][Next]_vars /\ WF_vars(Step)

-----------------------------------------------------------------------------
(***************************************************************************)
(* Properties.                                                             *)
(***************************************************************************)
Compiling == Sema!Accepted /\ stage = "compile" /\ gens # <<>>

\* The identifiers whose slots an activation of code generation looks up.
UsesOf(n) ==
  LET nd == Nodes[n]
  IN  CASE nd.k = "Ident" -> {n}
        [] nd.k \in {"Assign", "CompoundAssign", "IncDec"} ->
             {nd.kids[1]} \cap {m \in NodeId : Nodes[m].k = "Ident"}
        [] OTHER -> {}
Symbol(n) == declared[var_refs[n] + 1]
IsGlobal(d) == d \in {prog[i] : i \in DOMAIN prog}

\* The third walk of the scopes agrees with the first two: the stack slot a name is
\* compiled to is that of the declaration the checker resolved it to - only a global
\* has none.
SlotsMeanTheirSymbols ==
  Compiling => \A n \in UsesOf(Codegen!Top.n) :
    LET s == Codegen!ResolveVar(Nodes[n].name)
    IN  s.d = IF IsGlobal(Symbol(n)) THEN 0 ELSE Symbol(n)

\* The three ways an accepted program can still trip over what code generation says
\* the checker guarantees: void where a value is needed, an array of strings or of
\* arrays, and a top-level variable that is used.
TypeOf(n) == IF n \in DOMAIN types THEN types[n] ELSE TVoid
VoidData(n) ==
  LET nd == Nodes[n]
  IN  \/ nd.k = "VarDecl" /\ nd.ty = TVoid
      \/ \E i \in DOMAIN nd.kids : Nodes[nd.kids[i]].k \in ExprKind /\ TypeOf(nd.kids[i]) = TVoid
StructElements(n) ==
  LET nd == Nodes[n]
  IN  \/ nd.k = "ArrayLiteral" /\ LET e == ElemOf(types[n]) IN e \in {TStr, TVoid} \/ IsArray(e)
      \/ nd.k = "ArrayCreation" /\ nd.ty \in {TStr, TVoid}
UsesGlobal(n) == \E m \in UsesOf(n) : IsGlobal(Symbol(m))
VoidParameter(d) == \E i \in DOMAIN Nodes[d].params : Nodes[Nodes[d].params[i]].ty = TVoid

CodegenPanicsOnlyWhereKnown ==
  [][stage # "panic" /\ stage' = "panic" =>
       IF gens = <<>> THEN VoidParameter(prog[todo])
       ELSE LET n == Codegen!Top.n IN VoidData(n) \/ StructElements(n) \/ UsesGlobal(n)]_vars

\* What size_of_basic_type says of the elements an array can have.
ElementsHaveASize ==
  [][stage # "panic" /\ stage' = "panic" /\ gens # <<>> => ~StructElements(Codegen!Top.n)]_vars

\* Code generation's `terminated` is the checker's account of which statements always
\* return: the unreachable that closes a function that is not void is never emitted.
OnlyVoidFallsOff ==
  Compiling /\ Codegen!Active({"give"}) /\ Nodes[Codegen!Top.n].k = "Func" =>
    Nodes[Codegen!Top.n].ty = TVoid \/ Codegen!Ended(Codegen!Step.x)

\* The module passes LLVM's verifier, so that "internal codegen error" (cli.rs:139) is
\* never seen: nothing follows a terminator, and no block of a finished function is
\* without one, whatever returns, loops and short circuits it is made of.
OneTerminatorPerBlock == Sema!Accepted => Codegen!OneTerminatorPerBlock

\* Nor does a phi leave out a way into its block, or name a block that its operand only
\* began in.
PhisNameTheirPredecessors == Sema!Accepted => Codegen!PhisNameTheirPredecessors

\* A loop of the program takes no stack of its own at each iteration: every slot is
\* allocated in its function's entry block (codegen/mod.rs:179-195).
AllocasInEntry == Sema!Accepted => Codegen!AllocasInEntry

\* A built program never comes to unreachable code, reads nothing that is not set, and
\* touches no memory that is not there: the bounds checks in front of it, and the
\* checker's types, see to that - but for the two things print is not made for, a default
\* string and an array of bools.
NativeIsWellDefined ==
  stage = "done" =>
    /\ Native!WellDefined /\ Native!ListsWhatIsThere
    /\ ended \in {"unreachable", "fault"} =>
         gaps \cap {"a default string printed", "a bool array printed"} # {}

\* runtime.c:36-38 at its word: "Only handles int[] - the sole array element type any P0
\* benchmark ever prints directly".  Of other elements it prints something else, or
\* reads behind the array.
OnlyIntArraysPrinted == stage = "done" => Native!Lists({"Int"})

\* The top-level variables whose initialisers a built program never runs.
InitialisersOf(p) == {p[i] : i \in {j \in DOMAIN p : Nodes[p[j]].k = "VarDecl" /\ Nodes[p[j]].kids # <<>>}}

\* Both ways of running a program that ends print the same and end the same way, but
\* where it comes by a known gap or has a top-level variable with an initialiser.
Agree == <<printed, ended>> = <<out, status>>
SameBehaviour == status # "run" /\ gaps = {} /\ InitialisersOf(prog) = {} => Agree

\* docs/P0/ANX-Usage-Flow-v1.md at its word: a program that type-checks behaves
\* identically on both paths.
BehavesIdentically == status # "run" => Agree
===============================================================================
