----------------------------- MODULE AnxRunProofs -----------------------------
(***************************************************************************)
(* `anx run` as a whole: a rejected program has run nothing, and what is   *)
(* run is well typed, as AnxSemaProofs proves of the checker alone; so its *)
(* names, its returns, its values and its panics are what AnxInterpSound   *)
(* proves of the interpreter of a well typed program.                      *)
(***************************************************************************)
EXTENDS AnxRun, TLAPS

-----------------------------------------------------------------------------
(***************************************************************************)
(* Nothing runs before the verdict.                                        *)
(***************************************************************************)
\* The interpreter has not begun.
Unstarted == /\ interpVars = <<1, <<>>, envs, <<>>, Interp!Normal, <<>>, "run">>
             /\ Len(envs) = 1 /\ exit \in {Running, 1}

\* The inductive invariant: what RejectedRunsNothing says of the verdict "rejected"
\* holds as long as there is no verdict "accepted".
VerdictInv == ~Sema!Accepted => Unstarted

LEMMA InitVerdict == ASSUME Init PROVE VerdictInv
  BY DEF Init, Interp!Init, VerdictInv, Unstarted, interpVars, Interp!Normal

\* The checker takes no step once it has a verdict.
LEMMA NoStepAfterVerdict == ASSUME Sema!Step PROVE pass # 3
  BY DEF Sema!Step, Sema!CheckChild, Sema!CheckExpr, Sema!DeclareLocalVar, Sema!CheckStmt,
         Sema!HoistFunc, Sema!RequireMain, Sema!CheckDecl, Sema!Conclude, Sema!Walking

LEMMA VerdictStep == ASSUME VerdictInv, [Next]_vars PROVE VerdictInv'
<1>1. CASE Analyze
  <2>1. ~Sema!Accepted /\ UNCHANGED <<interpVars, exit>>
    BY <1>1, NoStepAfterVerdict DEF Analyze, Sema!Accepted
  <2> QED BY <2>1 DEF VerdictInv, Unstarted, interpVars
<1>2. CASE Reject
  <2>1. ~Sema!Accepted /\ UNCHANGED interpVars /\ exit' = 1
    BY <1>2 DEF Reject, Sema!Accepted
  <2> QED BY <2>1 DEF VerdictInv, Unstarted, interpVars
<1>3. CASE Interpret
  BY <1>3 DEF Interpret, VerdictInv, Sema!Accepted, semaVars
<1>4. CASE Leave
  <2>1. Sema!Accepted
    BY <1>4 DEF Leave, VerdictInv, Unstarted, interpVars
  <2> QED BY <1>4, <2>1 DEF Leave, VerdictInv, Sema!Accepted, semaVars
<1>5. CASE UNCHANGED vars
  BY <1>5 DEF vars, semaVars, interpVars, VerdictInv, Unstarted, Sema!Accepted
<1> QED BY <1>1, <1>2, <1>3, <1>4, <1>5 DEF Next, Step

\* A program with a compile-time error has run nothing, whatever it is: cli.rs returns
\* from `frontend` with 1 before it makes an interpreter.
THEOREM CompileErrorRunsNothing == Spec => []RejectedRunsNothing
<1>1. VerdictInv => RejectedRunsNothing
  BY DEF VerdictInv, Unstarted, RejectedRunsNothing, Sema!Accepted
<1> QED BY <1>1, InitVerdict, VerdictStep, PTL DEF Spec

-----------------------------------------------------------------------------
(***************************************************************************)
(* The checker of `anx run` is the checker of AnxSema.                     *)
(*                                                                         *)
(* What AnxSemaProofs proves is proved of its own copy of the checker's    *)
(* definitions, Sound!..., of the same constants and variables as          *)
(* Sema!... .  A name of the one is not a name of the other to the         *)
(* provers: that the two are the same is proved here by expanding both,    *)
(* for the nodes and the assumptions about them, the operators that the    *)
(* steps use, and then the steps.                                          *)
(***************************************************************************)
Sound == INSTANCE AnxSemaProofs

\* The nodes and their shapes.
LEMMA SameTree ==
  /\ Sound!NodeId = NodeId /\ Sound!Node = Node /\ \A n : Sound!Shape(n) = Shape(n)
  /\ Sound!DeclKind = DeclKind /\ Sound!LitKind = LitKind /\ \A s, K : Sound!AllIn(s, K) <=> AllIn(s, K)
  /\ \A n : Sound!Below(n) = Below(n)
<1>1. Sound!NodeId = NodeId
  BY DEF Sound!NodeId, NodeId
<1>2. Sound!DeclKind = DeclKind /\ Sound!LitKind = LitKind /\ Sound!ExprKind = ExprKind /\ Sound!StmtKind = StmtKind
  BY DEF Sound!DeclKind, DeclKind, Sound!LitKind, LitKind, Sound!ExprKind, ExprKind, Sound!StmtKind, StmtKind
<1>3. \A n : Sound!Below(n) = Below(n)
  BY DEF Sound!Below, Below, Sound!NodeId, NodeId
<1>4. \A s, K : Sound!AllIn(s, K) <=> AllIn(s, K)
  BY DEF Sound!AllIn, AllIn
<1>7. Sound!BinOp = BinOp /\ Sound!UnOp = UnOp /\ Sound!IncDecOp = IncDecOp /\ Sound!Arith = Arith /\ Sound!Bitwise = Bitwise
  BY DEF Sound!BinOp, BinOp, Sound!UnOp, UnOp, Sound!IncDecOp, IncDecOp, Sound!Arith, Arith, Sound!Bitwise, Bitwise, Sound!Compare, Compare, Sound!Equality, Equality, Sound!Lazy, Lazy
<1>8. Sound!NodeKind = NodeKind /\ Sound!Type = Type /\ Sound!Scalar = Scalar
  <2>1. Sound!NodeKind = NodeKind
    BY <1>2 DEF Sound!NodeKind, NodeKind
  <2>2. Sound!Type = Type
    BY DEF Sound!Type, Type
  <2>3. Sound!VoidV = VoidV /\ Sound!Int64 = Int64 /\ Sound!Float = Float /\ Sound!Byte = Byte
    BY DEF Sound!VoidV, VoidV, Sound!Int64, Int64, Sound!Float, Float, Sound!Byte, Byte
  <2>4. Sound!Scalar = Scalar
    BY <2>3 DEF Sound!Scalar, Scalar
  <2> QED BY <2>1, <2>2, <2>4
<1>5. \A n : Sound!Shape(n) = Shape(n)
  BY <1>1, <1>2, <1>4, <1>7 DEF Sound!Shape, Shape
<1>6. Sound!Node = Node
  BY <1>1, <1>7, <1>8 DEF Sound!Node, Node
<1> QED BY <1>1, <1>2, <1>3, <1>4, <1>5, <1>6

\* The assumptions.
LEMMA SameAssumptions ==
  /\ Sound!AstAssumption /\ Sound!ProgramAssumption
  /\ Sound!TreeAssumption /\ Sound!LiteralAssumption
<1>1. Sound!AstAssumption
  BY AstAssumption, SameTree
<1>2. Sound!ProgramAssumption
  BY ProgramAssumption, SameTree
<1>3. Sound!TreeAssumption
  BY TreeAssumption, SameTree
<1>4. Sound!LiteralAssumption
  BY LiteralAssumption, SameTree
<1> QED BY <1>1, <1>2, <1>3, <1>4
\* What the steps are about.
LEMMA SameTop ==
  /\ Sema!Top = Sound!Top /\ Sema!Here = Sound!Here /\ Sema!Done = Sound!Done /\ (Sema!Walking <=> Sound!Walking)
  /\ Sema!Scope = Sound!Scope /\ Sema!Decl = Sound!Decl
  BY DEF Sema!Top, Sound!Top, Sema!Here, Sound!Here, Sema!Done, Sound!Done, Sema!Walking, Sound!Walking, Sema!Scope,
         Sound!Scope, Sema!Decl, Sound!Decl

\* What an activation answers, asks and says.
LEMMA SameAnswers ==
  /\ Sema!Report(Sema!Top) = Sound!Report(Sound!Top)
  /\ Sema!TypeFrom(Sema!Top) = Sound!TypeFrom(Sound!Top)
  /\ Sema!Complete(Sema!Top) <=> Sound!Complete(Sound!Top)
  /\ \A i : Sema!Expected(Sema!Top, i) = Sound!Expected(Sound!Top, i)
  /\ Sema!ReturnsOnAllPaths(Sema!Top) <=> Sound!ReturnsOnAllPaths(Sound!Top)
  BY DEF Sema!Top, Sound!Top, Sema!Report, Sound!Report, Sema!Condition, Sound!Condition, Sema!ExprKind,
         Sound!ExprKind, Sema!Complete, Sound!Complete, Sema!TypeFrom, Sound!TypeFrom, Sema!None, Sound!None,
         Sema!Against, Sound!Against, Sema!Said, Sound!Said, Sema!TBool, Sound!TBool, Sema!ReportExpr,
         Sound!ReportExpr, Sema!ReportStmt, Sound!ReportStmt, Sema!GivesUp, Sound!GivesUp, Sema!AnyOf, Sound!AnyOf,
         Sema!BadTarget, Sound!BadTarget, Sema!Resolve, Sound!Resolve, Sema!CombineBinaryTypes,
         Sound!CombineBinaryTypes, Sema!TInt, Sound!TInt, Sema!TFloat, Sound!TFloat, Sema!UnaryAccepts,
         Sound!UnaryAccepts, Sema!TVoid, Sound!TVoid, Sema!CallType, Sound!CallType, Sema!IsArray, Sound!IsArray,
         Sema!ElemOf, Sound!ElemOf, Sema!TStr, Sound!TStr, Sema!ArrayLiteralType, Sound!ArrayLiteralType,
         Sema!ArrayOf, Sound!ArrayOf, Sema!LiteralType, Sound!LiteralType, Sema!Ty, Sound!Ty, Sema!Unknown,
         Sound!Unknown, Sema!CallError, Sound!CallError, Sema!NoRule, Sound!NoRule, Sema!Scope, Sound!Scope,
         Sema!ReturnsOnAllPaths, Sound!ReturnsOnAllPaths, Sema!HasTarget, Sound!HasTarget, Sema!IsLvalue,
         Sound!IsLvalue, Sema!Arith, Sound!Arith, Sema!Bitwise, Sound!Bitwise, Sema!Compare, Sound!Compare,
         Sema!Equality, Sound!Equality, Sema!NoSymbol, Sound!NoSymbol, Sema!NoSig, Sound!NoSig, Sema!Returns,
         Sound!Returns, Sema!Expected, Sound!Expected, Sema!StmtKind, Sound!StmtKind

\* How it is said, and what it leaves behind.
LEMMA SameSayings ==
  /\ \A n, ks : Sema!Log(n, ks) <=> Sound!Log(n, ks)
  /\ \A r : Sema!Popped(r) = Sound!Popped(r)
  /\ \A s, ds : Sema!Declare(s, ds) = Sound!Declare(s, ds)
  /\ \A ss : Sema!Close(ss) = Sound!Close(ss)
  BY DEF Sema!Log, Sound!Log, Sema!Popped, Sound!Popped, Sema!Declare, Sound!Declare, Sema!Close, Sound!Close,
         Sema!Top, Sound!Top

\* The steps, one by one.
LEMMA SameCheckChild == Sema!CheckChild <=> Sound!CheckChild
  BY SameTop, SameAnswers, SameSayings DEF Sema!Opened, Sound!Opened, Sema!IsBody, Sound!IsBody, Sema!Frame,
     Sound!Frame, Sema!CheckChild, Sound!CheckChild, Sema!None, Sound!None, Sema!Ty, Sound!Ty, Sema!NoNames,
     Sound!NoNames, Sema!Unknown, Sound!Unknown, Sema!NoSymbol, Sound!NoSymbol

LEMMA SameCheckExpr == Sema!CheckExpr <=> Sound!CheckExpr
  BY SameTop, SameAnswers, SameSayings DEF Sema!Resolve, Sound!Resolve, Sema!Unknown, Sound!Unknown, Sema!NoSymbol,
     Sound!NoSymbol, Sema!None, Sound!None, Sema!Ty, Sound!Ty, Sema!Against, Sound!Against, Sema!Insert,
     Sound!Insert, Sema!ExprKind, Sound!ExprKind, Sema!CheckExpr, Sound!CheckExpr

LEMMA SameDeclareLocalVar == Sema!DeclareLocalVar <=> Sound!DeclareLocalVar
  BY SameTop, SameAnswers, SameSayings DEF Sema!None, Sound!None, Sema!Ty, Sound!Ty, Sema!DeclareLocalVar,
     Sound!DeclareLocalVar

LEMMA SameCheckStmt == Sema!CheckStmt <=> Sound!CheckStmt
  BY SameTop, SameAnswers, SameSayings DEF Sema!StmtKind, Sound!StmtKind, Sema!Returns, Sound!Returns, Sema!Ty,
     Sound!Ty, Sema!None, Sound!None, Sema!CheckStmt, Sound!CheckStmt

LEMMA SameHoistFunc == Sema!HoistFunc <=> Sound!HoistFunc
  BY SameTop, SameAnswers, SameSayings DEF Sema!Signature, Sound!Signature, Sema!NoSig, Sound!NoSig, Sema!None,
     Sound!None, Sema!Ty, Sound!Ty, Sema!Said, Sound!Said, Sema!HoistFunc, Sound!HoistFunc

LEMMA SameRequireMain == Sema!RequireMain <=> Sound!RequireMain
  BY SameTop, SameAnswers, SameSayings DEF Sema!TVoid, Sound!TVoid, Sema!Ty, Sound!Ty, Sema!Said, Sound!Said,
     Sema!RequireMain, Sound!RequireMain

LEMMA SameCheckDecl == Sema!CheckDecl <=> Sound!CheckDecl
  BY SameTop, SameAnswers, SameSayings DEF Sema!Frame, Sound!Frame, Sema!CheckDecl, Sound!CheckDecl, Sema!None,
     Sound!None, Sema!Ty, Sound!Ty, Sema!NoNames, Sound!NoNames, Sema!Unknown, Sound!Unknown, Sema!NoSymbol,
     Sound!NoSymbol

\* Where they start, and what is proved of them.
LEMMA SameInit == Sema!Init <=> Sound!Init
  BY DEF Sema!Init, Sound!Init, Sema!NoNames, Sound!NoNames, Sema!BuiltinFuncs, Sound!BuiltinFuncs, Sema!Unknown,
         Sound!Unknown, Sema!TStr, Sound!TStr, Sema!TInt, Sound!TInt, Sema!NoSig, Sound!NoSig, Sema!NoSymbol,
         Sound!NoSymbol, Sema!None, Sound!None, Sema!Ty, Sound!Ty

LEMMA SameAccepted == Sema!AcceptedIsWellTyped <=> Sound!AcceptedIsWellTyped
  BY DEF Sema!AcceptedIsWellTyped, Sound!AcceptedIsWellTyped, Sema!Accepted, Sound!Accepted, Sema!WellTyped,
         Sound!WellTyped, Sema!NodesOf, Sound!NodesOf, Sema!Means, Sound!Means, Sema!ScopesOf, Sound!ScopesOf,
         Sema!OneEach, Sound!OneEach, Sema!HasMain, Sound!HasMain, Sema!Returning, Sound!Returning, Sema!Judged,
         Sound!Judged, Sema!Below, Sound!Below, Sema!NoDecl, Sound!NoDecl, Sema!DeclScopes, Sound!DeclScopes,
         Sema!Inside, Sound!Inside, Sema!TVoid, Sound!TVoid, Sema!MustReturn, Sound!MustReturn, Sema!ExprKind,
         Sound!ExprKind, Sema!Type, Sound!Type, Sema!ExprRule, Sound!ExprRule, Sema!StmtRule, Sound!StmtRule,
         Sema!RetOf, Sound!RetOf, Sema!NodeId, Sound!NodeId, Sema!GlobalsAt, Sound!GlobalsAt, Sema!ParamScope,
         Sound!ParamScope, Sema!After, Sound!After, Sema!NewScopes, Sound!NewScopes, Sema!NoDecls, Sound!NoDecls,
         Sema!Ty, Sound!Ty, Sema!LitKind, Sound!LitKind, Sema!LitType, Sound!LitType, Sema!Place, Sound!Place,
         Sema!BinaryRule, Sound!BinaryRule, Sema!Numeric, Sound!Numeric, Sema!UnaryRule, Sound!UnaryRule,
         Sema!TBool, Sound!TBool, Sema!CallRule, Sound!CallRule, Sema!IsArray, Sound!IsArray, Sema!TInt, Sound!TInt,
         Sema!ElemOf, Sound!ElemOf, Sema!TStr, Sound!TStr, Sema!ArrayOf, Sound!ArrayOf, Sema!LastOf, Sound!LastOf,
         Sema!Vars, Sound!Vars, Sema!With, Sound!With, Sema!Scoped, Sound!Scoped, Sema!Arith, Sound!Arith,
         Sema!Bitwise, Sound!Bitwise, Sema!Compare, Sound!Compare, Sema!Equality, Sound!Equality, Sema!Lazy,
         Sound!Lazy, Sema!TFloat, Sound!TFloat, Sema!BuiltinParams, Sound!BuiltinParams, Sema!Takes, Sound!Takes,
         Sema!BuiltinRet, Sound!BuiltinRet, Sema!ParamTypes, Sound!ParamTypes, Sema!Binders, Sound!Binders

\* All the steps.
LEMMA SameNext == Sema!Step <=> Sound!Step
  BY SameCheckChild, SameCheckExpr, SameDeclareLocalVar, SameCheckStmt, SameHoistFunc, SameRequireMain, SameCheckDecl
     DEF Sema!Step, Sound!Step, Sema!Conclude, Sound!Conclude

-----------------------------------------------------------------------------
(***************************************************************************)
(* What runs is well typed.                                                *)
(***************************************************************************)
\* The interpreter leaves the program as it is.
LEMMA SameProgram == ASSUME Interp!Next PROVE prog' = prog
<1>1. \A s : Interp!Halt(s) => prog' = prog
  BY DEF Interp!Halt
<1>2. \A n : Interp!Eval(n) => prog' = prog
  BY DEF Interp!Eval
<1>3. \A v : Interp!Keep(v) \/ Interp!Yield(v) => prog' = prog
  BY DEF Interp!Keep, Interp!Yield
<1>4. \A o : Interp!Finish(o) => prog' = prog
  BY <1>1, <1>3 DEF Interp!Finish
<1>5. \A x, v, r : Interp!SetVar(x, v, r) => prog' = prog
  BY <1>1 DEF Interp!SetVar
<1>6. \A r, i, v, s : Interp!SetCell(r, i, v, s) => prog' = prog
  BY DEF Interp!SetCell
<1>7. \A f, as, st : Interp!CallFunction(f, as, st) => prog' = prog
  BY <1>1 DEF Interp!CallFunction
<1>8. \A n, e : Interp!Exec(n, e) => prog' = prog
  BY DEF Interp!Exec
<1>9. \A n : Interp!ExecScoped(n) => prog' = prog
  BY <1>8 DEF Interp!ExecScoped
<1>10. CASE Interp!EvalExpr
  <2> USE <1>1, <1>2, <1>3 DEF Interp!Branch, Interp!OnCell
  <2>1. Interp!EvalOperand \/ Interp!EvalLiteral \/ Interp!EvalIdent \/ Interp!EvalBinary => prog' = prog
    BY <1>4 DEF Interp!EvalOperand, Interp!EvalLiteral, Interp!EvalIdent, Interp!EvalBinary
  <2>2. Interp!EvalShortCircuit \/ Interp!EvalTernary \/ Interp!EvalUnary => prog' = prog
    BY <1>4 DEF Interp!EvalShortCircuit, Interp!EvalTernary, Interp!EvalUnary
  <2>3. Interp!EvalAssign \/ Interp!LoadSlot \/ Interp!EvalCompoundAssign => prog' = prog
    BY <1>5, <1>6 DEF Interp!EvalAssign, Interp!LoadSlot, Interp!EvalCompoundAssign
  <2>4. Interp!EvalIncDec => prog' = prog
    BY <1>5, <1>6 DEF Interp!EvalIncDec
  <2>5. Interp!EvalIndex \/ Interp!EvalFieldAccess => prog' = prog
    BY <1>4 DEF Interp!EvalIndex, Interp!EvalFieldAccess
  <2>6. Interp!EvalArrayLiteral \/ Interp!EvalArrayCreation => prog' = prog
    BY DEF Interp!EvalArrayLiteral, Interp!EvalArrayCreation
  <2>7. Interp!EvalPrint \/ Interp!EvalBuiltin \/ Interp!EvalCall \/ Interp!EndCall => prog' = prog
    BY <1>4, <1>7 DEF Interp!EvalPrint, Interp!EvalBuiltin, Interp!EvalCall, Interp!EndCall
  <2> QED BY <1>10, <2>1, <2>2, <2>3, <2>4, <2>5, <2>6, <2>7 DEF Interp!EvalExpr
<1>11. CASE Interp!ExecStmt
  <2> USE <1>1, <1>2, <1>3 DEF Interp!Branch, Interp!Again
  <2>1. Interp!ExecExpr \/ Interp!ExecVarDecl \/ Interp!ExecReturn \/ Interp!Unwind => prog' = prog
    BY DEF Interp!ExecExpr, Interp!ExecVarDecl, Interp!ExecReturn, Interp!Unwind
  <2>2. Interp!ExecBlock \/ Interp!ExecIf \/ Interp!ExecWhile \/ Interp!ExecFor => prog' = prog
    BY <1>8, <1>9 DEF Interp!ExecBlock, Interp!ExecIf, Interp!ExecWhile, Interp!ExecFor
  <2> QED BY <1>11, <2>1, <2>2 DEF Interp!ExecStmt
<1>12. CASE Interp!Run
  BY <1>1, <1>7, <1>12 DEF Interp!Run, Interp!RunDecl, Interp!RunMain, Interp!RunEnd
<1>13. CASE Interp!Halted
  BY <1>13 DEF Interp!Halted, Interp!vars
<1> QED BY <1>10, <1>11, <1>12, <1>13 DEF Interp!Next

\* A step of the whole is a step of the checker, or leaves what is the checker's alone.
LEMMA CheckerStep == ASSUME [Next]_vars PROVE [Sound!Next]_Sound!vars
<1>1. CASE Analyze
  BY <1>1, SameNext DEF Analyze, Sound!Next
<1>2. CASE Reject
  BY <1>2 DEF Reject, semaVars, Sound!vars
<1>3. CASE Interpret
  <2>1. prog' = prog
    BY <1>3, SameProgram DEF Interpret
  <2> QED BY <1>3, <2>1 DEF Interpret, semaVars, Sound!vars
<1>4. CASE Leave
  BY <1>4 DEF Leave, semaVars, Sound!vars
<1>5. CASE UNCHANGED vars
  BY <1>5 DEF vars, semaVars, Sound!vars
<1> QED BY <1>1, <1>2, <1>3, <1>4, <1>5 DEF Next, Step

\* What the checker of `anx run` accepts is well typed: the theorem about the checker
\* alone, carried to the process it is a part of.
LEMMA CheckerIsSound == Spec => []Sema!AcceptedIsWellTyped
<1>1. Init => Sound!Init
  BY SameInit DEF Init
<1>2. [Next]_vars => [Sound!Next]_Sound!vars
  BY CheckerStep
<1>3. Sound!Spec => []Sound!AcceptedIsWellTyped
  BY Sound!AcceptedPrograms, SameAssumptions, IntAssumption
<1>4. Sound!AcceptedIsWellTyped => Sema!AcceptedIsWellTyped
  BY SameAccepted
<1> QED BY <1>1, <1>2, <1>3, <1>4, PTL DEF Spec, Sound!Spec

\* Whatever the interpreter has begun to run is well typed, by the types that the
\* checker gave: the premise of every panic "sema guarantees ..." in interp/mod.rs, for
\* every program and at every point of the run.
THEOREM OnlyWellTypedRuns == Spec => [](~Unstarted => Sema!WellTyped(types, prog))
<1>1. VerdictInv /\ Sema!AcceptedIsWellTyped => (~Unstarted => Sema!WellTyped(types, prog))
  BY DEF VerdictInv, Sema!AcceptedIsWellTyped
<1> QED BY <1>1, InitVerdict, VerdictStep, CheckerIsSound, PTL DEF Spec

-----------------------------------------------------------------------------
(***************************************************************************)
(* The interpreter of `anx run` is the interpreter of AnxInterp: the same, *)
(* of what AnxInterpSound proves of Exec!... and the steps Interp!... .    *)
(***************************************************************************)
Exec == INSTANCE AnxInterpSound

\* The nodes and the assumptions.
LEMMA SameExecTree ==
  /\ Exec!NodeId = NodeId /\ Exec!Node = Node /\ \A n : Exec!Shape(n) = Shape(n)
  /\ Exec!DeclKind = DeclKind /\ Exec!LitKind = LitKind /\ \A s, K : Exec!AllIn(s, K) <=> AllIn(s, K)
  /\ \A n : Exec!Below(n) = Below(n)
<1>1. Exec!NodeId = NodeId
  BY DEF Exec!NodeId, NodeId
<1>2. Exec!DeclKind = DeclKind /\ Exec!LitKind = LitKind /\ Exec!ExprKind = ExprKind /\ Exec!StmtKind = StmtKind
  BY DEF Exec!DeclKind, DeclKind, Exec!LitKind, LitKind, Exec!ExprKind, ExprKind, Exec!StmtKind, StmtKind
<1>3. \A n : Exec!Below(n) = Below(n)
  BY DEF Exec!Below, Below, Exec!NodeId, NodeId
<1>4. \A s, K : Exec!AllIn(s, K) <=> AllIn(s, K)
  BY DEF Exec!AllIn, AllIn
<1>7. Exec!BinOp = BinOp /\ Exec!UnOp = UnOp /\ Exec!IncDecOp = IncDecOp /\ Exec!Arith = Arith /\ Exec!Bitwise = Bitwise
  BY DEF Exec!BinOp, BinOp, Exec!UnOp, UnOp, Exec!IncDecOp, IncDecOp, Exec!Arith, Arith, Exec!Bitwise, Bitwise, Exec!Compare, Compare, Exec!Equality, Equality, Exec!Lazy, Lazy
<1>8. Exec!NodeKind = NodeKind /\ Exec!Type = Type /\ Exec!Scalar = Scalar
  <2>1. Exec!NodeKind = NodeKind
    BY <1>2 DEF Exec!NodeKind, NodeKind
  <2>2. Exec!Type = Type
    BY DEF Exec!Type, Type
  <2>3. Exec!VoidV = VoidV /\ Exec!Int64 = Int64 /\ Exec!Float = Float /\ Exec!Byte = Byte
    BY DEF Exec!VoidV, VoidV, Exec!Int64, Int64, Exec!Float, Float, Exec!Byte, Byte
  <2>4. Exec!Scalar = Scalar
    BY <2>3 DEF Exec!Scalar, Scalar
  <2> QED BY <2>1, <2>2, <2>4
<1>5. \A n : Exec!Shape(n) = Shape(n)
  BY <1>1, <1>2, <1>4, <1>7 DEF Exec!Shape, Shape
<1>6. Exec!Node = Node
  BY <1>1, <1>7, <1>8 DEF Exec!Node, Node
<1> QED BY <1>1, <1>2, <1>3, <1>4, <1>5, <1>6

LEMMA SameExecAssumptions ==
  /\ Exec!AstAssumption /\ Exec!ProgramAssumption
  /\ Exec!TreeAssumption /\ Exec!LiteralAssumption
<1>1. Exec!AstAssumption
  BY AstAssumption, SameExecTree
<1>2. Exec!ProgramAssumption
  BY ProgramAssumption, SameExecTree
<1>3. Exec!TreeAssumption
  BY TreeAssumption, SameExecTree
<1>4. Exec!LiteralAssumption
  BY LiteralAssumption, SameExecTree
<1> QED BY <1>1, <1>2, <1>3, <1>4

LEMMA SameWidth == Exec!WidthAssumption /\ Exec!IntAssumption
  BY WidthAssumption, IntAssumption

\* What it is to be well typed.
LEMMA SameScopes ==
  \A p : Sema!ScopesOf(p) = Exec!ScopesOf(p)
  BY DEF Sema!ScopesOf, Exec!ScopesOf, Sema!NodesOf, Exec!NodesOf, Sema!DeclScopes, Exec!DeclScopes,
       Sema!Inside, Exec!Inside, Sema!Below, Exec!Below, Sema!GlobalsAt, Exec!GlobalsAt, Sema!ParamScope,
       Exec!ParamScope, Sema!After, Exec!After, Sema!NewScopes, Exec!NewScopes, Sema!NoDecls, Exec!NoDecls,
       Sema!NodeId, Exec!NodeId, Sema!LastOf, Exec!LastOf, Sema!Vars, Exec!Vars, Sema!With, Exec!With,
       Sema!Scoped, Exec!Scoped, Sema!NoDecl, Exec!NoDecl, Sema!Binders, Exec!Binders

LEMMA SameMeaning ==
  \A ss, x : Sema!Means(ss, x) = Exec!Means(ss, x)
  BY DEF Sema!Means, Exec!Means, Sema!NoDecl, Exec!NoDecl

LEMMA SameNodesOf ==
  \A p : Sema!NodesOf(p) = Exec!NodesOf(p)
  BY DEF Sema!NodesOf, Exec!NodesOf, Sema!Below, Exec!Below, Sema!NodeId, Exec!NodeId

LEMMA SameMustReturn ==
  \A n : Sema!MustReturn(n) <=> Exec!MustReturn(n)
  BY DEF Sema!MustReturn, Exec!MustReturn, Sema!NodeId, Exec!NodeId

LEMMA SameRetOf ==
  \A p, n : Sema!RetOf(p, n) = Exec!RetOf(p, n)
  BY DEF Sema!RetOf, Exec!RetOf, Sema!Below, Exec!Below, Sema!NodeId, Exec!NodeId

LEMMA SameWords ==
  /\ Sema!TInt = Exec!TInt
  /\ Sema!TFloat = Exec!TFloat
  /\ Sema!TBool = Exec!TBool
  /\ Sema!TStr = Exec!TStr
  /\ Sema!TVoid = Exec!TVoid
  /\ Sema!Numeric = Exec!Numeric
  /\ Sema!Arith = Exec!Arith
  /\ Sema!Bitwise = Exec!Bitwise
  /\ Sema!Compare = Exec!Compare
  /\ Sema!Equality = Exec!Equality
  /\ Sema!Lazy = Exec!Lazy
  /\ Sema!LitKind = Exec!LitKind
  /\ Sema!ExprKind = Exec!ExprKind
  /\ Sema!BuiltinParams = Exec!BuiltinParams
  /\ Sema!Type = Exec!Type
  /\ \A t : (Sema!IsArray(t) <=> Exec!IsArray(t)) /\ Sema!ElemOf(t) = Exec!ElemOf(t) /\ Sema!ArrayOf(t) = Exec!ArrayOf(t)
  /\ \A k : Sema!LitType(k) = Exec!LitType(k)
  BY DEF Sema!TInt, Exec!TInt, Sema!TFloat, Exec!TFloat, Sema!TBool, Exec!TBool, Sema!TStr, Exec!TStr,
       Sema!TVoid, Exec!TVoid, Sema!Numeric, Exec!Numeric, Sema!Arith, Exec!Arith, Sema!Bitwise, Exec!Bitwise,
       Sema!Compare, Exec!Compare, Sema!Equality, Exec!Equality, Sema!Lazy, Exec!Lazy, Sema!LitKind,
       Exec!LitKind, Sema!ExprKind, Exec!ExprKind, Sema!BuiltinParams, Exec!BuiltinParams, Sema!Type, Exec!Type,
       Sema!IsArray, Exec!IsArray, Sema!ElemOf, Exec!ElemOf, Sema!ArrayOf, Exec!ArrayOf, Sema!LitType,
       Exec!LitType, Sema!Ty, Exec!Ty

LEMMA SameCallRule ==
  \A ty, p, nd, t : Sema!CallRule(ty, p, nd, t) <=> Exec!CallRule(ty, p, nd, t)
  BY SameWords DEF Sema!CallRule, Exec!CallRule, Sema!Takes, Exec!Takes, Sema!BuiltinRet, Exec!BuiltinRet,
       Sema!ParamTypes, Exec!ParamTypes

LEMMA SameBinaryRule ==
  \A op, o, t : Sema!BinaryRule(op, o, t) <=> Exec!BinaryRule(op, o, t)

  BY SameWords DEF Sema!BinaryRule, Exec!BinaryRule

LEMMA SameUnaryRule ==
  \A op, t : Sema!UnaryRule(op, t) <=> Exec!UnaryRule(op, t)

  BY SameWords DEF Sema!UnaryRule, Exec!UnaryRule

LEMMA SameExprRule == \A ty, p, ss, n : Sema!ExprRule(ty, p, ss, n) <=> Exec!ExprRule(ty, p, ss, n)
<1>1. ASSUME NEW ty, NEW p, NEW ss, NEW n PROVE Sema!ExprRule(ty, p, ss, n) <=> Exec!ExprRule(ty, p, ss, n)
  BY SameWords, SameMeaning, SameCallRule, SameBinaryRule, SameUnaryRule DEF Sema!ExprRule, Exec!ExprRule, Sema!NoDecl, Exec!NoDecl, Sema!Place, Exec!Place
<1> QED
  BY <1>1

LEMMA SameTypes == \A ty, p : Sema!WellTyped(ty, p) <=> Exec!WellTyped(ty, p)
<1>1. \A ty, r, n : Sema!StmtRule(ty, r, n) <=> Exec!StmtRule(ty, r, n)
  BY SameWords DEF Sema!StmtRule, Exec!StmtRule
<1>2. \A ty, p, n : Sema!Judged(ty, p, n) <=> Exec!Judged(ty, p, n)
  BY <1>1, SameWords, SameExprRule, SameScopes, SameRetOf DEF Sema!Judged, Exec!Judged
<1>3. \A p : Sema!HasMain(p) <=> Exec!HasMain(p)
  BY SameWords DEF Sema!HasMain, Exec!HasMain
<1>4. \A p : Sema!Returning(p) <=> Exec!Returning(p)
  BY SameWords, SameMustReturn DEF Sema!Returning, Exec!Returning
<1>5. \A p, k : Sema!OneEach(p, k) <=> Exec!OneEach(p, k)
  BY DEF Sema!OneEach, Exec!OneEach
<1> QED
  BY <1>2, <1>3, <1>4, <1>5, SameNodesOf DEF Sema!WellTyped, Exec!WellTyped

\* The operations on values.
LEMMA SameArithmetic ==
  /\ \A x : Interp!Wrap(x) = Exec!Wrap(x)
  /\ \A x : Interp!Checked(x) = Exec!Checked(x)
  /\ \A a, b : Interp!Quotient(a, b) = Exec!Quotient(a, b)
  /\ \A a, b : Interp!Remainder(a, b) = Exec!Remainder(a, b)
  BY DEF Interp!Wrap, Exec!Wrap, Interp!Checked, Exec!Checked, Interp!Quotient, Exec!Quotient, Interp!Remainder,
       Exec!Remainder, Interp!Int64, Exec!Int64, Interp!IntV, Exec!IntV, Interp!Fail, Exec!Fail, Interp!Abs,
       Exec!Abs

LEMMA SameIntArith ==
  /\ \A op, a, b : Interp!IntArith(op, a, b) = Exec!IntArith(op, a, b)
  BY SameArithmetic DEF Interp!IntArith, Exec!IntArith, Interp!Divide, Exec!Divide, Interp!Fail, Exec!Fail, Interp!IntV,
       Exec!IntV

LEMMA SameBits ==
  /\ \A bs : Interp!IntOf(bs) = Exec!IntOf(bs)
  /\ \A a : Interp!Bits(a) = Exec!Bits(a)
  /\ Interp!BitPos = Exec!BitPos
  BY DEF Interp!IntOf, Exec!IntOf, Interp!Bits, Exec!Bits, Interp!BitPos, Exec!BitPos, Interp!Int64, Exec!Int64

LEMMA SameBitOp ==
  \A op, a, b : Interp!BitOp(op, a, b) = Exec!BitOp(op, a, b)
<1>1. \A x : Interp!IntV(x) = Exec!IntV(x) /\ Interp!ShiftAmount(x) = Exec!ShiftAmount(x)
  BY DEF Interp!IntV, Exec!IntV, Interp!ShiftAmount, Exec!ShiftAmount
<1>2. \A a, s : Interp!SignFill(a, s) = Exec!SignFill(a, s)
  BY SameBits DEF Interp!SignFill, Exec!SignFill
<1>3. ASSUME NEW op, NEW a, NEW b PROVE Interp!BitOp(op, a, b) = Exec!BitOp(op, a, b)
  <2>1. PICK s : s = Interp!ShiftAmount(b)
    OBVIOUS
  <2>2. PICK p : p = Interp!BitPos
    OBVIOUS
  <2>3. PICK bs : bs = Interp!Bits(a)
    OBVIOUS
  <2>4. s = Exec!ShiftAmount(b) /\ p = Exec!BitPos /\ bs = Exec!Bits(a)
    BY <1>1, <2>1, <2>2, <2>3, SameBits
  <2> QED
    BY <1>1, <1>2, <2>1, <2>2, <2>3, <2>4, SameBits, Zenon DEF Interp!BitOp, Exec!BitOp
<1> QED
  BY <1>3

LEMMA SameFloats ==
  /\ \A x, y : Interp!FloatAdd(x, y) = Exec!FloatAdd(x, y)
  /\ \A x, y : Interp!FloatMul(x, y) = Exec!FloatMul(x, y)
  /\ \A x, y : Interp!FloatDiv(x, y) = Exec!FloatDiv(x, y)
  /\ \A x : Interp!FloatNeg(x) = Exec!FloatNeg(x)
  BY SameArithmetic DEF Interp!FloatAdd, Exec!FloatAdd, Interp!FloatMul, Exec!FloatMul, Interp!FloatDiv, Exec!FloatDiv,
       Interp!FloatNeg, Exec!FloatNeg, Interp!Finite, Exec!Finite, Interp!Saturate, Exec!Saturate,
       Interp!Infinity, Exec!Infinity, Interp!Sign, Exec!Sign

LEMMA SameFloatArith ==
  /\ \A op, x, y : Interp!FloatArith(op, x, y) = Exec!FloatArith(op, x, y)
  BY SameFloats DEF Interp!FloatArith, Exec!FloatArith, Interp!FloatV, Exec!FloatV

LEMMA SameEquality ==
  /\ \A h, l, r : Interp!ValuesEqual(h, l, r) = Exec!ValuesEqual(h, l, r)
  BY DEF Interp!ValuesEqual, Exec!ValuesEqual, Interp!Both, Exec!Both, Interp!SameScalar, Exec!SameScalar,
       Interp!FloatEqual, Exec!FloatEqual

LEMMA SameCompare ==
  /\ \A op, l, r : Interp!CmpHolds(op, Interp!NumericCmp(l, r)) = Exec!CmpHolds(op, Exec!NumericCmp(l, r))
  BY DEF Interp!CmpHolds, Exec!CmpHolds, Interp!NumericCmp, Exec!NumericCmp, Interp!FloatLess, Exec!FloatLess,
       Interp!Finite, Exec!Finite

LEMMA SameBinaryOp ==
  \A h, op, l, r : Interp!ApplyBinaryOp(h, op, l, r) = Exec!ApplyBinaryOp(h, op, l, r)
<1>1. /\ \A x : Interp!BoolV(x) = Exec!BoolV(x) /\ Interp!StrV(x) = Exec!StrV(x)
      /\ Interp!Panic = Exec!Panic
      /\ \A k, l, r : Interp!Both(k, l, r) <=> Exec!Both(k, l, r)
  BY DEF Interp!BoolV, Exec!BoolV, Interp!StrV, Exec!StrV, Interp!Fail, Exec!Fail, Interp!Panic, Exec!Panic,
         Interp!Both, Exec!Both
<1>2. /\ Interp!Equality = Exec!Equality /\ Interp!Arith = Exec!Arith /\ Interp!Bitwise = Exec!Bitwise
      /\ Interp!Compare = Exec!Compare
  BY DEF Interp!Equality, Exec!Equality, Interp!Arith, Exec!Arith, Interp!Bitwise, Exec!Bitwise, Interp!Compare,
         Exec!Compare
<1>3. \A op, l, r : Interp!CmpHolds(op, Interp!NumericCmp(l, r)) <=> Exec!CmpHolds(op, Exec!NumericCmp(l, r))
  BY SameCompare
<1>4. ASSUME NEW h, NEW op, NEW l, NEW r PROVE Interp!ApplyBinaryOp(h, op, l, r) = Exec!ApplyBinaryOp(h, op, l, r)
  BY <1>1, <1>2, <1>3, SameIntArith, SameBitOp, SameFloatArith, SameEquality, SameCompare DEF Interp!ApplyBinaryOp, Exec!ApplyBinaryOp
<1> QED
  BY <1>4

LEMMA SameUnary ==
  /\ \A op, v : Interp!ApplyUnary(op, v) = Exec!ApplyUnary(op, v)
  BY SameArithmetic, SameBits, SameFloats DEF Interp!ApplyUnary, Exec!ApplyUnary, Interp!FloatV, Exec!FloatV, Interp!BoolV,
       Exec!BoolV, Interp!IntV, Exec!IntV, Interp!Panic, Exec!Panic, Interp!Fail, Exec!Fail

LEMMA SameIncDec ==
  /\ \A op, v : Interp!ApplyIncDec(op, v) = Exec!ApplyIncDec(op, v)
  BY SameIntArith, SameFloatArith DEF Interp!ApplyIncDec, Exec!ApplyIncDec, Interp!One, Exec!One, Interp!Panic, Exec!Panic,
       Interp!Fail, Exec!Fail

LEMMA SameBuiltins ==
  /\ \A f, as : Interp!ApplyBuiltin(f, as) = Exec!ApplyBuiltin(f, as)
  /\ \A as : Interp!StringLength(as) = Exec!StringLength(as)
<1>1. /\ \A x : Interp!IntV(x) = Exec!IntV(x) /\ Interp!StrV(x) = Exec!StrV(x)
      /\ \A e : Interp!Fail(e) = Exec!Fail(e)
      /\ Interp!Panic = Exec!Panic /\ Interp!Replacement = Exec!Replacement
      /\ \A b : Interp!Latin1(b) = Exec!Latin1(b)
  BY DEF Interp!IntV, Exec!IntV, Interp!StrV, Exec!StrV, Interp!Fail, Exec!Fail, Interp!Panic, Exec!Panic,
         Interp!Replacement, Exec!Replacement, Interp!Latin1, Exec!Latin1
<1>2. \A as : Interp!StringLength(as) = Exec!StringLength(as)
  BY <1>1, SameArithmetic DEF Interp!StringLength, Exec!StringLength
<1>3. \A as : Interp!CharAt(as) = Exec!CharAt(as)
  BY <1>1 DEF Interp!CharAt, Exec!CharAt
<1>4. \A s : Interp!Head8(s) = Exec!Head8(s)
  BY <1>1 DEF Interp!Head8, Exec!Head8
<1>5. \A s : Interp!FromUtf8Lossy(s) = Exec!FromUtf8Lossy(s)
  BY <1>1, <1>4 DEF Interp!FromUtf8Lossy, Exec!FromUtf8Lossy
<1>6. \A as : Interp!Substring(as) = Exec!Substring(as)
  BY <1>1, <1>5 DEF Interp!Substring, Exec!Substring
<1> QED
  BY <1>1, <1>2, <1>3, <1>6 DEF Interp!ApplyBuiltin, Exec!ApplyBuiltin, Interp!Arity, Exec!Arity

LEMMA SameFormat ==
  /\ \A v : Interp!Format(v) = Exec!Format(v)
  BY DEF Interp!Format, Exec!Format, Interp!ArrayText, Exec!ArrayText, Interp!StrV, Exec!StrV

\* The activations and environments, and how a step leaves them.
LEMMA SameMachine ==
  /\ Interp!Top = Exec!Top
  /\ Interp!Here = Exec!Here
  /\ Interp!Done = Exec!Done
  /\ (Interp!Running <=> Exec!Running)
  /\ \A k : (Interp!At(k) <=> Exec!At(k))
  /\ \A nd : Interp!Operands(nd) = Exec!Operands(nd)
  /\ \A nd : (Interp!Strict(nd) <=> Exec!Strict(nd))
  /\ \A k : (Interp!Ready(k) <=> Exec!Ready(k))
  /\ \A nd : Interp!TargetKind(nd) = Exec!TargetKind(nd)
  /\ \A e, x : Interp!Owner(e, x) = Exec!Owner(e, x)
  /\ \A v : Interp!Popped(v) = Exec!Popped(v)
  /\ \A vs : Interp!SetTop(vs) = Exec!SetTop(vs)
  /\ \A n, e : Interp!Push(n, e) = Exec!Push(n, e)
  /\ \A es, e : Interp!Child(es, e) = Exec!Child(es, e)
  BY DEF Interp!Top, Exec!Top, Interp!Here, Exec!Here, Interp!Done, Exec!Done, Interp!Running, Exec!Running,
       Interp!At, Exec!At, Interp!Operands, Exec!Operands, Interp!Strict, Exec!Strict, Interp!Ready, Exec!Ready,
       Interp!TargetKind, Exec!TargetKind, Interp!Owner, Exec!Owner, Interp!Popped, Exec!Popped, Interp!SetTop,
       Exec!SetTop, Interp!Push, Exec!Push, Interp!Child, Exec!Child, Interp!Normal, Exec!Normal,
       Interp!TargetKids, Exec!TargetKids, Interp!SlotThenValue, Exec!SlotThenValue, Interp!ExprKind,
       Exec!ExprKind, Interp!IsLazy, Exec!IsLazy, Interp!vars, Exec!vars, Interp!Frame, Exec!Frame,
       Interp!Empty, Exec!Empty, Interp!VoidV, Exec!VoidV, Interp!Slot, Exec!Slot, Interp!Lazy, Exec!Lazy,
       Interp!Unbound, Exec!Unbound

LEMMA SameMoves ==
  /\ \A s : (Interp!Halt(s) <=> Exec!Halt(s))
  /\ \A n : (Interp!Eval(n) <=> Exec!Eval(n))
  /\ \A v : (Interp!Keep(v) <=> Exec!Keep(v))
  /\ \A v : (Interp!Yield(v) <=> Exec!Yield(v))
  /\ \A o : (Interp!Finish(o) <=> Exec!Finish(o))
  /\ \A x, v, r : (Interp!SetVar(x, v, r) <=> Exec!SetVar(x, v, r))
  /\ \A i, r : (Interp!InBounds(i, r) <=> Exec!InBounds(i, r))
  /\ \A r, i, v, s : (Interp!SetCell(r, i, v, s) <=> Exec!SetCell(r, i, v, s))
  /\ \A vs : (Interp!Again(vs) <=> Exec!Again(vs))
  BY SameMachine DEF Interp!Halt, Exec!Halt, Interp!Eval, Exec!Eval, Interp!Keep, Exec!Keep, Interp!Yield,
       Exec!Yield, Interp!Finish, Exec!Finish, Interp!SetVar, Exec!SetVar, Interp!InBounds, Exec!InBounds,
       Interp!SetCell, Exec!SetCell, Interp!Again, Exec!Again, Interp!vars, Exec!vars

LEMMA SameCalls ==
  /\ \A f : Interp!Functions(f) = Exec!Functions(f)
  /\ \A ps, as : Interp!Bind(ps, as) = Exec!Bind(ps, as)
  /\ \A f, as, st : Interp!CallFunction(f, as, st) <=> Exec!CallFunction(f, as, st)
<1>1. \A f : Interp!Functions(f) = Exec!Functions(f)
  BY DEF Interp!Functions, Exec!Functions
<1>2. \A ps, as, x : Interp!ArgOf(ps, as, x) = Exec!ArgOf(ps, as, x)
  BY DEF Interp!ArgOf, Exec!ArgOf
<1>3. Interp!Unbound = Exec!Unbound /\ Interp!CalleeParent = Exec!CalleeParent
  BY DEF Interp!Unbound, Exec!Unbound, Interp!VoidV, Exec!VoidV, Interp!CalleeParent, Exec!CalleeParent,
         Interp!Globals, Exec!Globals
<1>4. \A ps, as : Interp!Bind(ps, as) = Exec!Bind(ps, as)
  BY <1>2, <1>3 DEF Interp!Bind, Exec!Bind
<1>5. \A n, e : Interp!Frame(n, e) = Exec!Frame(n, e)
  BY DEF Interp!Frame, Exec!Frame
<1>6. ASSUME NEW f, NEW as, NEW st PROVE Interp!CallFunction(f, as, st) <=> Exec!CallFunction(f, as, st)
  BY <1>1, <1>3, <1>4, <1>5, SameMachine, SameMoves DEF Interp!CallFunction, Exec!CallFunction
<1> QED
  BY <1>1, <1>4, <1>6

LEMMA SameExec ==
  /\ \A n, e : (Interp!Exec(n, e) <=> Exec!Exec(n, e))
  /\ \A n : (Interp!ExecScoped(n) <=> Exec!ExecScoped(n))
  BY SameMachine DEF Interp!Exec, Exec!Exec, Interp!ExecScoped, Exec!ExecScoped

LEMMA SameDefaults ==
  /\ \A t : Interp!NewCells(t) = Exec!NewCells(t)
  /\ \A t : Interp!Default(t) = Exec!Default(t)
  /\ \A e, n, v : Interp!Define(e, n, v) = Exec!Define(e, n, v)
  BY DEF Interp!NewCells, Exec!NewCells, Interp!Default, Exec!Default, Interp!Define, Exec!Define,
       Interp!IsArray, Exec!IsArray, Interp!ArrV, Exec!ArrV, Interp!IntV, Exec!IntV, Interp!FloatV, Exec!FloatV,
       Interp!BoolV, Exec!BoolV, Interp!StrV, Exec!StrV, Interp!VoidV, Exec!VoidV, Interp!vars, Exec!vars

\* The steps, one by one.
LEMMA SameEvalOperand ==
  Interp!EvalOperand <=> Exec!EvalOperand
  BY SameMachine, SameMoves DEF Interp!EvalOperand, Exec!EvalOperand, Interp!Slot, Exec!Slot

LEMMA SameEvalLiteral ==
  Interp!EvalLiteral <=> Exec!EvalLiteral
  BY SameMachine, SameMoves DEF Interp!EvalLiteral, Exec!EvalLiteral

LEMMA SameEvalIdent ==
  Interp!EvalIdent <=> Exec!EvalIdent
  BY SameMachine, SameMoves DEF Interp!EvalIdent, Exec!EvalIdent, Interp!vars, Exec!vars

LEMMA SameEvalBinary ==
  Interp!EvalBinary <=> Exec!EvalBinary
  BY SameBinaryOp, SameMachine, SameMoves DEF Interp!EvalBinary, Exec!EvalBinary

LEMMA SameEvalShortCircuit ==
  Interp!EvalShortCircuit <=> Exec!EvalShortCircuit
  BY SameMachine, SameMoves DEF Interp!EvalShortCircuit, Exec!EvalShortCircuit, Interp!Lazy, Exec!Lazy,
       Interp!Branch, Exec!Branch, Interp!BoolV, Exec!BoolV

LEMMA SameEvalTernary ==
  Interp!EvalTernary <=> Exec!EvalTernary
  BY SameMachine, SameMoves DEF Interp!EvalTernary, Exec!EvalTernary, Interp!Branch, Exec!Branch

LEMMA SameEvalUnary ==
  Interp!EvalUnary <=> Exec!EvalUnary
  BY SameUnary, SameMachine, SameMoves DEF Interp!EvalUnary, Exec!EvalUnary

LEMMA SameEvalAssign ==
  Interp!EvalAssign <=> Exec!EvalAssign
  BY SameMachine, SameMoves DEF Interp!EvalAssign, Exec!EvalAssign, Interp!OnCell, Exec!OnCell

LEMMA SameLoadSlot ==
  Interp!LoadSlot <=> Exec!LoadSlot
  BY SameMachine, SameMoves DEF Interp!LoadSlot, Exec!LoadSlot, Interp!Slot, Exec!Slot, Interp!vars, Exec!vars,
       Interp!OnCell, Exec!OnCell

LEMMA SameEvalCompoundAssign ==
  Interp!EvalCompoundAssign <=> Exec!EvalCompoundAssign
  BY SameBinaryOp, SameMachine, SameMoves DEF Interp!EvalCompoundAssign, Exec!EvalCompoundAssign

LEMMA SameEvalIncDec ==
  Interp!EvalIncDec <=> Exec!EvalIncDec
  BY SameIncDec, SameMachine, SameMoves DEF Interp!EvalIncDec, Exec!EvalIncDec, Interp!vars, Exec!vars,
       Interp!IncDecResult, Exec!IncDecResult, Interp!OnCell, Exec!OnCell

LEMMA SameEvalIndex ==
  Interp!EvalIndex <=> Exec!EvalIndex
  BY SameMachine, SameMoves DEF Interp!EvalIndex, Exec!EvalIndex, Interp!OnCell, Exec!OnCell

LEMMA SameEvalFieldAccess ==
  Interp!EvalFieldAccess <=> Exec!EvalFieldAccess
  BY SameArithmetic, SameBuiltins, SameMachine, SameMoves DEF Interp!EvalFieldAccess, Exec!EvalFieldAccess, Interp!Panic,
       Exec!Panic, Interp!IntV, Exec!IntV, Interp!Fail, Exec!Fail

LEMMA SameEvalArrayLiteral ==
  Interp!EvalArrayLiteral <=> Exec!EvalArrayLiteral
  BY SameMachine DEF Interp!EvalArrayLiteral, Exec!EvalArrayLiteral, Interp!ArrV, Exec!ArrV

LEMMA SameEvalArrayCreation ==
  Interp!EvalArrayCreation <=> Exec!EvalArrayCreation
  BY SameDefaults, SameMachine, SameMoves DEF Interp!EvalArrayCreation, Exec!EvalArrayCreation, Interp!ArrV,
       Exec!ArrV

LEMMA SameEvalPrint ==
  Interp!EvalPrint <=> Exec!EvalPrint
  BY SameFormat, SameMachine, SameMoves DEF Interp!EvalPrint, Exec!EvalPrint, Interp!VoidV, Exec!VoidV

LEMMA SameEvalBuiltin ==
  Interp!EvalBuiltin <=> Exec!EvalBuiltin
  BY SameBuiltins, SameMachine, SameMoves DEF Interp!EvalBuiltin, Exec!EvalBuiltin, Interp!Builtin, Exec!Builtin

LEMMA SameEvalCall ==
  Interp!EvalCall <=> Exec!EvalCall
  BY SameCalls, SameMachine DEF Interp!EvalCall, Exec!EvalCall, Interp!Builtin, Exec!Builtin

LEMMA SameEndCall ==
  Interp!EndCall <=> Exec!EndCall
  BY SameMachine, SameMoves DEF Interp!EndCall, Exec!EndCall

LEMMA SameExecExpr ==
  Interp!ExecExpr <=> Exec!ExecExpr
  BY SameMachine, SameMoves DEF Interp!ExecExpr, Exec!ExecExpr, Interp!VoidV, Exec!VoidV

LEMMA SameExecVarDecl ==
  Interp!ExecVarDecl <=> Exec!ExecVarDecl
  BY SameDefaults, SameMachine DEF Interp!ExecVarDecl, Exec!ExecVarDecl, Interp!VoidV, Exec!VoidV

LEMMA SameExecBlock ==
  Interp!ExecBlock <=> Exec!ExecBlock
  BY SameExec, SameMachine, SameMoves DEF Interp!ExecBlock, Exec!ExecBlock, Interp!VoidV, Exec!VoidV

LEMMA SameExecIf ==
  Interp!ExecIf <=> Exec!ExecIf
  BY SameExec, SameMachine, SameMoves DEF Interp!ExecIf, Exec!ExecIf, Interp!Branch, Exec!Branch, Interp!VoidV,
       Exec!VoidV

LEMMA SameExecWhile ==
  Interp!ExecWhile <=> Exec!ExecWhile
  BY SameExec, SameMachine, SameMoves DEF Interp!ExecWhile, Exec!ExecWhile, Interp!Branch, Exec!Branch,
       Interp!VoidV, Exec!VoidV

LEMMA SameExecFor ==
  Interp!ExecFor <=> Exec!ExecFor
  BY SameExec, SameMachine, SameMoves DEF Interp!ExecFor, Exec!ExecFor, Interp!Branch, Exec!Branch,
       Interp!VoidV, Exec!VoidV

LEMMA SameExecReturn ==
  Interp!ExecReturn <=> Exec!ExecReturn
  BY SameMachine DEF Interp!ExecReturn, Exec!ExecReturn, Interp!Return, Exec!Return, Interp!VoidV, Exec!VoidV

LEMMA SameUnwind ==
  Interp!Unwind <=> Exec!Unwind
  BY SameMachine DEF Interp!Unwind, Exec!Unwind, Interp!Normal, Exec!Normal, Interp!VoidV, Exec!VoidV

LEMMA SameRunDecl ==
  Interp!RunDecl <=> Exec!RunDecl
  BY DEF Interp!RunDecl, Exec!RunDecl, Interp!AtRun, Exec!AtRun, Interp!Frame, Exec!Frame, Interp!Globals,
       Exec!Globals

LEMMA SameRunMain ==
  Interp!RunMain <=> Exec!RunMain
  BY SameCalls, SameMoves DEF Interp!RunMain, Exec!RunMain, Interp!AtRun, Exec!AtRun

LEMMA SameRunEnd ==
  Interp!RunEnd <=> Exec!RunEnd
  BY SameMoves DEF Interp!RunEnd, Exec!RunEnd, Interp!AtRun, Exec!AtRun

\* Where it starts, and all the steps.
LEMMA SameExecInit ==
  /\ (Interp!Init <=> Exec!Init)
  BY DEF Interp!Init, Exec!Init, Interp!vars, Exec!vars, Interp!Empty, Exec!Empty, Interp!Globals, Exec!Globals,
       Interp!Normal, Exec!Normal, Interp!Unbound, Exec!Unbound, Interp!VoidV, Exec!VoidV

LEMMA SameExecNext ==
  Interp!Next <=> Exec!Next
  BY SameEvalOperand, SameEvalLiteral, SameEvalIdent, SameEvalBinary, SameEvalShortCircuit, SameEvalTernary,
       SameEvalUnary, SameEvalAssign, SameLoadSlot, SameEvalCompoundAssign, SameEvalIncDec, SameEvalIndex,
       SameEvalFieldAccess, SameEvalArrayLiteral, SameEvalArrayCreation, SameEvalPrint, SameEvalBuiltin,
       SameEvalCall, SameEndCall, SameExecExpr, SameExecVarDecl, SameExecBlock, SameExecIf, SameExecWhile,
       SameExecFor, SameExecReturn, SameUnwind, SameRunDecl, SameRunMain, SameRunEnd DEF Interp!Next, Exec!Next,
       Interp!EvalExpr, Exec!EvalExpr, Interp!ExecStmt, Exec!ExecStmt, Interp!Run, Exec!Run, Interp!Halted,
       Exec!Halted, Interp!vars, Exec!vars

\* The identifiers that an activation is about.
LEMMA SameUses == \A f : UsesOf(f) = Exec!Uses(f)
  BY SameExecTree DEF UsesOf, Exec!Uses

-----------------------------------------------------------------------------
(***************************************************************************)
(* What runs does what its text says.                                      *)
(***************************************************************************)
\* The invariant of the interpreter alone, which needs a program that is well typed, is
\* one of the whole: before there is a verdict the interpreter does not move.
Lives == Exec!TypeOK /\ Exec!SoundInv

LEMMA InitLives == ASSUME Init PROVE Lives
<1>1. Exec!Init
  BY SameExecInit DEF Init
<1>2. Exec!TypeOK
  BY <1>1, Exec!InitType, SameExecAssumptions, SameWidth
<1>3. Exec!SoundInv
  BY <1>1, Exec!SoundInit, SameExecAssumptions, SameWidth
<1> QED
  BY <1>2, <1>3 DEF Lives

\* What leaves the interpreter and the program alone.
LEMMA StutterLives == ASSUME Lives, UNCHANGED <<prog, interpVars>> PROVE Lives'
<1>1. UNCHANGED Exec!vars
  BY DEF interpVars, Exec!vars
<1> QED
  BY <1>1, Exec!SoundStutter, SameExecAssumptions, SameWidth DEF Lives

LEMMA CheckerKeepsProgram == ASSUME Sema!Step PROVE prog' = prog
  BY DEF Sema!Step, Sema!CheckChild, Sema!CheckExpr, Sema!DeclareLocalVar, Sema!CheckStmt,
         Sema!HoistFunc, Sema!RequireMain, Sema!CheckDecl, Sema!Conclude

LEMMA StepLives == ASSUME Lives, Sema!AcceptedIsWellTyped, [Next]_vars PROVE Lives'
<1>1. CASE Analyze
  BY <1>1, StutterLives, CheckerKeepsProgram DEF Analyze
<1>2. CASE Reject
  BY <1>2, StutterLives DEF Reject
<1>3. CASE Interpret
  <2>1. Exec!Next
    BY <1>3, SameExecNext DEF Interpret
  <2>2. PICK t : t = types
    OBVIOUS
  <2>3. Exec!WellTyped(t, prog)
    BY <1>3, <2>2, SameTypes DEF Interpret, Sema!AcceptedIsWellTyped
  <2> QED
    BY <2>1, <2>3, Exec!SoundStep, SameExecAssumptions, SameWidth DEF Lives
<1>4. CASE Leave
  BY <1>4, StutterLives DEF Leave
<1>5. CASE UNCHANGED vars
  BY <1>5, StutterLives DEF vars
<1> QED
  BY <1>1, <1>2, <1>3, <1>4, <1>5 DEF Next, Step

\* All that is known at any point of a run.
Known == Lives /\ VerdictInv /\ Sema!AcceptedIsWellTyped

LEMMA AlwaysKnown == Spec => []Known
<1>1. Init => Lives
  BY InitLives
<1>2. Lives /\ Sema!AcceptedIsWellTyped /\ [Next]_vars => Lives'
  BY StepLives
<1>3. Init => VerdictInv
  BY InitVerdict
<1>4. VerdictInv /\ [Next]_vars => VerdictInv'
  BY VerdictStep
<1> QED
  BY <1>1, <1>2, <1>3, <1>4, CheckerIsSound, PTL DEF Spec, Known

\* An activation means that the program was accepted.
LEMMA ActiveIsAccepted ==
  ASSUME Known, stack # <<>>
  PROVE  /\ Sema!Accepted /\ \E t : t = types /\ Exec!WellTyped(t, prog)
         /\ \A n \in Exec!NodesOf(prog) : Nodes[n].k = "Ident" =>
              declared[var_refs[n] + 1] = Exec!Means(Exec!ScopesOf(prog)[n], Nodes[n].name)
<1>1. Sema!Accepted
  BY DEF Known, VerdictInv, Unstarted, interpVars
<1> QED
  BY <1>1, SameTypes, SameScopes, SameMeaning, SameNodesOf DEF Known, Sema!AcceptedIsWellTyped

\* A function whose end is reached without a return is void, in every run of every
\* program: exec_block's fall through to Value::Void is never the value of a call that
\* has to have one.
THEOREM OnlyVoidReachesTheEnd == Spec => []OnlyVoidFallsOff
<1>1. ASSUME Known PROVE OnlyVoidFallsOff
  <2>1. SUFFICES ASSUME Interp!At("Func"), Interp!Done = Len(Interp!Here.kids) PROVE Interp!Here.ty = TVoid
    BY DEF OnlyVoidFallsOff
  <2>2. stack # <<>>
    BY <2>1 DEF Interp!At, Interp!Running
  <2>3. PICK t : Exec!WellTyped(t, prog)
    BY <1>1, <2>2, ActiveIsAccepted
  <2>4. Exec!FallsOffVoid
    BY <1>1, <2>3, Exec!SoundFalls, SameExecAssumptions, SameWidth DEF Known, Lives
  <2>5. Exec!At("Func") /\ Exec!Done = Len(Exec!Here.kids) /\ Exec!Here = Interp!Here
    BY <2>1, SameMachine
  <2>6. Exec!TVoid = TVoid
    BY DEF Exec!TVoid, TVoid, Exec!Ty, Ty
  <2> QED
    BY <2>4, <2>5, <2>6 DEF Exec!FallsOffVoid
<1> QED
  BY <1>1, AlwaysKnown, PTL

\* The environments that the interpreter walks and the symbols that the checker noted
\* mean the same: every name read or written is the variable of the declaration whose
\* symbol its identifier was given.
THEOREM NamesFollowTheirSymbols == Spec => []NamesMeanTheirSymbols
<1>1. ASSUME Known PROVE NamesMeanTheirSymbols
  <2>1. SUFFICES ASSUME Interp!Running, NEW n \in UsesOf(Interp!Top),
                        NEW o \in Interp!Owner(Interp!Top.env, Nodes[n].name)
                 PROVE  envs[o].vars[Nodes[n].name].d = declared[var_refs[n] + 1]
    BY DEF NamesMeanTheirSymbols
  <2>2. stack # <<>>
    BY <2>1 DEF Interp!Running
  <2>3. PICK t : Exec!WellTyped(t, prog)
    BY <1>1, <2>2, ActiveIsAccepted
  <2>4. Exec!NamesMeanDeclarations
    BY <1>1, <2>3, Exec!SoundNames, SameExecAssumptions, SameWidth DEF Known, Lives
  <2>5. Exec!Running /\ n \in Exec!Uses(Exec!Top) /\ o \in Exec!Owner(Exec!Top.env, Nodes[n].name)
    BY <2>1, SameMachine, SameUses
  <2>6. envs[o].vars[Nodes[n].name].d = Exec!Means(Exec!ScopesOf(prog)[n], Nodes[n].name)
    BY <2>4, <2>5 DEF Exec!NamesMeanDeclarations
  <2>7. n \in Exec!NodesOf(prog) /\ Nodes[n].k = "Ident"
    BY <1>1, <2>2, <2>5, Exec!UsesScopes, SameExecAssumptions, SameWidth DEF Known, Lives, Exec!SoundInv
  <2> QED
    BY <1>1, <2>2, <2>6, <2>7, ActiveIsAccepted
<1> QED
  BY <1>1, AlwaysKnown, PTL
-----------------------------------------------------------------------------
(***************************************************************************)
(* What panics.                                                            *)
(***************************************************************************)
\* Values and panics: while there is no verdict the interpreter's state is of every
\* type, and from then on of the types that the checker gave, which change no more.
Typed == IF Sema!Accepted THEN \E t : t = types /\ Exec!TypesInv(t) ELSE \A t : Exec!TypesInv(t)

LEMMA InitTyped == ASSUME Init PROVE Typed
<1>1. \A t : Exec!TypesInv(t)
  BY SameExecInit, Exec!TypesInit, SameExecAssumptions, SameWidth DEF Init
<1> QED BY <1>1 DEF Typed

LEMMA StutterTyped ==
  ASSUME Typed, UNCHANGED <<prog, interpVars>>, ~Sema!Accepted \/ UNCHANGED semaVars PROVE Typed'
<1>1. UNCHANGED Exec!vars
  BY DEF interpVars, Exec!vars
<1>2. CASE ~Sema!Accepted
  <2>1. \A t : Exec!TypesInv(t)'
    BY <1>1, <1>2, Exec!TypesStutter, SameExecAssumptions, SameWidth DEF Typed
  <2> QED BY <2>1 DEF Typed
<1>3. CASE Sema!Accepted
  <2>1. UNCHANGED semaVars
    BY <1>3
  <2>2. PICK t : t = types /\ Exec!TypesInv(t)
    BY <1>3 DEF Typed
  <2>3. t = types' /\ Exec!TypesInv(t)'
    BY <1>1, <2>1, <2>2, Exec!TypesStutter, SameExecAssumptions, SameWidth DEF semaVars
  <2>4. Sema!Accepted'
    BY <1>3, <2>1 DEF Sema!Accepted, semaVars
  <2> QED BY <2>3, <2>4 DEF Typed
<1> QED BY <1>2, <1>3

\* A step of the interpreter keeps the types, or panics where it may.
LEMMA InterpretTyped ==
  ASSUME Lives, Sema!AcceptedIsWellTyped, Typed, Interpret
  PROVE  /\ Typed'
         /\ status = "run" /\ status' = "panic" =>
              stack # <<>> /\ (Exec!RemainderOfFloats \/ Exec!GlobalNotYetDefined)
<1>1. Exec!Next /\ Sema!Accepted /\ Sema!Accepted' /\ types' = types
  BY SameExecNext DEF Interpret, semaVars, Sema!Accepted
<1>2. PICK t : t = types /\ Exec!TypesInv(t)
  BY <1>1 DEF Typed
<1>3. Exec!WellTyped(t, prog)
  BY <1>1, <1>2, SameTypes DEF Sema!AcceptedIsWellTyped
<1>4. /\ Exec!TypesInv(t)'
      /\ status = "run" /\ status' = "panic" =>
           stack # <<>> /\ (Exec!RemainderOfFloats \/ Exec!GlobalNotYetDefined)
  BY <1>1, <1>2, <1>3, Exec!TypesStep, SameExecAssumptions, SameWidth DEF Lives
<1> QED BY <1>1, <1>2, <1>4 DEF Typed

LEMMA StepTyped == ASSUME Lives, Sema!AcceptedIsWellTyped, Typed, [Next]_vars PROVE Typed'
<1>1. CASE Analyze
  BY <1>1, StutterTyped, CheckerKeepsProgram, NoStepAfterVerdict DEF Analyze, Sema!Accepted
<1>2. CASE Reject
  BY <1>2, StutterTyped DEF Reject
<1>3. CASE Interpret
  BY <1>3, InterpretTyped
<1>4. CASE Leave
  BY <1>4, StutterTyped DEF Leave
<1>5. CASE UNCHANGED vars
  BY <1>5, StutterTyped DEF vars
<1> QED BY <1>1, <1>2, <1>3, <1>4, <1>5 DEF Next, Step

LEMMA AlwaysTyped == Spec => []Typed
<1>1. Init => Typed
  BY InitTyped
<1>2. Known /\ Typed /\ [Next]_vars => Typed'
  BY StepTyped DEF Known
<1> QED BY <1>1, <1>2, AlwaysKnown, PTL DEF Spec

\* The places where it may are those that AnxRun names.
LEMMA SamePanics ==
  ASSUME Known, stack # <<>>, Exec!RemainderOfFloats \/ Exec!GlobalNotYetDefined
  PROVE  FloatRemainder \/ UndefinedGlobal
<1>1. CASE Exec!RemainderOfFloats
  BY <1>1, SameMachine DEF Exec!RemainderOfFloats, FloatRemainder
<1>2. CASE Exec!GlobalNotYetDefined
  <2>1. PICK n \in Exec!Uses(Exec!Top), i \in 1 .. Len(prog) :
          /\ Exec!Owner(Exec!Top.env, Nodes[n].name) = {}
          /\ Exec!Means(Exec!ScopesOf(prog)[n], Nodes[n].name) = prog[i]
    BY <1>2 DEF Exec!GlobalNotYetDefined
  <2>2. n \in Exec!NodesOf(prog) /\ Nodes[n].k = "Ident"
    BY <2>1, Exec!UsesScopes, SameExecAssumptions, SameWidth DEF Known, Lives, Exec!SoundInv
  <2>3. declared[var_refs[n] + 1] = prog[i]
    BY <2>1, <2>2, ActiveIsAccepted
  <2>4. i \in DOMAIN prog
    BY <2>1, Exec!ProgramNodes, SameExecAssumptions, SameWidth DEF Known, Lives, Exec!TypeOK
  <2>5. n \in UsesOf(Interp!Top) /\ Interp!Owner(Interp!Top.env, Nodes[n].name) = {}
    BY <2>1, SameMachine, SameUses
  <2>6. Nodes[stack[1].n].k = "VarDecl"
    BY <1>2 DEF Exec!GlobalNotYetDefined
  <2> QED BY <2>3, <2>4, <2>5, <2>6 DEF UndefinedGlobal
<1> QED BY <1>1, <1>2

\* Only the interpreter panics.
LEMMA PanicsOfInterpret ==
  ASSUME [Next]_vars, status = "run", status' = "panic" PROVE Interpret
  BY DEF Next, Step, Analyze, Reject, Leave, interpVars, vars

\* "sema guarantees ...": in every run of every program, the interpreter panics at the
\* remainder of two floats and at a global that is used before it is defined, and at no
\* other operand, name, call or assignment target.
THEOREM GuaranteesHold == Spec => PanicsOnlyWhereKnown
<1> DEFINE A == status = "run" /\ status' = "panic" => FloatRemainder \/ UndefinedGlobal
<1>1. Known /\ Typed /\ [Next]_vars => A
  <2>1. SUFFICES ASSUME Known, Typed, [Next]_vars, status = "run", status' = "panic"
                 PROVE  FloatRemainder \/ UndefinedGlobal
    OBVIOUS
  <2>2. Interpret
    BY <2>1, PanicsOfInterpret
  <2>4. stack # <<>> /\ (Exec!RemainderOfFloats \/ Exec!GlobalNotYetDefined)
    BY <2>1, <2>2, InterpretTyped DEF Known
  <2> QED BY <2>1, <2>4, SamePanics
<1> QED BY <1>1, AlwaysKnown, AlwaysTyped, PTL DEF Spec, PanicsOnlyWhereKnown
-----------------------------------------------------------------------------
(***************************************************************************)
(* What the values are.                                                    *)
(***************************************************************************)
\* The cells of an array, in a heap h; and what is at each depth of a value.
CellsOf(h, a) == {h[a.r][i] : i \in DOMAIN h[a.r]}
Within(h, s) == UNION {CellsOf(h, a) : a \in {w \in s : w.k = "Array"}}
LevelsOf(h, v, m, f) == f = [d \in 0 .. m |-> IF d = 0 THEN {v} ELSE Within(h, f[d - 1])]

\* The recursion of HasType has a solution: the least that has v at depth 0, and at each
\* depth the cells of the arrays above.
LEMMA LevelsExist ==
  ASSUME NEW U, NEW h, \A a \in U : a.k = "Array" => CellsOf(h, a) \subseteq U, NEW v \in U, NEW m \in Nat
  PROVE  \E f : LevelsOf(h, v, m, f)
<1> DEFINE Closed(S) == /\ <<0, v>> \in S
                        /\ \A d \in Nat : \A a \in U : <<d, a>> \in S /\ a.k = "Array" =>
                             \A c \in CellsOf(h, a) : <<d + 1, c>> \in S
           At(d) == {w \in U : \A S \in SUBSET (Nat \X U) : Closed(S) => <<d, w>> \in S}
           g == [d \in 0 .. m |-> At(d)]
<1>1. At(0) = {v}
  <2>1. v \in At(0)
    OBVIOUS
  <2>2. ASSUME NEW w \in U, w # v PROVE w \notin At(0)
    <3> DEFINE S == {s \in Nat \X U : s[1] = 0 => s[2] = v}
    <3>1. Closed(S)
      <4>1. <<0, v>> \in S
        OBVIOUS
      <4>2. ASSUME NEW d \in Nat, NEW a \in U, a.k = "Array", NEW c \in CellsOf(h, a) PROVE <<d + 1, c>> \in S
        <5>1. c \in U /\ d + 1 \in Nat /\ d + 1 # 0
          BY <4>2
        <5> QED BY <5>1
      <4> HIDE DEF S
      <4> QED BY <4>1, <4>2
    <3>2. <<0, w>> \notin S /\ S \in SUBSET (Nat \X U)
      BY <2>2
    <3> HIDE DEF S, Closed
    <3> QED BY <3>1, <3>2
  <2> HIDE DEF Closed
  <2> QED BY <2>1, <2>2
<1>2. ASSUME NEW d \in Nat, NEW a \in At(d), a.k = "Array" PROVE CellsOf(h, a) \subseteq At(d + 1)
  <2>1. SUFFICES ASSUME NEW c \in CellsOf(h, a), NEW S \in SUBSET (Nat \X U), Closed(S) PROVE <<d + 1, c>> \in S
    BY <1>2
  <2>2. <<d, a>> \in S
    BY <2>1
  <2> QED BY <1>2, <2>1, <2>2
<1>3. ASSUME NEW d \in Nat, d # 0 PROVE At(d) = Within(h, At(d - 1))
  <2>1. d - 1 \in Nat /\ (d - 1) + 1 = d
    BY <1>3
  <2>2. Within(h, At(d - 1)) \subseteq At(d)
    <3> HIDE DEF At
    <3> QED BY <1>2, <2>1 DEF Within
  <2>3. ASSUME NEW w \in At(d), w \notin Within(h, At(d - 1)) PROVE FALSE
    <3> DEFINE S == {s \in Nat \X U : s[2] \in At(s[1]) /\ (s[1] = d => s[2] \in Within(h, At(d - 1)))}
    <3>1. Closed(S)
      <4>1. <<0, v>> \in S
        <5>1. v \in At(0) /\ 0 # d
          BY <1>1, <1>3
        <5> HIDE DEF At
        <5> QED BY <5>1
      <4>2. ASSUME NEW e \in Nat, NEW a \in U, <<e, a>> \in S, a.k = "Array", NEW c \in CellsOf(h, a)
            PROVE  <<e + 1, c>> \in S
        <5>1. a \in At(e)
          <6> HIDE DEF At
          <6> QED BY <4>2
        <5>2. c \in At(e + 1) /\ c \in U
          <6> HIDE DEF At
          <6> QED BY <4>2, <5>1, <1>2
        <5>3. e + 1 = d => c \in Within(h, At(d - 1))
          <6>1. e + 1 = d => e = d - 1
            OBVIOUS
          <6> HIDE DEF At
          <6> QED BY <4>2, <5>1, <6>1 DEF Within
        <5> HIDE DEF At
        <5> QED BY <5>2, <5>3
      <4> HIDE DEF S
      <4> QED BY <4>1, <4>2
    <3>2. S \in SUBSET (Nat \X U) /\ <<d, w>> \notin S
      <4> HIDE DEF At
      <4> QED BY <2>3
    <3>3. <<d, w>> \in S
      <4> HIDE DEF S, Closed
      <4> QED BY <2>3, <3>1, <3>2
    <3> QED BY <3>2, <3>3
  <2> HIDE DEF At
  <2> QED BY <2>2, <2>3
<1>4. LevelsOf(h, v, m, g)
  <2>1. ASSUME NEW d \in 0 .. m PROVE At(d) = IF d = 0 THEN {v} ELSE Within(h, g[d - 1])
    <3>1. d # 0 => d - 1 \in 0 .. m /\ d \in Nat
      OBVIOUS
    <3>2. d # 0 => g[d - 1] = At(d - 1)
      <4> HIDE DEF At
      <4> QED BY <3>1
    <3> HIDE DEF At, g
    <3> QED BY <1>1, <1>3, <3>1, <3>2
  <2> HIDE DEF At
  <2> QED BY <2>1 DEF LevelsOf
<1> QED BY <1>4

\* What is at depth d of a value of type t is of t's elements' elements' ... type.
Down(t, d) == [base |-> t.base, dim |-> t.dim - d]
LEMMA LevelsTyped ==
  ASSUME NEW h, NEW ht, h \in Seq(Seq(Exec!Value(Len(h)))), Exec!HeapT(ht, h), NEW t \in Type,
         NEW v \in Exec!Value(Len(h)), Exec!VT(ht, v, t), NEW f, LevelsOf(h, v, t.dim, f),
         NEW d \in 0 .. t.dim, NEW w \in f[d]
  PROVE  w \in Exec!Value(Len(h)) /\ Exec!VT(ht, w, Down(t, d))
<1> DEFINE V == Exec!Value(Len(h))
           Good(k) == \A x \in f[k] : x \in V /\ Exec!VT(ht, x, Down(t, k))
           Bad == {k \in 0 .. t.dim : ~Good(k)}
<1>0. t.dim \in Nat /\ t = [base |-> t.base, dim |-> t.dim]
  BY DEF Type
<1>1. f[0] = {v} /\ \A k \in 0 .. t.dim : k # 0 => f[k] = Within(h, f[k - 1])
  <2>1. PICK m \in Nat : m = t.dim
    BY <1>0
  <2>2. f = [k \in 0 .. m |-> IF k = 0 THEN {v} ELSE Within(h, f[k - 1])]
    BY <2>1 DEF LevelsOf
  <2>3. \A k \in 0 .. m : f[k] = IF k = 0 THEN {v} ELSE Within(h, f[k - 1])
    BY <2>2, Zenon
  <2> QED BY <2>1, <2>3
<1>2. Good(0)
  <2>1. Down(t, 0) = t
    BY <1>0 DEF Down
  <2> QED BY <1>1, <2>1
<1>3. ASSUME NEW k \in 0 .. t.dim, k # 0, Good(k - 1) PROVE Good(k)
  <2>1. SUFFICES ASSUME NEW x \in f[k] PROVE x \in V /\ Exec!VT(ht, x, Down(t, k))
    OBVIOUS
  <2>2. f[k] = Within(h, f[k - 1])
    BY <1>1, <1>3
  <2>3. PICK a \in f[k - 1] : a.k = "Array" /\ x \in CellsOf(h, a)
    BY <2>1, <2>2 DEF Within
  <2>4. a \in V /\ Exec!VT(ht, a, Down(t, k - 1))
    BY <1>3, <2>3
  <2>5. a.r \in 1 .. Len(h)
    BY <2>3, <2>4, Exec!ValueCases, SameExecAssumptions, SameWidth
  <2>6. ht[a.r] = Down(t, k)
    <3>1. Exec!IsArray(Down(t, k - 1)) /\ Exec!ElemOf(Down(t, k - 1)) = Down(t, k)
      BY <1>0, <1>3 DEF Down, Exec!IsArray, Exec!ElemOf
    <3> QED BY <2>4, <3>1 DEF Exec!VT
  <2>7. PICK i \in 1 .. Len(h[a.r]) : x = h[a.r][i]
    <3>1. h[a.r] \in Seq(V)
      BY <2>5
    <3>2. DOMAIN h[a.r] = 1 .. Len(h[a.r])
      BY <3>1
    <3> QED BY <2>3, <3>2 DEF CellsOf
  <2>8. x \in V
    <3>1. h[a.r] \in Seq(V)
      BY <2>5
    <3> QED BY <2>7, <3>1
  <2>9. Exec!VT(ht, x, ht[a.r])
    BY <2>5, <2>7 DEF Exec!HeapT
  <2> QED BY <2>6, <2>8, <2>9
<1>4. Bad = {}
  <2>1. SUFFICES ASSUME Bad # {} PROVE FALSE
    OBVIOUS
  <2>2. PICK k \in Bad : \A l \in Bad : k <= l
    <3>1. Bad \subseteq Nat
      BY <1>0
    <3> HIDE DEF Bad
    <3> QED BY <2>1, <3>1, Exec!Least, SameExecAssumptions, SameWidth
  <2> HIDE DEF Good
  <2>3. k \in 0 .. t.dim /\ ~Good(k) /\ k # 0
    BY <1>2, <2>2
  <2>4. k - 1 \in 0 .. t.dim /\ ~(k <= k - 1)
    BY <1>0, <2>3
  <2>5. Good(k - 1)
    BY <2>2, <2>4
  <2> QED BY <1>3, <2>3, <2>5
<1> QED BY <1>4

\* So a value that is of its type as far as the heap's table says is of it all the way
\* down.
LEMMA ValuesHave ==
  ASSUME heap \in Seq(Seq(Exec!Value(Len(heap)))), NEW ht, Exec!HeapT(ht, heap), NEW t \in Type,
         NEW v \in Exec!Value(Len(heap)), Exec!VT(ht, v, t)
  PROVE  HasType(v, t)
<1> DEFINE f == CHOOSE f : LevelsOf(heap, v, t.dim, f)
<1>1. t.dim \in Nat
  BY DEF Type
<1>2. ASSUME NEW a \in Exec!Value(Len(heap)), a.k = "Array"
      PROVE  CellsOf(heap, a) \subseteq Exec!Value(Len(heap))
  <2>1. a.r \in 1 .. Len(heap)
    BY <1>2, Exec!ValueCases, SameExecAssumptions, SameWidth
  <2>2. heap[a.r] \in Seq(Exec!Value(Len(heap)))
    BY <2>1
  <2> QED BY <2>2 DEF CellsOf
<1>3. \E g : LevelsOf(heap, v, t.dim, g)
  BY <1>1, <1>2, LevelsExist
<1>4. LevelsOf(heap, v, t.dim, f)
  BY <1>3
<1>5. ASSUME NEW d \in 0 .. t.dim, NEW w \in f[d] PROVE w.k = IF d < t.dim THEN "Array" ELSE t.base
  <2> HIDE DEF f
  <2>1. Exec!VT(ht, w, Down(t, d))
    BY <1>4, <1>5, LevelsTyped
  <2>2. Exec!IsArray(Down(t, d)) <=> d < t.dim
    BY <1>1 DEF Down, Exec!IsArray
  <2> QED BY <2>1, <2>2 DEF Exec!VT, Down
<1>6. HasType(v, t) <=> \A d \in 0 .. t.dim : \A w \in f[d] : w.k = IF d < t.dim THEN "Array" ELSE t.base
  BY DEF HasType, LevelsOf, Within, CellsOf
<1> HIDE DEF f
<1> QED BY <1>5, <1>6
\* The expression that a value is of is the same; and its type is one.
LEMMA SamePlaces ==
  ASSUME NEW f, Nodes[f.n].k \in ExprKind \cup {"Expr", "VarDecl", "Return"}, NEW i
  PROVE  Nodes[f.n].k \in Exec!Evaluated /\ ValueOf(f, i) = Exec!ExprOf(f.n, i)
<1>1. PICK n : n = f.n
  OBVIOUS
<1>2. Exec!ExprKind = ExprKind
  BY DEF Exec!ExprKind, ExprKind
<1>3. Nodes[n].k \in Exec!Evaluated
  BY <1>1, <1>2 DEF Exec!Evaluated
<1>4. LET nd == Nodes[n]  ops == Exec!Operands(nd)
      IN  Exec!ExprOf(n, i) = IF (nd.k = "Ternary" /\ i > 1) \/ (nd.k = "Call" /\ i > Len(ops)) THEN n
                              ELSE IF ops[i] = Exec!Slot THEN nd.kids[1] ELSE ops[i]
  BY <1>3, Exec!ExprOfs, SameExecAssumptions, SameWidth
<1>5. Interp!Slot = Exec!Slot
  BY DEF Interp!Slot, Exec!Slot
<1> QED BY <1>1, <1>3, <1>4, <1>5, SameMachine DEF ValueOf

LEMMA SameType == Exec!Type = Type
  BY DEF Exec!Type, Type

LEMMA TypedValues == ASSUME Known, Typed PROVE ValuesHaveTheirTypes
<1>1. SUFFICES ASSUME Sema!Accepted
               PROVE  /\ \A e \in DOMAIN envs : \A x \in Name :
                           LET entry == envs[e].vars[x] IN entry.d # 0 => HasType(entry.v, Nodes[entry.d].ty)
                      /\ \A j \in DOMAIN stack : FrameTyped(stack[j])
  BY DEF ValuesHaveTheirTypes
<1>2. PICK t : t = types /\ Exec!TypesInv(t)
  BY <1>1 DEF Typed
<1>3. Exec!WellTyped(t, prog) /\ Exec!TypeOK /\ Exec!SoundInv
  BY <1>1, <1>2, SameTypes DEF Known, Lives, Sema!AcceptedIsWellTyped
<1>4. PICK ht : Exec!TypedBy(t, ht) /\ Exec!Counted(stack)
  BY <1>2 DEF Exec!TypesInv, Exec!TypedInv
<1>5. heap \in Seq(Seq(Exec!Value(Len(heap)))) /\ Exec!HeapT(ht, heap)
  BY <1>3, <1>4 DEF Exec!TypeOK, Exec!TypedBy
<1>6. ASSUME NEW e \in DOMAIN envs, NEW x \in Name, envs[e].vars[x].d # 0
      PROVE  HasType(envs[e].vars[x].v, Nodes[envs[e].vars[x].d].ty)
  <2>1. e \in 1 .. Len(envs) /\ envs[e] \in Exec!Environments(Len(heap), Len(envs))
    BY <1>3 DEF Exec!TypeOK
  <2>2. PICK entry : entry = envs[e].vars[x]
    OBVIOUS
  <2>3. entry.v \in Exec!Value(Len(heap)) /\ entry.d \in Exec!NodeId
    BY <1>6, <2>1, <2>2 DEF Exec!Environments
  <2>4. Nodes[entry.d].ty \in Type
    BY <2>3, Exec!NodeType, SameExecAssumptions, SameWidth, SameType
  <2>5. Exec!VT(ht, entry.v, Nodes[entry.d].ty)
    BY <1>4, <1>6, <2>1, <2>2 DEF Exec!TypedBy, Exec!EnvsT
  <2> QED BY <1>5, <2>2, <2>3, <2>4, <2>5, ValuesHave
<1>7. ASSUME NEW j \in DOMAIN stack PROVE FrameTyped(stack[j])
  <2>1. PICK f : f = stack[j]
    OBVIOUS
  <2>2. j \in 1 .. Len(stack) /\ f \in Exec!Frames(Len(heap), Len(envs))
    BY <1>3, <2>1 DEF Exec!TypeOK
  <2>3. ASSUME Nodes[f.n].k \in ExprKind \cup {"Expr", "VarDecl", "Return"}, NEW i \in DOMAIN f.vs
        PROVE  HasType(f.vs[i], types[ValueOf(f, i)])
    <3>1. i \in 1 .. Len(f.vs)
      BY <2>2 DEF Exec!Frames
    <3>2. PICK e : e = Exec!ExprOf(f.n, i)
      OBVIOUS
    <3>3. Nodes[f.n].k \in Exec!Evaluated /\ e = ValueOf(f, i)
      BY <2>3, <3>2, SamePlaces
    <3>4. f.vs[i] \in Exec!Value(Len(heap)) /\ t[e] \in Type /\ Exec!VT(ht, f.vs[i], t[e])
      BY <1>3, <1>4, <2>1, <2>2, <3>1, <3>2, <3>3, Exec!FrameValues, SameExecAssumptions, SameWidth, SameType
    <3>5. HasType(f.vs[i], t[e])
      BY <1>5, <3>4, ValuesHave
    <3> QED BY <1>2, <3>3, <3>5
  <2> QED BY <2>1, <2>3 DEF FrameTyped
<1> QED BY <1>6, <1>7

\* The static types hold at run time, in every run of every program: every variable
\* holds a value of its declared type, and every expression's value has the type that
\* the checker gave it, down to the last cell of an array of arrays.
THEOREM TypesHoldAtRunTime == Spec => []ValuesHaveTheirTypes
  BY TypedValues, AlwaysKnown, AlwaysTyped, PTL
===============================================================================
