--------------------------- MODULE AnxPipelineProofs ---------------------------
(***************************************************************************)
(* For any set of invocations, process ids, files, texts and outputs: a    *)
(* build links its own object and no other, and the pipeline implements    *)
(* AnxDeliver.                                                             *)
(***************************************************************************)
EXTENDS AnxPipeline, TLAPS

Building == {"codegen", "verify", "target", "workdir", "object", "shim", "spawn", "wait", "cleanup"}
Stage    == {"idle", "open", "report", "interpret", "exited", "killed"} \cup Frontend \cup Building
CCStage  == {"none", "started", "read", "linking", "succeeded", "failed"}

TypeOK == /\ sources \in [FileSet -> Text]
          /\ pc \in [Call -> Stage] /\ pid \in [Call -> Pid]
          /\ text \in [Call -> Text \cup {Absent}] /\ code \in [Call -> {0, 1, 2, 101}]
          /\ workdirs \in SUBSET Pid /\ shims \in SUBSET Pid
          /\ objects \in [Pid -> [Stem -> Text \cup {Absent, Scrap}]]
          /\ cc \in [Call -> CCStage] /\ linked \in [Call -> Text \cup {Absent}]
          /\ outputs \in [Path -> [by : Call \cup {Absent}, is : Text \cup {Absent, Scrap}]]

\* Two processes have two ids.
PidsApart == \A i, j \in Call : Live(i) /\ Live(j) /\ pid[i] = pid[j] => i = j

\* How far a text has come says what it cannot fail at.
Passed(i) == /\ pc[i] \in {"lex", "parse", "analyze"} => FailsAt[text[i]] # "read"
             /\ pc[i] \in {"parse", "analyze"} => FailsAt[text[i]] # "lex"
             /\ pc[i] = "analyze" => FailsAt[text[i]] # "parse"
             /\ pc[i] \in {"report", "interpret"} \cup Building => FailsAt[text[i]] \notin Frontend
             /\ pc[i] \in Building \ {"codegen"} => FailsAt[text[i]] # "codegen"
TextInv(i) == /\ pc[i] \notin {"idle", "open", "killed"} => text[i] \in Text
              /\ Passed(i)
              /\ pc[i] = "report" => Cmd[i] = "check"
              /\ pc[i] = "interpret" => Cmd[i] = "run"
              /\ pc[i] \in Building => Cmd[i] = "build"

\* A build's own object is what cc finds in its directory.
ObjectInv(i) == pc[i] \in {"shim", "spawn", "wait"} => objects[pid[i]][Name(i)] = text[i]

\* What is so of a call whose cc was started.
CCInv(i) == /\ cc[i] # "none" => /\ pc[i] \in {"wait", "cleanup", "exited", "killed"}
                                 /\ Cmd[i] = "build" /\ text[i] \in Text
                                 /\ FailsAt[text[i]] \notin Frontend \cup {"codegen"}
            /\ cc[i] \in {"started", "read", "linking"} => pc[i] \in {"wait", "killed"}
            /\ pc[i] = "cleanup" => cc[i] = "succeeded"
            /\ pc[i] = "exited" /\ Cmd[i] = "build" /\ code[i] = 0 => cc[i] = "succeeded"
            /\ cc[i] \in {"read", "linking", "succeeded"} => linked[i] \in Text
            /\ pc[i] # "killed" /\ cc[i] \in {"read", "linking", "succeeded"} => linked[i] = text[i]

\* An output is the last opener's; without a rival that is the call.
Alone(i) == \A j \in Call \ {i} : ~Builds(j, Output[i])
OutputInv(i) == Alone(i) => /\ cc[i] = "linking" => outputs[Output[i]].by = i
                            /\ cc[i] = "succeeded" /\ pc[i] # "killed" => outputs[Output[i]].is = text[i]

CallInv(i) == TextInv(i) /\ ObjectInv(i) /\ CCInv(i) /\ OutputInv(i)
IInv == TypeOK /\ PidsApart /\ \A i \in Call : CallInv(i)

-----------------------------------------------------------------------------
(***************************************************************************)
(* What a step leaves alone.                                               *)
(***************************************************************************)
\* A call whose own variables, object and output do not change keeps its invariant, if
\* no rival is taken from it.
LEMMA CallKept ==
  ASSUME NEW i \in Call, CallInv(i),
         pc'[i] = pc[i], pid'[i] = pid[i], text'[i] = text[i], code'[i] = code[i],
         cc'[i] = cc[i], linked'[i] = linked[i],
         ObjectInv(i)', OutputInv(i)'
  PROVE  CallInv(i)'
<1>1. TextInv(i)' BY DEF CallInv, TextInv, Passed
<1>2. CCInv(i)' BY DEF CallInv, CCInv
<1> QED BY <1>1, <1>2 DEF CallInv

\* No invocation goes back to where it has not been started.
LEMMA AloneBefore ==
  ASSUME NEW i \in Call, Alone(i)', \A j \in Call : pc'[j] = "idle" => pc[j] = "idle"
  PROVE  Alone(i)
BY DEF Alone, Builds

\* A step of one invocation, alive before it, that changes no more of the shared state
\* than its directory.
Private(i) == /\ UNCHANGED <<pid, linked, outputs>>
              /\ Live(i) /\ pc'[i] # "idle"
              /\ \A p \in Pid \ {pid[i]} : objects'[p] = objects[p]
              /\ \A j \in Call \ {i} : /\ pc'[j] = pc[j] /\ text'[j] = text[j]
                                       /\ code'[j] = code[j] /\ cc'[j] = cc[j]
LEMMA PrivateKeeps ==
  ASSUME IInv, NEW i \in Call, Private(i), CallInv(i)', TypeOK'
  PROVE  IInv'
<1> USE DEF IInv
<1>1. PidsApart' BY DEF PidsApart, Private, Live
<1>2. ASSUME NEW j \in Call PROVE CallInv(j)'
  <2>1. CASE j = i BY <2>1
  <2>2. CASE j # i
    <3>1. /\ pc'[j] = pc[j] /\ text'[j] = text[j] /\ code'[j] = code[j] /\ cc'[j] = cc[j]
          /\ pid' = pid /\ linked' = linked /\ outputs' = outputs
      BY <2>2 DEF Private
    <3>2. \A k \in Call : pc'[k] = "idle" => pc[k] = "idle" BY DEF Private
    <3>3. ObjectInv(j)'
      <4>1. Live(j) => objects'[pid[j]] = objects[pid[j]] BY <2>2 DEF Private, PidsApart, TypeOK
      <4>2. pc[j] \in {"shim", "spawn", "wait"} => Live(j) BY DEF Live
      <4> QED BY <3>1, <4>1, <4>2 DEF CallInv, ObjectInv, Name
    <3>4. OutputInv(j)' BY <3>1, <3>2, AloneBefore DEF CallInv, OutputInv
    <3> QED BY <3>1, <3>3, <3>4, CallKept
  <2> QED BY <2>1, <2>2
<1> QED BY <1>1, <1>2

-----------------------------------------------------------------------------
(***************************************************************************)
(* The steps of an invocation that only it can see.                        *)
(***************************************************************************)
LEMMA ReadStep == ASSUME IInv, NEW i \in Call, Read(i) PROVE IInv'
<1> USE DEF IInv
<1>1. Private(i) BY DEF Read, Private, tempVars, Goto, Live, TypeOK, Stage, ccVars, Frontend
<1>2. File[i] \in FileSet /\ text'[i] \in Text BY DEF Read, TypeOK, FileSet
<1>3. TextInv(i)' BY <1>2 DEF Read, Goto, TypeOK, TextInv, Passed, Building
<1>4. ObjectInv(i)' BY DEF Read, Goto, TypeOK, ObjectInv
<1>5. CCInv(i)' BY DEF Read, Goto, TypeOK, CallInv, CCInv, ccVars
<1>6. OutputInv(i)' BY DEF Read, Goto, TypeOK, CallInv, CCInv, OutputInv, ccVars
<1>7. CallInv(i)' BY <1>3, <1>4, <1>5, <1>6 DEF CallInv
<1>8. TypeOK' BY <1>2 DEF Read, Goto, TypeOK, ccVars, tempVars, Stage, Frontend
<1> QED BY <1>1, <1>7, <1>8, PrivateKeeps

\* From the frontend on to the target, a step goes on or exits.
Onward(i) == IF pc[i] \in Frontend THEN Then(i)
             ELSE IF pc[i] = "codegen" THEN "verify" ELSE IF pc[i] = "verify" THEN "target" ELSE "workdir"

GoesOn(i) == /\ Goto(i, Onward(i)) /\ pc[i] \notin {"report", "interpret"}
             /\ pc[i] \in Frontend \cup {"codegen"} => FailsAt[text[i]] # pc[i]

LEMMA EarlyStep ==
  ASSUME IInv, NEW i \in Call,
         Pass(i) \/ Report(i) \/ Interpret(i) \/ Generate(i) \/ Verify(i) \/ InitTarget(i)
  PROVE  IInv'
<1> USE DEF IInv
<1>0. /\ UNCHANGED <<sources, pid, text, tempVars, ccVars>>
      /\ \/ GoesOn(i)
         \/ \E c \in {0, 1, 2, 101} : Exit(i, c) /\ (c = 0 => pc[i] \in {"report", "interpret"})
      /\ pc[i] \in Frontend \cup {"report", "interpret", "codegen", "verify", "target"}
  <2>1. CASE Pass(i) BY <2>1 DEF Pass, GoesOn, Onward, Frontend
  <2>2. CASE Report(i) BY <2>2 DEF Report
  <2>3. CASE Interpret(i) BY <2>3 DEF Interpret
  <2>4. CASE Generate(i) \/ Verify(i) BY <2>4 DEF Generate, Verify, GoesOn, Onward, Frontend
  <2>5. CASE InitTarget(i) BY <2>5 DEF InitTarget, GoesOn, Onward, Frontend
  <2> QED BY <2>1, <2>2, <2>3, <2>4, <2>5
<1> USE <1>0
<1>1. Private(i)
  BY CmdAssumption DEF Private, tempVars, Goto, Exit, Live, TypeOK, Stage, ccVars, Frontend, Building, GoesOn, Onward, Then, AfterFrontend
<1>2. TextInv(i)'
  <2>1. CASE \E c \in {0, 1, 2, 101} : Exit(i, c)
    BY <2>1 DEF Exit, TypeOK, TextInv, Passed, Building, CallInv, Frontend
  <2>2. CASE GoesOn(i)
    BY <2>2, CmdAssumption
    DEF GoesOn, Goto, TypeOK, TextInv, Passed, Building, Frontend, CallInv, Onward, Then, AfterFrontend
  <2> QED BY <2>1, <2>2
<1>3. cc[i] = "none" BY DEF CallInv, CCInv, TypeOK, Frontend
<1>4. pc'[i] \notin {"shim", "spawn", "wait", "cleanup"}
  BY DEF Exit, Goto, TypeOK, GoesOn, Onward, Then, AfterFrontend
<1>5. ObjectInv(i)' BY <1>4 DEF ObjectInv
<1>6. CCInv(i)'
  <2>1. cc'[i] = "none" BY <1>3 DEF ccVars
  <2>2. ~(pc'[i] = "exited" /\ Cmd[i] = "build" /\ code'[i] = 0)
    BY DEF Exit, Goto, TypeOK, GoesOn, Onward, Then, AfterFrontend, CallInv, TextInv
  <2> QED BY <1>4, <2>1, <2>2 DEF CCInv
<1>7. OutputInv(i)' BY <1>3 DEF OutputInv, ccVars
<1>8. CallInv(i)' BY <1>2, <1>5, <1>6, <1>7 DEF CallInv
<1>9. TypeOK'
  <2>1. CASE \E c \in {0, 1, 2, 101} : Exit(i, c) BY <2>1 DEF Exit, TypeOK, ccVars, tempVars, Stage
  <2>2. CASE GoesOn(i)
    <3>1. Onward(i) \in Stage BY CmdAssumption DEF Onward, Then, AfterFrontend, Stage, Frontend, Building
    <3> QED BY <2>2, <3>1 DEF GoesOn, Goto, TypeOK, ccVars, tempVars
  <2> QED BY <2>1, <2>2
<1> QED BY <1>1, <1>8, <1>9, PrivateKeeps

LEMMA SpawnStep == ASSUME IInv, NEW i \in Call, SpawnCC(i) PROVE IInv'
<1> USE DEF IInv, SpawnCC
<1>1. Private(i) BY DEF Private, tempVars, Goto, Exit, Live, TypeOK, Stage, Building
<1>2. cc[i] = "none" /\ text[i] \in Text /\ FailsAt[text[i]] \notin Frontend \cup {"codegen"} /\ Cmd[i] = "build"
  BY DEF CallInv, CCInv, TextInv, Passed, TypeOK, Building, Frontend
<1>3. TextInv(i)' BY <1>2 DEF Goto, Exit, TypeOK, TextInv, Passed, Building, CallInv, Frontend
<1>4. ObjectInv(i)' BY DEF Goto, Exit, TypeOK, ObjectInv, CallInv, tempVars, Name
<1>5. CCInv(i)' BY <1>2 DEF Goto, Exit, TypeOK, CCInv
<1>6. OutputInv(i)' BY <1>2 DEF OutputInv, TypeOK
<1>7. CallInv(i)' BY <1>3, <1>4, <1>5, <1>6 DEF CallInv
<1>9. TypeOK'
  <2>1. pc' \in [Call -> Stage] /\ code' \in [Call -> {0, 1, 2, 101}]
    BY DEF Goto, Exit, TypeOK, Stage, Building
  <2>2. cc' \in [Call -> CCStage] BY DEF TypeOK, CCStage
  <2> QED BY <2>1, <2>2 DEF TypeOK, tempVars
<1> QED BY <1>1, <1>7, <1>9, PrivateKeeps

LEMMA ReapStep == ASSUME IInv, NEW i \in Call, Reap(i) PROVE IInv'
<1> USE DEF IInv, Reap
<1>1. Private(i) BY DEF Private, tempVars, Goto, Exit, Live, TypeOK, Stage, Building, ccVars
<1>2. TextInv(i)' BY DEF Goto, Exit, TypeOK, TextInv, Passed, Building, CallInv, Frontend
<1>3. ObjectInv(i)' BY DEF Goto, Exit, TypeOK, ObjectInv
<1>4. CCInv(i)' BY DEF Goto, Exit, TypeOK, CallInv, CCInv, ccVars
<1>5. OutputInv(i)'
  <2>1. \A j \in Call : pc'[j] = "idle" => pc[j] = "idle" BY <1>1 DEF Private
  <2> QED BY <2>1, AloneBefore DEF CallInv, OutputInv, ccVars
<1>6. CallInv(i)' BY <1>2, <1>3, <1>4, <1>5 DEF CallInv
<1>9. TypeOK'
  BY DEF Goto, Exit, TypeOK, ccVars, tempVars, Stage, Building
<1> QED BY <1>1, <1>6, <1>9, PrivateKeeps

LEMMA KillStep == ASSUME IInv, NEW i \in Call, Kill(i) PROVE IInv'
<1> USE DEF IInv, Kill
<1>1. Private(i) BY DEF Private, tempVars, Goto, Live, TypeOK, Stage, ccVars
<1>2. TextInv(i)' BY DEF Goto, TypeOK, TextInv, Passed, Building, Frontend
<1>3. ObjectInv(i)' BY DEF Goto, TypeOK, ObjectInv
<1>4. CCInv(i)' BY DEF Goto, TypeOK, CallInv, CCInv, ccVars, Live
<1>5. OutputInv(i)'
  <2>1. \A j \in Call : pc'[j] = "idle" => pc[j] = "idle" BY <1>1 DEF Private
  <2> QED BY <2>1, AloneBefore DEF CallInv, OutputInv, ccVars, Live, Goto, TypeOK
<1>6. CallInv(i)' BY <1>2, <1>3, <1>4, <1>5 DEF CallInv
<1>9. TypeOK' BY DEF Goto, TypeOK, ccVars, tempVars, Stage
<1> QED BY <1>1, <1>6, <1>9, PrivateKeeps
-----------------------------------------------------------------------------
(***************************************************************************)
(* The steps in the directory.                                             *)
(***************************************************************************)
LEMMA DirectoryStep ==
  ASSUME IInv, NEW i \in Call, CreateWorkdir(i) \/ EmitObject(i) \/ WriteShim(i) \/ Cleanup(i)
  PROVE  IInv'
<1> USE DEF IInv
<1>0. /\ UNCHANGED <<sources, pid, text, ccVars>> /\ i \in Call
      /\ pc[i] \in {"workdir", "object", "shim", "cleanup"} /\ pc[i] \in Building
      /\ \/ pc[i] = "workdir" /\ Goto(i, "object")
         \/ pc[i] = "object" /\ Goto(i, "shim") /\ ObjectIs(i, text[i])
         \/ pc[i] = "shim" /\ Goto(i, "spawn") /\ UNCHANGED objects
         \/ Exit(i, 1)
         \/ pc[i] = "cleanup" /\ Exit(i, 0)
  <2>1. CASE CreateWorkdir(i) BY <2>1 DEF CreateWorkdir, Building, Goto, Exit
  <2>2. CASE EmitObject(i) BY <2>2 DEF EmitObject, Building, Goto, Exit, ObjectIs
  <2>3. CASE WriteShim(i) BY <2>3 DEF WriteShim, Building, Goto, Exit
  <2>4. CASE Cleanup(i) BY <2>4 DEF Cleanup, Building
  <2> QED BY <2>1, <2>2, <2>3, <2>4
<1> USE <1>0
<1>1. \A p \in Pid \ {pid[i]} : objects'[p] = objects[p]
  BY DEF CreateWorkdir, EmitObject, WriteShim, Cleanup, ObjectIs, TypeOK, tempVars
<1>2. Private(i) BY <1>1 DEF Private, Live, Goto, Exit, TypeOK, ccVars
<1>3. text[i] \in Text /\ Name(i) \in Stem
  BY StemAssumption DEF CallInv, TextInv, Building, Name, FileSet
<1>4. objects' \in [Pid -> [Stem -> Text \cup {Absent, Scrap}]]
  <2>1. CASE EmitObject(i)
    <3>1. ASSUME NEW t \in Text \cup {Absent, Scrap}, ObjectIs(i, t)
          PROVE  objects' \in [Pid -> [Stem -> Text \cup {Absent, Scrap}]]
      <4>1. objects' = [objects EXCEPT ![pid[i]] = [objects[pid[i]] EXCEPT ![Name(i)] = t]]
        BY <3>1 DEF ObjectIs
      <4>2. [objects[pid[i]] EXCEPT ![Name(i)] = t] \in [Stem -> Text \cup {Absent, Scrap}]
        BY <1>3 DEF TypeOK
      <4> QED BY <4>1, <4>2 DEF TypeOK
    <3> QED BY <1>3, <2>1, <3>1 DEF EmitObject, TypeOK
  <2>2. CASE CreateWorkdir(i) \/ WriteShim(i) BY <2>2 DEF CreateWorkdir, WriteShim, TypeOK
  <2>3. CASE Cleanup(i)
    <3>1. [m \in Stem |-> Absent] \in [Stem -> Text \cup {Absent, Scrap}] OBVIOUS
    <3> QED BY <2>3, <3>1 DEF Cleanup, TypeOK, tempVars
  <2> QED BY <2>1, <2>2, <2>3
<1>5. workdirs' \in SUBSET Pid /\ shims' \in SUBSET Pid
  BY DEF CreateWorkdir, EmitObject, WriteShim, Cleanup, TypeOK, tempVars
<1>6. TypeOK' BY <1>4, <1>5 DEF TypeOK, Goto, Exit, Stage, Building, ccVars
<1>7. TextInv(i)' BY DEF TextInv, CallInv, Passed, Goto, Exit, TypeOK, Building, Frontend
<1>8. ObjectInv(i)'
  BY <1>3 DEF CallInv, ObjectInv, Goto, Exit, TypeOK, ObjectIs, Name
<1>9. CCInv(i)' BY DEF CallInv, CCInv, Goto, Exit, TypeOK, ccVars
<1>10. OutputInv(i)'
  <2>1. \A j \in Call : pc'[j] = "idle" => pc[j] = "idle" BY <1>2 DEF Private
  <2> QED BY <2>1, AloneBefore DEF CallInv, OutputInv, ccVars, Building
<1>11. CallInv(i)' BY <1>7, <1>8, <1>9, <1>10 DEF CallInv
<1> QED BY <1>2, <1>6, <1>11, PrivateKeeps

-----------------------------------------------------------------------------
(***************************************************************************)
(* A new invocation, the C compiler, and an editor.                        *)
(***************************************************************************)
LEMMA StartStep == ASSUME IInv, NEW i \in Call, Start(i) PROVE IInv'
<1> USE DEF IInv, Start, MayStart
<1>1. pc' = [pc EXCEPT ![i] = "open"] /\ pc[i] = "idle" BY DEF Goto
<1>2. PICK p \in Pid \ InUse : pid' = [pid EXCEPT ![i] = p] OBVIOUS
<1>3. TypeOK' BY <1>1, <1>2 DEF TypeOK, Goto, Stage, tempVars, ccVars
<1>4. PidsApart' BY <1>1, <1>2 DEF PidsApart, Live, InUse, TypeOK
<1>5. ASSUME NEW j \in Call PROVE CallInv(j)'
  <2>1. TextInv(j)' BY <1>1 DEF CallInv, TextInv, Passed, TypeOK, Building, Frontend
  <2>2. ObjectInv(j)'
    BY <1>1, <1>2 DEF CallInv, ObjectInv, TypeOK, tempVars, Name
  <2>3. CCInv(j)' BY <1>1 DEF CallInv, CCInv, TypeOK, ccVars, Goto
  <2>4. OutputInv(j)'
    <3>1. \A k \in Call : pc'[k] = "idle" => pc[k] = "idle" BY <1>1 DEF TypeOK
    <3>2. cc[j] # "none" => pc'[j] = pc[j] BY <1>1 DEF CallInv, CCInv, TypeOK
    <3> QED BY <3>1, <3>2, AloneBefore DEF CallInv, OutputInv, ccVars
  <2> QED BY <2>1, <2>2, <2>3, <2>4 DEF CallInv
<1> QED BY <1>3, <1>4, <1>5

\* cc is a rival to every other build of its output.
LEMMA CCStep == ASSUME IInv, NEW i \in Call, CC(i) PROVE IInv'
<1> USE DEF IInv
<1>0. /\ UNCHANGED <<sources, pc, pid, text, code, tempVars>>
      /\ \A j \in Call \ {i} : cc'[j] = cc[j] /\ linked'[j] = linked[j]
      /\ cc[i] \in {"started", "read", "linking"}
  BY DEF CC, CCRead, CCOpen, CCClose, CCIs, TypeOK
<1> USE <1>0
<1>1. Cmd[i] = "build" /\ pc[i] \in {"wait", "killed"} /\ Output[i] \in Path
  BY OutputAssumption DEF CallInv, CCInv
<1>2. \A o \in Path \ {Output[i]} : outputs'[o] = outputs[o]
  BY <1>1 DEF CC, CCRead, CCOpen, CCClose, At, TypeOK
<1>3. TypeOK'
  <2>1. cc' \in [Call -> CCStage] BY DEF CC, CCRead, CCOpen, CCClose, CCIs, TypeOK, CCStage
  <2>2. linked' \in [Call -> Text \cup {Absent}] BY DEF CC, CCRead, CCOpen, CCClose, TypeOK
  <2>3. outputs' \in [Path -> [by : Call \cup {Absent}, is : Text \cup {Absent, Scrap}]]
    <3>1. CASE CCRead(i) BY <3>1 DEF CCRead, TypeOK
    <3> DEFINE Out == [by : Call \cup {Absent}, is : Text \cup {Absent, Scrap}]
    <3>2. /\ outputs \in [Path -> Out] /\ [by |-> i, is |-> Scrap] \in Out
          /\ [by |-> i, is |-> Absent] \in Out
      BY DEF TypeOK
    <3>3. CASE CCOpen(i) BY <3>2, <3>3, <1>1 DEF CCOpen, At
    <3>4. cc[i] = "linking" => [outputs[Output[i]] EXCEPT !.is = linked[i]] \in Out
      BY <3>2, <1>1 DEF CallInv, CCInv
    <3>5. CASE CCClose(i) BY <3>2, <3>4, <3>5, <1>1 DEF CCClose, At
    <3> QED BY <3>1, <3>3, <3>5 DEF CC
  <2> QED BY <2>1, <2>2, <2>3 DEF TypeOK, tempVars
<1>4. PidsApart' BY DEF PidsApart, Live
<1>5. ASSUME NEW j \in Call PROVE TextInv(j)' /\ ObjectInv(j)'
  BY DEF CallInv, TextInv, Passed, ObjectInv, Name, tempVars
<1>6. CCInv(i)'
  <2>1. CASE CCRead(i)
    BY <2>1 DEF CCRead, CCIs, CallInv, CCInv, ObjectInv, TypeOK
  <2>2. CASE CCOpen(i) BY <2>2 DEF CCOpen, CCIs, CallInv, CCInv, TypeOK
  <2>3. CASE CCClose(i) BY <2>3 DEF CCClose, CCIs, CallInv, CCInv, TypeOK
  <2> QED BY <2>1, <2>2, <2>3 DEF CC
<1>7. OutputInv(i)'
  <2>1. CASE CCRead(i) BY <2>1 DEF CCRead, CCIs, OutputInv, TypeOK
  <2>2. CASE CCOpen(i) BY <2>2, <1>1 DEF CCOpen, CCIs, OutputInv, TypeOK, At
  <2>3. CASE CCClose(i)
    <3>1. Alone(i)' => Alone(i) BY DEF Alone, Builds
    <3>2. pc[i] # "killed" => linked[i] = text[i] BY <2>3 DEF CCClose, CallInv, CCInv
    <3> QED BY <2>3, <3>1, <3>2, <1>1 DEF CCClose, CCIs, CallInv, OutputInv, TypeOK, At
  <2> QED BY <2>1, <2>2, <2>3 DEF CC
<1>8. ASSUME NEW j \in Call \ {i} PROVE CCInv(j)' /\ OutputInv(j)'
  <2>1. CCInv(j)' BY DEF CallInv, CCInv
  <2>2. Alone(j)' => Alone(j) /\ Output[j] # Output[i] BY <1>1 DEF Alone, Builds
  <2>3. OutputInv(j)' BY <2>2, <1>2, OutputAssumption DEF CallInv, OutputInv
  <2> QED BY <2>1, <2>3
<1> QED BY <1>3, <1>4, <1>5, <1>6, <1>7, <1>8 DEF CallInv

LEMMA EditStep == ASSUME IInv, NEW f \in FileSet, Edit(f) PROVE IInv'
<1> USE DEF IInv, Edit
<1>1. UNCHANGED <<pc, pid, text, code, tempVars, ccVars>> OBVIOUS
<1>2. TypeOK' BY DEF TypeOK, tempVars, ccVars
<1>3. PidsApart' BY <1>1 DEF PidsApart, Live
<1>4. ASSUME NEW j \in Call PROVE CallInv(j)'
  BY <1>1 DEF CallInv, TextInv, Passed, ObjectInv, CCInv, OutputInv, Alone, Builds, Name, tempVars, ccVars
<1> QED BY <1>2, <1>3, <1>4

-----------------------------------------------------------------------------
(***************************************************************************)
(* The invariant.                                                          *)
(***************************************************************************)
LEMMA InitEstablishes == Init => IInv
<1> SUFFICES ASSUME Init PROVE IInv OBVIOUS
<1> USE DEF Init
<1>1. (CHOOSE p \in Pid : TRUE) \in Pid BY PidAssumption
<1>2. TypeOK BY <1>1 DEF TypeOK, Stage, CCStage
<1>3. PidsApart BY DEF PidsApart, Live
<1>4. \A i \in Call : CallInv(i)
  BY DEF CallInv, TextInv, Passed, ObjectInv, CCInv, OutputInv, Building, Frontend
<1> QED BY <1>2, <1>3, <1>4 DEF IInv

LEMMA StutterKeeps == ASSUME IInv, UNCHANGED vars PROVE IInv'
BY DEF vars, tempVars, ccVars, IInv, TypeOK, PidsApart, Live, CallInv, TextInv, Passed, ObjectInv,
       CCInv, OutputInv, Alone, Builds, Name

LEMMA NextKeeps == IInv /\ [Next]_vars => IInv'
<1> SUFFICES ASSUME IInv, [Next]_vars PROVE IInv' OBVIOUS
<1>1. ASSUME NEW f \in FileSet, Edit(f) PROVE IInv' BY <1>1, EditStep
<1>2. ASSUME NEW i \in Call, Start(i) PROVE IInv' BY <1>2, StartStep
<1>3. ASSUME NEW i \in Call, Anx(i) PROVE IInv'
  BY <1>3, ReadStep, EarlyStep, DirectoryStep, SpawnStep, ReapStep DEF Anx
<1>4. ASSUME NEW i \in Call, CC(i) PROVE IInv' BY <1>4, CCStep
<1>5. ASSUME NEW i \in Call, Kill(i) PROVE IInv' BY <1>5, KillStep
<1>6. CASE Over \/ UNCHANGED vars BY <1>6, StutterKeeps DEF Over
<1> QED BY <1>1, <1>2, <1>3, <1>4, <1>5, <1>6 DEF Next

LEMMA IInvHolds == Spec => []IInv
BY InitEstablishes, NextKeeps, PTL DEF Spec

\* cc is given this build's own object: however often a process id is used again, and
\* whatever the builds before it left in the directory.
THEOREM OwnObject == Spec => []LinksItsOwn
<1>1. IInv => LinksItsOwn BY DEF IInv, CallInv, CCInv, LinksItsOwn, Live
<1> QED BY <1>1, IInvHolds, PTL

\* A build that exited 0 has its program at its output, unless another build is given
\* the same path.
THEOREM ProgramDelivered == Spec => []BuiltIsThere
<1>1. IInv => BuiltIsThere
  BY DEF IInv, CallInv, CCInv, OutputInv, Alone, BuiltIsThere
<1> QED BY <1>1, IInvHolds, PTL
-----------------------------------------------------------------------------
(***************************************************************************)
(* The refinement.                                                         *)
(***************************************************************************)
LEMMA InitRefines == Init => Deliver!Init
BY DEF Init, Deliver!Init, Job, FileSet

LEMMA StutterRefines == UNCHANGED vars => UNCHANGED Deliver!vars
BY DEF vars, tempVars, ccVars, Deliver!vars

\* A step that changes nothing a caller can see.
LEMMA HiddenRefines ==
  ASSUME UNCHANGED <<sources, text, code, outputs>>, pc \in [Call -> Stage],
         \A i \in Call : Job(pc'[i]) = Job(pc[i]) /\ (cc'[i] = "succeeded" <=> cc[i] = "succeeded")
  PROVE  UNCHANGED Deliver!vars
BY DEF Deliver!vars

\* A step that ends the call with a code its text can have.
LEMMA ExitRefines ==
  ASSUME IInv, NEW i \in Call, NEW c, Exit(i, c), Job(pc[i]) = "taken",
         UNCHANGED <<sources, text, ccVars>>, c \in Deliver!Codes(i)
  PROVE  Deliver!Exit(i)
<1>1. [j \in Call |-> Job(pc'[j])] = [[j \in Call |-> Job(pc[j])] EXCEPT ![i] = "exited"]
  BY DEF IInv, TypeOK, Exit, Job
<1> QED BY <1>1 DEF Deliver!Exit, Exit, ccVars

\* Every step of an invocation that stays under way, or is not seen.
LEMMA OnwardRefines ==
  ASSUME IInv, NEW i \in Call, NEW p, Goto(i, p), Job(pc[i]) = "taken", Job(p) = "taken",
         UNCHANGED <<sources, text, outputs>>,
         \A j \in Call : cc'[j] = "succeeded" <=> cc[j] = "succeeded"
  PROVE  UNCHANGED Deliver!vars
BY HiddenRefines DEF IInv, TypeOK, Goto

LEMMA AnxRefines == ASSUME IInv, NEW i \in Call, Anx(i) PROVE [Deliver!Next]_(Deliver!vars)
<1> USE DEF IInv
<1> DEFINE job == [j \in Call |-> Job(pc[j])]
<1>1. CASE Read(i)
  <2>1. job' = [job EXCEPT ![i] = "taken"] /\ job[i] = "called" BY <1>1 DEF Read, Goto, TypeOK, Job
  <2>2. Deliver!Take(i) BY <1>1, <2>1 DEF Read, Goto, Deliver!Take, ccVars
  <2> QED BY <2>2 DEF Deliver!Next
<1>2. Cmd[i] \in {"check", "run", "build"} BY CmdAssumption
<1>3. CASE Pass(i)
  <2> USE <1>3 DEF Pass
  <2>1. Job(pc[i]) = "taken" /\ Job(Then(i)) = "taken" BY DEF Job, Then, AfterFrontend
  <2>2. CASE FailsAt[text[i]] = pc[i]
    <3>1. 1 \in Deliver!Codes(i) BY <2>2 DEF Deliver!Codes, Deliver!Accepted, Deliver!Reading
    <3>2. Deliver!Exit(i) BY <2>1, <2>2, <3>1, ExitRefines
    <3> QED BY <3>2 DEF Deliver!Next
  <2>3. CASE FailsAt[text[i]] # pc[i] BY <2>1, <2>3, OnwardRefines DEF ccVars
  <2> QED BY <2>2, <2>3
<1>4. pc[i] \in {"report", "interpret"} \cup Building => Deliver!Accepted(text[i])
  BY DEF CallInv, TextInv, Passed, Frontend, Deliver!Accepted, Deliver!Reading, Building
<1>5. CASE Report(i)
  <2>1. 0 \in Deliver!Codes(i) BY <1>4, <1>5 DEF Report, Deliver!Codes, CallInv, TextInv
  <2>2. Deliver!Exit(i) BY <1>5, <2>1, ExitRefines DEF Report, Job
  <2> QED BY <2>2 DEF Deliver!Next
<1>6. CASE Interpret(i)
  <2> DEFINE c == IF FailsAt[text[i]] = "run" THEN 2 ELSE IF FailsAt[text[i]] = "interpreter" THEN 101 ELSE 0
  <2>1. c \in Deliver!Codes(i) BY <1>4, <1>6 DEF Interpret, Deliver!Codes, CallInv, TextInv
  <2>2. Exit(i, c) /\ Job(pc[i]) = "taken" /\ UNCHANGED <<sources, text, ccVars>> BY <1>6 DEF Interpret, Job
  <2>3. Deliver!Exit(i) BY ONLY IInv, <2>1, <2>2, ExitRefines, i \in Call
  <2> QED BY <2>3 DEF Deliver!Next
<1>7. CASE pc[i] \in Building
  <2>1. Job(pc[i]) = "taken" /\ Cmd[i] = "build" BY <1>7 DEF Building, Job, CallInv, TextInv
  <2>2. pc[i] # "codegen" => 1 \in Deliver!Codes(i)
    BY <1>4, <1>7, <2>1 DEF Deliver!Codes, CallInv, TextInv, Passed
  <2>3. CASE Exit(i, 1) /\ pc[i] # "codegen" /\ UNCHANGED <<sources, text, ccVars>>
    BY <2>1, <2>2, <2>3, ExitRefines DEF Deliver!Next
  <2>4. CASE Generate(i)
    <3>1. FailsAt[text[i]] = "codegen" => 101 \in Deliver!Codes(i)
      BY <1>4, <1>7, <2>1 DEF Deliver!Codes
    <3>2. CASE Exit(i, 101) /\ FailsAt[text[i]] = "codegen"
      BY <2>1, <2>4, <3>1, <3>2, ExitRefines DEF Generate, Deliver!Next
    <3>3. CASE Goto(i, "verify") BY <2>1, <2>4, <3>3, OnwardRefines DEF Generate, Job, ccVars
    <3> QED BY <2>4, <3>2, <3>3 DEF Generate
  <2>5. CASE Cleanup(i)
    <3>1. 0 \in Deliver!Codes(i)
      BY <1>4, <1>7, <2>1, <2>5 DEF Cleanup, Deliver!Codes, CallInv, CCInv, TextInv, Passed
    <3> QED BY <2>1, <2>5, <3>1, ExitRefines DEF Cleanup, Deliver!Next
  <2>6. CASE /\ \E p \in Building : Goto(i, p)
             /\ UNCHANGED <<sources, text, outputs>>
             /\ \A j \in Call : cc'[j] = "succeeded" <=> cc[j] = "succeeded"
    <3>1. \A p \in Building : Job(p) = "taken" BY DEF Building, Job
    <3> QED BY <2>1, <2>6, <3>1, OnwardRefines
  <2>7. CASE SpawnCC(i)
    <3>1. cc[i] = "none" BY <2>7 DEF SpawnCC, CallInv, CCInv, TypeOK
    <3>2. \A j \in Call : cc'[j] = "succeeded" <=> cc[j] = "succeeded" BY <2>7, <3>1 DEF SpawnCC, TypeOK
    <3> QED BY <2>3, <2>6, <2>7, <3>2 DEF SpawnCC, Building, ccVars
  <2>8. CASE Verify(i) \/ InitTarget(i) BY <2>3, <2>6, <2>8 DEF Verify, InitTarget, Building, ccVars
  <2>9. CASE CreateWorkdir(i) \/ EmitObject(i) \/ WriteShim(i) \/ Reap(i)
    BY <2>3, <2>6, <2>9 DEF CreateWorkdir, EmitObject, WriteShim, Reap, Building, ccVars
  <2>10. ~(Pass(i) \/ Read(i) \/ Report(i) \/ Interpret(i))
    BY <1>7 DEF Pass, Read, Report, Interpret, Building
  <2> QED BY <2>4, <2>5, <2>7, <2>8, <2>9, <2>10 DEF Anx
<1>8. pc[i] \in Building \/ Read(i) \/ Pass(i) \/ Report(i) \/ Interpret(i)
  BY DEF Anx, Generate, Verify, InitTarget, CreateWorkdir, EmitObject, WriteShim, SpawnCC, Reap, Cleanup, Building
<1> QED BY <1>1, <1>3, <1>5, <1>6, <1>7, <1>8
\* The linker: what it leaves at the output is a spoiling, a delivery, or a stray text.
LEMMA CCRefines == ASSUME IInv, NEW i \in Call, CC(i) PROVE [Deliver!Next]_(Deliver!vars)
<1> USE DEF IInv
<1> DEFINE out == [o \in Path |-> outputs[o].is]
           done == {j \in Call : cc[j] = "succeeded"}
<1>1. /\ Output[i] \in Path /\ Cmd[i] = "build" /\ pc[i] \in {"wait", "killed"}
      /\ text[i] \in Text /\ FailsAt[text[i]] \notin Frontend
  BY OutputAssumption DEF CC, CCRead, CCOpen, CCClose, CallInv, CCInv
<1>2. Deliver!Builds(i)
  BY <1>1 DEF Deliver!Builds, Deliver!Accepted, Deliver!Reading, Frontend, Job
<1>3. ASSUME UNCHANGED out, UNCHANGED done, UNCHANGED <<sources, pc, text, code>>
      PROVE  UNCHANGED Deliver!vars
  BY <1>3 DEF Deliver!vars
<1>4. ASSUME NEW s \in {Absent, Scrap}, out' = [out EXCEPT ![Output[i]] = s], UNCHANGED done,
             UNCHANGED <<sources, pc, text, code>>
      PROVE  Deliver!Next
  <2>1. Deliver!Spoil(i) BY <1>2, <1>4 DEF Deliver!Spoil
  <2> QED BY <2>1 DEF Deliver!Next
<1>5. CASE CCRead(i)
  <2>1. UNCHANGED out /\ UNCHANGED done BY <1>5 DEF CCRead, CCIs, TypeOK
  <2> QED BY <1>3, <1>5, <2>1 DEF CCRead
<1>6. CASE CCOpen(i)
  <2>1. UNCHANGED done BY <1>6 DEF CCOpen, CCIs, TypeOK
  <2>2. CASE outputs' = outputs BY <1>3, <1>6, <2>1, <2>2 DEF CCOpen
  <2>3. CASE outputs' = [outputs EXCEPT ![Output[i]] = [by |-> i, is |-> Scrap]]
    <3>1. out' = [out EXCEPT ![Output[i]] = Scrap] BY <1>1, <2>3 DEF TypeOK
    <3> QED BY <1>4, <1>6, <2>1, <3>1 DEF CCOpen
  <2> QED BY <1>6, <2>2, <2>3 DEF CCOpen, At
<1>7. CASE CCClose(i) /\ cc' = [cc EXCEPT ![i] = "failed"]
  <2>1. UNCHANGED done BY <1>7 DEF CCClose, TypeOK
  <2>2. CASE outputs' = outputs BY <1>3, <1>7, <2>1, <2>2 DEF CCClose
  <2>3. CASE outputs' = [outputs EXCEPT ![Output[i]] = [by |-> i, is |-> Absent]]
    <3>1. out' = [out EXCEPT ![Output[i]] = Absent] BY <1>1, <2>3 DEF TypeOK
    <3> QED BY <1>4, <1>7, <2>1, <3>1 DEF CCClose
  <2>4. cc[i] = "linking" /\ cc'[i] = "failed" BY <1>7 DEF CCClose, TypeOK
  <2> QED BY <1>7, <2>2, <2>3, <2>4 DEF CCClose, CCIs, At, TypeOK
<1>8. CASE CCClose(i) /\ cc' = [cc EXCEPT ![i] = "succeeded"]
  <2>1. cc[i] = "linking" BY <1>8 DEF CCClose
  <2>2. done' = done \cup {i} BY <1>8 DEF CCClose, TypeOK
  <2>3. outputs' = IF outputs[Output[i]].by = i THEN [outputs EXCEPT ![Output[i]].is = linked[i]] ELSE outputs
    BY <1>8 DEF CCClose, CCIs, At, TypeOK
  <2>4. linked[i] \in Text /\ (pc[i] # "killed" => linked[i] = text[i]) BY <2>1 DEF CallInv, CCInv
  <2>5. CASE outputs[Output[i]].by = i
    <3>1. out' = [out EXCEPT ![Output[i]] = linked[i]] BY <1>1, <2>3, <2>5 DEF TypeOK
    <3>2. CASE pc[i] = "killed"
      <4>1. Deliver!Stray(i) BY <1>2, <1>8, <2>2, <2>4, <3>1, <3>2 DEF Deliver!Stray, CCClose, Job
      <4> QED BY <4>1 DEF Deliver!Next
    <3>3. CASE pc[i] = "wait"
      <4>1. Deliver!Deliver(i) BY <1>2, <1>8, <2>2, <2>4, <3>1, <3>3 DEF Deliver!Deliver, CCClose, Job
      <4> QED BY <4>1 DEF Deliver!Next
    <3> QED BY <1>1, <3>2, <3>3
  <2>6. CASE outputs[Output[i]].by # i
    <3>1. out' = out BY <2>3, <2>6
    <3>2. CASE pc[i] = "killed"
      <4>1. Deliver!Stray(i) BY <1>2, <1>8, <2>2, <3>1, <3>2 DEF Deliver!Stray, CCClose, Job
      <4> QED BY <4>1 DEF Deliver!Next
    <3>3. CASE pc[i] = "wait"
      <4>1. ~Alone(i) BY <2>1, <2>6 DEF CallInv, OutputInv
      <4>2. Deliver!Rivals(i) # {} BY <4>1 DEF Alone, Builds, Deliver!Rivals, Job, TypeOK
      <4>3. Deliver!Deliver(i) BY <1>2, <1>8, <2>2, <3>1, <3>3, <4>2 DEF Deliver!Deliver, CCClose, Job
      <4> QED BY <4>3 DEF Deliver!Next
    <3> QED BY <1>1, <3>2, <3>3
  <2> QED BY <2>5, <2>6
<1> QED BY <1>5, <1>6, <1>7, <1>8 DEF CC, CCClose, CCIs

LEMMA OutsideRefines ==
  ASSUME IInv, NEW i \in Call, Start(i) \/ Kill(i) PROVE [Deliver!Next]_(Deliver!vars)
<1> USE DEF IInv
<1> DEFINE job == [j \in Call |-> Job(pc[j])]
<1>1. CASE Start(i)
  <2>1. job' = [job EXCEPT ![i] = "called"] /\ job[i] = "idle"
    BY <1>1 DEF Start, MayStart, Goto, TypeOK, Job
  <2>2. Deliver!Begin(i) BY <1>1, <2>1 DEF Start, Goto, Deliver!Begin, ccVars
  <2> QED BY <2>2 DEF Deliver!Next
<1>2. CASE Kill(i)
  <2>1. job' = [job EXCEPT ![i] = "killed"] /\ job[i] \in {"called", "taken"}
    BY <1>2 DEF Kill, Live, Goto, TypeOK, Job
  <2>2. Deliver!Kill(i) BY <1>2, <2>1 DEF Kill, Goto, Deliver!Kill, ccVars
  <2> QED BY <2>2 DEF Deliver!Next
<1> QED BY <1>1, <1>2

LEMMA EditRefines == ASSUME NEW f \in FileSet, Edit(f) PROVE Deliver!Next
<1>1. Deliver!Edit(f) BY DEF Edit, Deliver!Edit, ccVars
<1> QED BY <1>1 DEF Deliver!Next, FileSet

LEMMA NextRefines == IInv /\ [Next]_vars => [Deliver!Next]_(Deliver!vars)
<1> SUFFICES ASSUME IInv, [Next]_vars PROVE [Deliver!Next]_(Deliver!vars) OBVIOUS
<1>1. ASSUME NEW f \in FileSet, Edit(f) PROVE Deliver!Next BY <1>1, EditRefines
<1>2. ASSUME NEW i \in Call, Start(i) \/ Kill(i) PROVE [Deliver!Next]_(Deliver!vars)
  BY <1>2, OutsideRefines
<1>3. ASSUME NEW i \in Call, Anx(i) PROVE [Deliver!Next]_(Deliver!vars) BY <1>3, AnxRefines
<1>4. ASSUME NEW i \in Call, CC(i) PROVE [Deliver!Next]_(Deliver!vars) BY <1>4, CCRefines
<1>5. CASE Over \/ UNCHANGED vars BY <1>5, StutterRefines DEF Over
<1> QED BY <1>1, <1>2, <1>3, <1>4, <1>5 DEF Next

\* The pipeline implements AnxDeliver: every exit code is one the text that was read
\* earns, and a build that exits 0 has delivered that text's executable.
THEOREM PipelineImplements == Spec => Implements
BY InitRefines, NextRefines, IInvHolds, PTL DEF Spec, Implements, Deliver!Spec
-----------------------------------------------------------------------------
(***************************************************************************)
(* Who writes.                                                             *)
(***************************************************************************)
\* What a step may do to the shared state in the name of one invocation: a build whose
\* text has passed the frontend writes its own output and its own directory.
Accepted(i)   == Cmd[i] = "build" /\ text[i] \in Text /\ FailsAt[text[i]] \notin Frontend
WritesOwn(i)  == /\ \A o \in Path \ {Output[i]} : outputs'[o] = outputs[o]
                 /\ \A p \in Pid \ {pid[i]} : objects'[p] = objects[p]
WritesNothing == UNCHANGED <<tempVars, outputs>>

\* In the directory: no step writes before the text is accepted.
LEMMA AnxWrites ==
  ASSUME IInv, NEW i \in Call, Anx(i)
  PROVE  WritesNothing \/ (Accepted(i) /\ WritesOwn(i))
<1> USE DEF IInv
<1>1. Read(i) \/ Pass(i) \/ Report(i) \/ Interpret(i) => WritesNothing
  BY DEF Read, Pass, Report, Interpret, WritesNothing, ccVars
<1>2. Generate(i) \/ Verify(i) \/ InitTarget(i) \/ Reap(i) => WritesNothing
  BY DEF Generate, Verify, InitTarget, Reap, WritesNothing, ccVars
<1>3. SpawnCC(i) => WritesNothing BY DEF SpawnCC, WritesNothing
<1>4. CASE CreateWorkdir(i) \/ EmitObject(i) \/ WriteShim(i) \/ Cleanup(i)
  <2>1. pc[i] \in Building /\ UNCHANGED outputs
    BY <1>4 DEF CreateWorkdir, EmitObject, WriteShim, Cleanup, Building, ccVars
  <2>2. Accepted(i) BY <2>1 DEF Accepted, CallInv, TextInv, Passed, Building
  <2>3. \A p \in Pid \ {pid[i]} : objects'[p] = objects[p]
    BY <1>4 DEF CreateWorkdir, EmitObject, WriteShim, Cleanup, ObjectIs, TypeOK, tempVars
  <2> QED BY <2>1, <2>2, <2>3 DEF WritesOwn
<1> QED BY <1>1, <1>2, <1>3, <1>4 DEF Anx

\* At the output: a linker is a build's, whether its anx still lives or not.
LEMMA CCWrites ==
  ASSUME IInv, NEW i \in Call, CC(i)
  PROVE  Accepted(i) /\ WritesOwn(i)
<1> USE DEF IInv
<1>1. Accepted(i) BY DEF CC, CCRead, CCOpen, CCClose, CallInv, CCInv, Accepted
<1>2. UNCHANGED tempVars BY DEF CC, CCRead, CCOpen, CCClose
<1>3. \A o \in Path \ {Output[i]} : outputs'[o] = outputs[o]
  BY DEF CC, CCRead, CCOpen, CCClose, At, TypeOK
<1> QED BY <1>1, <1>2, <1>3 DEF WritesOwn, tempVars

LEMMA NextWrites ==
  IInv /\ [Next]_vars => WritesNothing \/ (\E i \in Call : Accepted(i) /\ WritesOwn(i))
<1> SUFFICES ASSUME IInv, [Next]_vars
             PROVE  WritesNothing \/ (\E i \in Call : Accepted(i) /\ WritesOwn(i))
  OBVIOUS
<1>1. ASSUME NEW f \in FileSet, Edit(f) PROVE WritesNothing
  BY <1>1 DEF Edit, WritesNothing, tempVars, ccVars
<1>2. ASSUME NEW i \in Call, Start(i) \/ Kill(i) PROVE WritesNothing
  BY <1>2 DEF Start, Kill, WritesNothing, tempVars, ccVars
<1>3. CASE Over \/ UNCHANGED vars BY <1>3 DEF Over, WritesNothing, vars, tempVars, ccVars
<1> QED BY <1>1, <1>2, <1>3, AnxWrites, CCWrites DEF Next

\* Nothing is written, to the temporary directory or to an output, but by a build whose
\* text has passed the frontend, and then only in its own directory and at its own
\* output: for any number of invocations, linkers left running included.
THEOREM RejectedWritesNothing == Spec => OnlyAcceptedBuildsWrite
<1>1. IInv /\ [Next]_vars
      => [<<tempVars, outputs>>' # <<tempVars, outputs>> =>
            \E i \in Call : /\ Cmd[i] = "build" /\ text[i] \in Text /\ FailsAt[text[i]] \notin Frontend
                            /\ \A o \in Path \ {Output[i]} : outputs'[o] = outputs[o]
                            /\ \A p \in Pid \ {pid[i]} : objects'[p] = objects[p]]_vars
  BY NextWrites DEF WritesNothing, Accepted, WritesOwn
<1> QED BY <1>1, IInvHolds, PTL DEF Spec, OnlyAcceptedBuildsWrite
===============================================================================
