------------------------------ MODULE AnxPipeline ------------------------------
(***************************************************************************)
(* The anx command (cli.rs): any number of invocations at once, over files *)
(* that are edited meanwhile.  `build` hands its object file and the C     *)
(* shim to the system's `cc` in a directory named for the process id;      *)
(* a build that fails or is killed leaves the directory, its cc may run    *)
(* on, and a later process may be given the same id.                       *)
(***************************************************************************)
EXTENDS Naturals, FiniteSets

CONSTANTS
  Call, Cmd, File, Output, Path, Text, FailsAt, Absent, Scrap,  \* as in AnxDeliver
  Pid,     \* the ids the system gives processes
  Stem,    \* the file stems, which name the object files
  StemOf,  \* the stem of a file
  MaxCalls \* bound: how many invocations there are

ASSUME CmdAssumption     == Cmd \in [Call -> {"check", "run", "build"}]
ASSUME OutputAssumption  == Output \in [Call -> Path]
ASSUME TextAssumption    == Absent \notin Text /\ Scrap \notin Text
ASSUME PidAssumption     == Pid # {}
ASSUME StemAssumption    == StemOf \in [{File[i] : i \in Call} -> Stem]

VARIABLES
  sources,   \* what each file holds
  pc,        \* what each invocation is about to do
  pid,       \* its process id
  text,      \* what it read
  code,      \* its exit code
  workdirs,  \* the ids whose anx-build-<pid> is there
  objects,   \* what the object files of each directory were made of
  shims,     \* the directories with a whole anx_runtime.c
  cc,        \* the C compiler an invocation started
  linked,    \* what that has read
  outputs    \* each output path: what it holds, and who opened it last

tempVars == <<workdirs, objects, shims>>
ccVars   == <<cc, linked, outputs>>
vars     == <<sources, pc, pid, text, code, tempVars, ccVars>>

FileSet == {File[i] : i \in Call}
Live(i) == pc[i] \notin {"idle", "exited", "killed"}
InUse   == {pid[i] : i \in {j \in Call : Live(j)}}
Name(i) == StemOf[File[i]]    \* module_name

Goto(i, p) == pc' = [pc EXCEPT ![i] = p] /\ UNCHANGED code
Exit(i, c) == pc' = [pc EXCEPT ![i] = "exited"] /\ code' = [code EXCEPT ![i] = c]

(***************************************************************************)
(* frontend, and what main does with its answer.                           *)
(***************************************************************************)
\* The system starts an invocation.
MayStart(i) == pc[i] = "idle" /\ Cardinality({j \in Call : pc[j] # "idle"}) < MaxCalls
Start(i) == /\ MayStart(i) /\ Goto(i, "open")
            /\ \E p \in Pid \ InUse : pid' = [pid EXCEPT ![i] = p]
            /\ UNCHANGED <<sources, text, tempVars, ccVars>>

\* The file is read once, whole.
Read(i) == /\ pc[i] = "open" /\ Goto(i, "read")
           /\ text' = [text EXCEPT ![i] = sources[File[i]]]
           /\ UNCHANGED <<sources, pid, tempVars, ccVars>>

AfterFrontend(i) == IF Cmd[i] = "check" THEN "report"
                    ELSE IF Cmd[i] = "run" THEN "interpret" ELSE "codegen"

\* A slip: the tree is not checked.
ThenUnchecked(i) == IF pc[i] = "read" THEN "lex"
                    ELSE IF pc[i] = "lex" THEN "parse" ELSE AfterFrontend(i)
Then(i) == IF pc[i] = "read" THEN "lex"
           ELSE IF pc[i] = "lex" THEN "parse"
           ELSE IF pc[i] = "parse" THEN "analyze" ELSE AfterFrontend(i)

\* The reading, lex, parse and analyze: the first error ends the invocation.
Pass(i) == /\ pc[i] \in {"read", "lex", "parse", "analyze"}
           /\ IF FailsAt[text[i]] = pc[i] THEN Exit(i, 1) ELSE Goto(i, Then(i))
           /\ UNCHANGED <<sources, pid, text, tempVars, ccVars>>

Report(i) == /\ pc[i] = "report" /\ Exit(i, 0)
             /\ UNCHANGED <<sources, pid, text, tempVars, ccVars>>

\* run: a runtime error is 2; where the interpreter panics it is Rust's 101.
Interpret(i) == /\ pc[i] = "interpret"
                /\ Exit(i, IF FailsAt[text[i]] = "run" THEN 2
                           ELSE IF FailsAt[text[i]] = "interpreter" THEN 101 ELSE 0)
                /\ UNCHANGED <<sources, pid, text, tempVars, ccVars>>

(***************************************************************************)
(* build_native.  Every error is a return: exit 1 with things as they are. *)
(***************************************************************************)
Generate(i) == /\ pc[i] = "codegen"
               /\ IF FailsAt[text[i]] = "codegen" THEN Exit(i, 101) ELSE Goto(i, "verify")
               /\ UNCHANGED <<sources, pid, text, tempVars, ccVars>>

Verify(i) == /\ pc[i] = "verify"
             /\ IF FailsAt[text[i]] = "verify" THEN Exit(i, 1) ELSE Goto(i, "target")
             /\ UNCHANGED <<sources, pid, text, tempVars, ccVars>>

InitTarget(i) == /\ pc[i] = "target" /\ (Goto(i, "workdir") \/ Exit(i, 1))
                 /\ UNCHANGED <<sources, pid, text, tempVars, ccVars>>

\* create_dir_all is content with a directory that is there, whatever is in it.
CreateWorkdir(i) ==
  /\ pc[i] = "workdir"
  /\ \/ workdirs' = workdirs \cup {pid[i]} /\ Goto(i, "object")
     \/ workdirs' = workdirs /\ Exit(i, 1)
  /\ UNCHANGED <<sources, pid, text, objects, shims, ccVars>>

\* A slip: one directory for all builds.
ObjectShared(i, t) == objects' = [p \in Pid |-> [objects[p] EXCEPT ![Name(i)] = t]]
ObjectIs(i, t) == objects' = [objects EXCEPT ![pid[i]][Name(i)] = t]

\* A failed write may have left the file as it was, or part of a new one.  A slip: the
\* error is dropped, and the build goes on.
EmitCareless(i) ==
  /\ pc[i] = "object"
  /\ ObjectIs(i, text[i]) \/ objects' = objects
  /\ Goto(i, "shim")
  /\ UNCHANGED <<sources, pid, text, workdirs, shims, ccVars>>
EmitObject(i) ==
  /\ pc[i] = "object"
  /\ \/ ObjectIs(i, text[i]) /\ Goto(i, "shim")
     \/ (ObjectIs(i, Scrap) \/ objects' = objects) /\ Exit(i, 1)
  /\ UNCHANGED <<sources, pid, text, workdirs, shims, ccVars>>

WriteShim(i) ==
  /\ pc[i] = "shim"
  /\ \/ shims' = shims \cup {pid[i]} /\ Goto(i, "spawn")
     \/ shims' \in {shims, shims \ {pid[i]}} /\ Exit(i, 1)
  /\ UNCHANGED <<sources, pid, text, workdirs, objects, ccVars>>

SpawnCC(i) ==
  /\ pc[i] = "spawn"
  /\ \/ cc' = [cc EXCEPT ![i] = "started"] /\ Goto(i, "wait")
     \/ cc' = cc /\ Exit(i, 1)
  /\ UNCHANGED <<sources, pid, text, tempVars, linked, outputs>>

\* A slip: only success is waited for.  Another: the status is not looked at.
ReapSuccess(i) ==
  /\ pc[i] = "wait" /\ cc[i] = "succeeded" /\ Goto(i, "cleanup")
  /\ UNCHANGED <<sources, pid, text, tempVars, ccVars>>
ReapAny(i) ==
  /\ pc[i] = "wait" /\ cc[i] \in {"succeeded", "failed"} /\ Goto(i, "cleanup")
  /\ UNCHANGED <<sources, pid, text, tempVars, ccVars>>
Reap(i) ==
  /\ pc[i] = "wait"
  /\ \/ cc[i] = "succeeded" /\ Goto(i, "cleanup")
     \/ cc[i] = "failed" /\ Exit(i, 1)
  /\ UNCHANGED <<sources, pid, text, tempVars, ccVars>>

\* remove_dir_all; that it failed is of no interest.
Cleanup(i) ==
  /\ pc[i] = "cleanup" /\ Exit(i, 0)
  /\ \/ /\ workdirs' = workdirs \ {pid[i]} /\ shims' = shims \ {pid[i]}
        /\ objects' = [objects EXCEPT ![pid[i]] = [m \in Stem |-> Absent]]
     \/ UNCHANGED tempVars
  /\ UNCHANGED <<sources, pid, text, ccVars>>

Kill(i) == Live(i) /\ Goto(i, "killed") /\ UNCHANGED <<sources, pid, text, tempVars, ccVars>>

(***************************************************************************)
(* The C compiler, which outlives an anx that is killed.  It opens a new   *)
(* file at the output path: what another linker has open is that one's     *)
(* own, and no longer at the path.                                         *)
(***************************************************************************)
At(i) == Output[i]
CCIs(i, s) == cc' = [cc EXCEPT ![i] = s]

CCRead(i) ==
  /\ cc[i] = "started"
  /\ LET t == objects[pid[i]][Name(i)]
     IN  IF t \in Text /\ pid[i] \in shims
         THEN (CCIs(i, "read") /\ linked' = [linked EXCEPT ![i] = t])
         ELSE CCIs(i, "failed") /\ linked' = linked
  /\ UNCHANGED <<sources, pc, pid, text, code, tempVars, outputs>>

CCOpen(i) ==
  /\ cc[i] = "read"
  /\ \/ CCIs(i, "failed") /\ outputs' = outputs
     \/ CCIs(i, "linking") /\ outputs' = [outputs EXCEPT ![At(i)] = [by |-> i, is |-> Scrap]]
  /\ UNCHANGED <<sources, pc, pid, text, code, tempVars, linked>>

CCClose(i) ==
  /\ cc[i] = "linking"
  /\ \/ /\ CCIs(i, "succeeded")
        /\ outputs' = IF outputs[At(i)].by = i THEN [outputs EXCEPT ![At(i)].is = linked[i]]
                      ELSE outputs
     \/ /\ CCIs(i, "failed")
        /\ outputs' \in {outputs, [outputs EXCEPT ![At(i)] = [by |-> i, is |-> Absent]]}
  /\ UNCHANGED <<sources, pc, pid, text, code, tempVars, linked>>

(***************************************************************************)
(* The specification.                                                      *)
(***************************************************************************)
\* An edit that no invocation is still to see is left out.
Edit(f) == /\ \E i \in Call : (MayStart(i) \/ pc[i] = "open") /\ File[i] = f
           /\ \E t \in Text : sources' = [sources EXCEPT ![f] = t]
           /\ UNCHANGED <<pc, pid, text, code, tempVars, ccVars>>

Init == /\ sources \in [FileSet -> Text]
        /\ pc = [i \in Call |-> "idle"] /\ pid \in [Call -> {CHOOSE p \in Pid : TRUE}]
        /\ text = [i \in Call |-> Absent] /\ code = [i \in Call |-> 0]
        /\ workdirs = {} /\ objects = [p \in Pid |-> [m \in Stem |-> Absent]] /\ shims = {}
        /\ cc = [i \in Call |-> "none"] /\ linked = [i \in Call |-> Absent]
        /\ outputs = [o \in Path |-> [by |-> Absent, is |-> Absent]]

Anx(i) == \/ Read(i) \/ Pass(i) \/ Report(i) \/ Interpret(i) \/ Generate(i) \/ Verify(i)
          \/ InitTarget(i) \/ CreateWorkdir(i) \/ EmitObject(i) \/ WriteShim(i)
          \/ SpawnCC(i) \/ Reap(i) \/ Cleanup(i)
CC(i)  == CCRead(i) \/ CCOpen(i) \/ CCClose(i)

\* Every invocation is over, and every cc.
Over == /\ \A i \in Call : ~MayStart(i) /\ ~Live(i) /\ cc[i] \in {"none", "succeeded", "failed"}
        /\ UNCHANGED vars

Next == \/ \E f \in FileSet : Edit(f)
        \/ \E i \in Call : Start(i) \/ Anx(i) \/ CC(i) \/ Kill(i)
        \/ Over

\* The system runs every process that can run, and cc ends.
Fairness == \A i \in Call : WF_vars(Anx(i)) /\ WF_vars(CC(i))
Spec == Init /\ [][Next]_vars
FairSpec == Spec /\ Fairness

-----------------------------------------------------------------------------
(***************************************************************************)
(* Properties.                                                             *)
(***************************************************************************)
Job(p) == IF p \in {"idle", "exited", "killed"} THEN p ELSE IF p = "open" THEN "called" ELSE "taken"

Deliver == INSTANCE AnxDeliver WITH
             job       <- [i \in Call |-> Job(pc[i])],
             outputs   <- [o \in Path |-> outputs[o].is],
             delivered <- {i \in Call : cc[i] = "succeeded"}

\* However invocations, edits, kills and the linkers they leave running interleave,
\* each exit code is one the text that was read earns, and a build that exits 0 has
\* delivered that text's executable: the pipeline implements AnxDeliver.
Implements == Deliver!Spec

\* cc is given this build's object, never one that a failed or killed build of the
\* same process id left in the directory, nor another build's.
LinksItsOwn ==
  \A i \in Call : Live(i) /\ cc[i] \in {"read", "linking", "succeeded"} => linked[i] = text[i]

\* A build that exited 0 has its program at its output, for as long as no other build
\* is given the same path.
Builds(j, o) == Cmd[j] = "build" /\ Output[j] = o /\ pc[j] # "idle"
BuiltIsThere ==
  \A i \in Call : /\ Cmd[i] = "build" /\ pc[i] = "exited" /\ code[i] = 0
                  /\ \A j \in Call \ {i} : ~Builds(j, Output[i])
                  => outputs[Output[i]].is = text[i]

\* Nothing is written, to the temporary directory or to an output, but by a build whose
\* text has passed the frontend: an error in it touches no earlier executable.
Frontend == {"read", "lex", "parse", "analyze"}
OnlyAcceptedBuildsWrite ==
  [][<<tempVars, outputs>>' # <<tempVars, outputs>> =>
       \E i \in Call : /\ Cmd[i] = "build" /\ text[i] \in Text /\ FailsAt[text[i]] \notin Frontend
                       /\ \A o \in Path \ {Output[i]} : outputs'[o] = outputs[o]
                       /\ \A p \in Pid \ {pid[i]} : objects'[p] = objects[p]]_vars

\* Every invocation comes to an end of its own, unless it is killed.
EveryCallAnswers ==
  \A i \in Call : pc[i] = "open" ~> pc[i] \in {"exited", "killed"}
===============================================================================
