------------------------------ MODULE AnxDeliver ------------------------------
(***************************************************************************)
(* What anx promises whoever calls it: the exit code says what became of   *)
(* the text the file held at some moment of the call, and an exit of 0     *)
(* from `anx build` says that the executable of that text was delivered.   *)
(* How it is made, and where, is AnxPipeline's.                            *)
(***************************************************************************)
CONSTANTS
  Call,      \* the invocations of anx
  Cmd,       \* what each asks for: check, run or build
  File,      \* the file it is given
  Output,    \* the output path it is given, of a build
  Path,      \* the output paths
  Text,      \* what a file can hold
  FailsAt,   \* the pass that gives a text up, or "none"
  Absent,    \* no output there
  Scrap      \* an output that is not an executable

VARIABLES
  sources,    \* what each file holds
  outputs,    \* what each output path holds
  job,        \* idle, called, taken; exited or killed
  text,       \* the text a call is about
  code,       \* its exit code
  delivered   \* the builds whose executable was written

vars == <<sources, outputs, job, text, code, delivered>>

Reading   == {"read", "lex", "parse", "analyze"}
Accepted(t) == t \in Text /\ FailsAt[t] \notin Reading

\* The exit codes a call may have.  A failed build is 1 whatever the text.
Codes(i) ==
  LET t == text[i]
  IN  IF ~Accepted(t) THEN {1}
      ELSE IF Cmd[i] = "check" THEN {0}
      ELSE IF Cmd[i] = "run"
           THEN {IF FailsAt[t] = "run" THEN 2 ELSE IF FailsAt[t] = "interpreter" THEN 101 ELSE 0}
      ELSE IF FailsAt[t] = "codegen" THEN {101}
      ELSE {1} \cup {c \in {0} : i \in delivered}

Builds(i) == Cmd[i] = "build" /\ job[i] \in {"taken", "killed"} /\ Accepted(text[i])
Rivals(i) == {j \in Call : j # i /\ Cmd[j] = "build" /\ Output[j] = Output[i] /\ job[j] # "idle"}

Edit(f) == /\ \E t \in Text : sources' = [sources EXCEPT ![f] = t]
           /\ UNCHANGED <<outputs, job, text, code, delivered>>

Begin(i) == /\ job[i] = "idle" /\ job' = [job EXCEPT ![i] = "called"]
            /\ UNCHANGED <<sources, outputs, text, code, delivered>>

Take(i) == /\ job[i] = "called" /\ job' = [job EXCEPT ![i] = "taken"]
           /\ text' = [text EXCEPT ![i] = sources[File[i]]]
           /\ UNCHANGED <<sources, outputs, code, delivered>>

\* A build under way may leave anything but an executable at its output.
Spoil(i) == /\ Builds(i)
            /\ \E s \in {Absent, Scrap} : outputs' = [outputs EXCEPT ![Output[i]] = s]
            /\ UNCHANGED <<sources, job, text, code, delivered>>

\* It delivers its text's executable; a rival may have taken the output since.
Deliver(i) == /\ Builds(i) /\ job[i] = "taken"
              /\ delivered' = delivered \cup {i}
              /\ \/ outputs' = [outputs EXCEPT ![Output[i]] = text[i]]
                 \/ Rivals(i) # {} /\ outputs' = outputs
              /\ UNCHANGED <<sources, job, text, code>>

\* Nothing is promised of what a killed build's linker leaves behind.
Stray(i) == /\ Builds(i) /\ job[i] = "killed"
            /\ \/ outputs' = outputs
               \/ \E t \in Text : outputs' = [outputs EXCEPT ![Output[i]] = t]
            /\ delivered' = delivered \cup {i}
            /\ UNCHANGED <<sources, job, text, code>>

Exit(i) == /\ job[i] = "taken" /\ job' = [job EXCEPT ![i] = "exited"]
           /\ \E c \in Codes(i) : code' = [code EXCEPT ![i] = c]
           /\ UNCHANGED <<sources, outputs, text, delivered>>

Kill(i) == /\ job[i] \in {"called", "taken"} /\ job' = [job EXCEPT ![i] = "killed"]
           /\ UNCHANGED <<sources, outputs, text, code, delivered>>

Init == /\ sources \in [{File[i] : i \in Call} -> Text]
        /\ outputs = [o \in Path |-> Absent]
        /\ job = [i \in Call |-> "idle"]
        /\ text = [i \in Call |-> Absent]
        /\ code = [i \in Call |-> 0]
        /\ delivered = {}

Next == \/ \E f \in {File[i] : i \in Call} : Edit(f)
        \/ \E i \in Call : \/ Begin(i) \/ Take(i) \/ Spoil(i) \/ Deliver(i) \/ Stray(i)
                           \/ Exit(i) \/ Kill(i)

Spec == Init /\ [][Next]_vars
===============================================================================
