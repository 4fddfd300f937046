------------------------------- MODULE Harness ------------------------------
(***************************************************************************)
(* The snapshot tests of test.py: for each stage of the compiler and each  *)
(* file, what the compiler says about the file is compared with, or        *)
(* written to, a snapshot.  Commands follow each other; between them the   *)
(* compiler is edited (main makes it anew), and a command may be killed.   *)
(***************************************************************************)
EXTENDS Integers, FiniteSets, Sequences

CONSTANTS
  File,          \* the .ale files of the file dir
  ShouldFail,    \* those that should_fail_compilation
  Stages,        \* the stages, in the order of the enumeration Stage
  Failable,      \* those of stage_is_failable
  Info           \* what execute_test may find: code, stdout and stderr

ASSUME StagesAssumption ==
  /\ Stages \in Seq(STRING) /\ Stages # << >>
  /\ \A i, j \in DOMAIN Stages : Stages[i] = Stages[j] => i = j
ASSUME InfoAssumption == Info \subseteq [code : Int, stdout : STRING, stderr : STRING]

Stage == {Stages[k] : k \in DOMAIN Stages}
Missing == "missing"
Torn == "torn"

VARIABLES
  out,       \* what the compiler gives for a file at a stage, from edit to edit
  snap,      \* the snapshots: [info |-> ...], Missing or Torn
  cmd,       \* the last command: "test", "update", "all" or "new"
  files,     \* the files it is about
  chosen,    \* the stages it was asked for, args.stage
  stages,    \* those of them that are left to it
  todo,      \* the files that are left to the first of these
  writing,   \* whether a snapshot is open, and what shall be written
  errorOn,   \* error_on
  report,    \* the files that each finished stage of a test has listed
  exit       \* "running", or how the command ended: its code, or "killed";
             \* "edited" when the compiler has been edited since

vars == <<out, snap, cmd, files, chosen, stages, todo, writing, errorOn, report, exit>>

-----------------------------------------------------------------------------
Running == exit = "running"
Now == Head(stages)
Closed == [open |-> FALSE]
Whole(info) == [is |-> "whole", info |-> info]

(* execute_test returns something. *)
Executes(f, s) == f \notin ShouldFail \/ s \in Failable

Init ==
  /\ out \in [File -> [Stage -> Info]]
  /\ snap = [f \in File |-> [s \in Stage |-> [is |-> Missing]]]
  /\ cmd = "test"
  /\ files = {}
  /\ chosen = Stages
  /\ stages = << >>
  /\ todo = {}
  /\ writing = Closed
  /\ errorOn = {}
  /\ report = << >>
  /\ exit = "edited"

Edit(f, s, info) ==
  /\ ~Running
  /\ out' = [out EXCEPT ![f][s] = info]
  /\ exit' = "edited"
  /\ UNCHANGED <<snap, cmd, files, chosen, stages, todo, writing, errorOn, report>>

(* -st: one stage, or all of them one after the other. *)
Selections == {Stages} \cup {<<s>> : s \in Stage}

(* main, and handle_snapshot with its recursion over -st all. *)
Start(command, selection, found) ==
  /\ ~Running
  /\ cmd' = command
  /\ files' = found
  /\ chosen' = selection
  /\ stages' = selection
  /\ todo' = found
  /\ errorOn' = {}
  /\ report' = << >>
  /\ exit' = "running"
  /\ UNCHANGED <<out, snap, writing>>

(* test; -u of a file and -ub of the files of a pattern; -ua. *)
StartTest == \E selection \in Selections : Start("test", selection, File)
StartUpdate ==
  \E selection \in Selections, found \in SUBSET File : Start("update", selection, found)
StartUpdateAll ==
  \E selection \in Selections, how \in {"all", "new"} : Start(how, selection, File)

Stop(how) ==
  /\ exit' = how
  /\ stages' = << >>
  /\ todo' = {}
  /\ writing' = Closed
  /\ errorOn' = {}
  /\ UNCHANGED <<cmd, files, chosen>>

Fails(command) ==
  /\ ~Running
  /\ cmd' = command
  /\ exit' = "1"
  /\ report' = << >>
  /\ UNCHANGED <<out, snap, files, chosen, stages, todo, writing, errorOn>>

(* handle_all: handle_unit raises when a unit test fails, and no snapshot is
   tested. *)
UnitFails == Fails("test")

(* -u of a file that is not in the file dir: sys.exit at the first stage. *)
FileNotFound == Fails("update")

(* Faulty: the stderr is not compared. *)
MismatchNoStderr(info, snapshot) ==
  info.code # snapshot.code \/ info.stdout # snapshot.stdout

Mismatch(info, snapshot) ==
  \/ info.code # snapshot.code
  \/ info.stdout # snapshot.stdout
  \/ info.stderr # snapshot.stderr

Testing == Running /\ cmd = "test"

(* test_single_snapshot, of whichever file rglob finds next. *)
TestSnapshot(f) ==
  /\ Testing
  /\ f \in todo
  /\ snap[f][Now].is # Torn \/ ~Executes(f, Now)
  /\ todo' = todo \ {f}
  /\ errorOn' =
       IF /\ snap[f][Now].is # Missing
          /\ Executes(f, Now)
          /\ Mismatch(out[f][Now], snap[f][Now].info)
       THEN errorOn \cup {f} ELSE errorOn
  /\ UNCHANGED <<out, snap, cmd, files, chosen, stages, writing, report, exit>>

(* json.load raises on what a killed update has left. *)
TestTorn(f) ==
  /\ Testing
  /\ f \in todo
  /\ snap[f][Now].is = Torn
  /\ Executes(f, Now)
  /\ Stop("1")
  /\ UNCHANGED <<out, snap, report>>

Updating == Running /\ cmd # "test" /\ ~writing.open

(* Faulty: -ua all leaves out what -ua new does. *)
SkipsExisting(f) == (cmd # "update" /\ snap[f][Now].is # Missing) \/ ~Executes(f, Now)

(* An existing snapshot that -ua new leaves alone; or update_snapshot of a
   file that is not executed at this stage. *)
Skips(f) == (cmd = "new" /\ snap[f][Now].is # Missing) \/ ~Executes(f, Now)

SkipSnapshot(f) ==
  /\ Updating
  /\ f \in todo
  /\ Skips(f)
  /\ todo' = todo \ {f}
  /\ UNCHANGED <<out, snap, cmd, files, chosen, stages, writing, errorOn, report,
                 exit>>

(* update_snapshot executes the test, and opens and so empties the snapshot. *)
OpenSnapshot(f) ==
  /\ Updating
  /\ f \in todo
  /\ ~Skips(f)
  /\ snap' = [snap EXCEPT ![f][Now] = [is |-> Torn]]
  /\ writing' = [open |-> TRUE, file |-> f, info |-> out[f][Now]]
  /\ UNCHANGED <<out, cmd, files, chosen, stages, todo, errorOn, report, exit>>

(* json.dump, and the end of the with. *)
DumpSnapshot ==
  /\ writing.open
  /\ snap' = [snap EXCEPT ![writing.file][Now] = Whole(writing.info)]
  /\ todo' = todo \ {writing.file}
  /\ writing' = Closed
  /\ UNCHANGED <<out, cmd, files, chosen, stages, errorOn, report, exit>>

(* The end of handle_snapshot: it lists error_on.  The next stage has an
   error_on of its own; after the last one the process exits with 0 whatever
   has been listed. *)
EndStage ==
  /\ Running
  /\ todo = {}
  /\ report' = IF cmd = "test" THEN Append(report, [stage |-> Now, listed |-> errorOn]) ELSE report
  /\ IF Len(stages) = 1 THEN Stop("0")
     ELSE /\ stages' = Tail(stages)
          /\ todo' = files
          /\ errorOn' = {}
          /\ UNCHANGED <<cmd, files, chosen, writing, exit>>
  /\ UNCHANGED <<out, snap>>

(* Interrupted by its user, or by an exception of what it calls. *)
Kill ==
  /\ Running
  /\ Stop("killed")
  /\ UNCHANGED <<out, snap, report>>

Next ==
  \/ \E f \in File, s \in Stage, info \in Info : Edit(f, s, info)
  \/ StartTest \/ StartUpdate \/ StartUpdateAll \/ UnitFails \/ FileNotFound
  \/ \E f \in File :
       TestSnapshot(f) \/ TestTorn(f) \/ SkipSnapshot(f) \/ OpenSnapshot(f)
  \/ DumpSnapshot \/ EndStage \/ Kill

-----------------------------------------------------------------------------
Differs(f, s) == snap[f][s].is # Missing /\ snap[f][s] # Whole(out[f][s])

(* What a test lists is, for the stages it was asked for and in their order,
   exactly the files that have a snapshot and no longer give what is in it:
   what other stages listed, torn snapshots and files that are not executed at
   the stage do not confuse it, and what was listed before a test is stopped
   is right too.  It exits with 0 when it has come to the end of its last
   stage, however many files it has listed, and only then. *)
ListsWhatChanged ==
  (cmd = "test" /\ exit # "edited") =>
    /\ exit = "0" <=> Len(report) = Len(chosen)
    /\ \A k \in DOMAIN report :
         /\ report[k].stage = chosen[k]
         /\ report[k].listed = {f \in File : Executes(f, chosen[k]) /\ Differs(f, chosen[k])}

(* After an update that comes to its end, even after killed commands, no
   snapshot of its files and of its stages is missing, torn or out of date;
   after -ua new none is missing, but one that was torn or out of date may be
   so still. *)
UpdatesSettle ==
  (cmd # "test" /\ exit = "0") =>
    \A f \in files, k \in DOMAIN chosen : Executes(f, chosen[k]) =>
      /\ snap[f][chosen[k]].is # Missing
      /\ cmd \in {"update", "all"} => snap[f][chosen[k]] = Whole(out[f][chosen[k]])
=============================================================================
