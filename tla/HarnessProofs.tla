---------------------------- MODULE HarnessProofs ---------------------------
(***************************************************************************)
(* What a test lists and what an update leaves behind, for any files, any  *)
(* stages and any results of the compiler, whatever commands have been     *)
(* killed and however often the compiler has been edited in between.       *)
(***************************************************************************)
EXTENDS TestPy, SeqLemmas

Snapshot == {[is |-> Missing], [is |-> Torn]} \cup {Whole(info) : info \in Info}

Typed ==
  /\ out \in [File -> [Stage -> Info]]
  /\ snap \in [File -> [Stage -> Snapshot]]
  /\ files \subseteq File /\ todo \subseteq files
  /\ chosen \in Selections /\ stages \in Seq(Stage)
  /\ report \in Seq([stage : Stage, listed : SUBSET File])
  /\ Running => stages # << >>

Tested(f, s) == Executes(f, s) /\ Differs(f, s)
Changed(s) == {f \in File : Tested(f, s)}

(* error_on is right about the files that the stage has come to. *)
ErrorsSoFar ==
  Testing => /\ files = File
             /\ errorOn = {f \in File \ todo : Tested(f, Now)}

(* The stages that the command has finished, and those that are left. *)
Past == Len(chosen) - Len(stages)

StagesLeft ==
  Running => /\ Len(stages) <= Len(chosen)
             /\ \A k \in 1 .. Len(stages) : stages[k] = chosen[Past + k]

(* No snapshot changes while a test runs, so what it has listed stays true;
   it has listed something for each stage that it has finished. *)
ReportsTrue ==
  (cmd = "test" /\ exit # "edited") =>
    /\ Running => Len(report) = Past
    /\ exit = "0" => Len(report) = Len(chosen)
    /\ exit \notin {"running", "0"} => Len(report) < Len(chosen)
    /\ \A k \in 1 .. Len(report) :
         report[k].stage = chosen[k] /\ report[k].listed = Changed(chosen[k])

(* A snapshot is open only for a file that is left to a running update. *)
WritingNow ==
  \/ writing = Closed
  \/ /\ Running /\ cmd # "test"
     /\ \E f \in todo : writing = [open |-> TRUE, file |-> f, info |-> out[f][Now]]

Settled(f, s) ==
  Executes(f, s) =>
    /\ snap[f][s].is # Missing
    /\ cmd \in {"update", "all"} => snap[f][s] = Whole(out[f][s])

UpdatedSoFar ==
  (Running /\ cmd # "test") =>
    /\ \A f \in files : \A k \in 1 .. Past : Settled(f, chosen[k])
    /\ \A f \in files \ todo : Settled(f, Now)

HInv ==
  /\ Typed /\ StagesLeft /\ ErrorsSoFar /\ ReportsTrue /\ WritingNow /\ UpdatedSoFar
  /\ UpdatesSettle

-----------------------------------------------------------------------------
LEMMA StagesThere ==
  /\ Len(Stages) \in Nat \ {0} /\ DOMAIN Stages = 1 .. Len(Stages)
  /\ Stages \in Seq(Stage)
  /\ \A s \in Stage : \E k \in 1 .. Len(Stages) : s = Stages[k]
<1>1. Len(Stages) \in Nat \ {0} /\ DOMAIN Stages = 1 .. Len(Stages)
  BY StagesAssumption, EmptySeq
<1>2. \A s \in Stage : \E k \in 1 .. Len(Stages) : s = Stages[k]
  BY <1>1 DEF Stage
<1>3. \A k \in 1 .. Len(Stages) : Stages[k] \in Stage
  BY <1>1 DEF Stage
<1>4. Stages = [k \in 1 .. Len(Stages) |-> Stages[k]]
  BY StagesAssumption
<1>5. Stages \in Seq(Stage)
  BY <1>1, <1>3, <1>4, IsASeq
<1> QED
  BY <1>1, <1>2, <1>5

(* No stage is asked for twice. *)
LEMMA SelectionsThere ==
  ASSUME NEW selection \in Selections
  PROVE  /\ Len(selection) \in Nat \ {0} /\ DOMAIN selection = 1 .. Len(selection)
         /\ selection \in Seq(Stage) /\ selection # << >>
         /\ \A j, k \in 1 .. Len(selection) : selection[j] = selection[k] => j = k
<1>1. CASE selection = Stages
  BY <1>1, StagesThere, StagesAssumption
<1>2. CASE selection \in {<<s>> : s \in Stage}
  <2>1. PICK s \in Stage : selection = <<s>>
    BY <1>2
  <2>2. Len(<<s>>) = 1 /\ <<s>> \in Seq(Stage) /\ <<s>> # << >> /\ DOMAIN <<s>> = 1 .. 1
    OBVIOUS
  <2>3. \A k \in 1 .. 1 : k = 1
    OBVIOUS
  <2> QED
    BY <2>1, <2>2, <2>3
<1> QED
  BY <1>1, <1>2 DEF Selections

LEMMA NowTyped ==
  ASSUME Typed, Running
  PROVE  /\ Len(stages) \in Nat \ {0} /\ Now = stages[1] /\ Now \in Stage
         /\ Tail(stages) \in Seq(Stage) /\ Len(Tail(stages)) = Len(stages) - 1
         /\ \A k \in 1 .. Len(stages) - 1 : Tail(stages)[k] = stages[k + 1]
<1>1. stages \in Seq(Stage) /\ stages # << >>
  BY DEF Typed
<1>2. Len(stages) \in Nat \ {0}
  BY <1>1, EmptySeq
<1>3. stages[1] \in Stage
  BY <1>1, <1>2, ElementOfSeq
<1> QED
  BY <1>1, <1>2, <1>3, HeadTailProperties DEF Now

(* The stage of a command follows those that it has finished. *)
LEMMA NowIsNext ==
  ASSUME Typed, StagesLeft, Running
  PROVE  /\ Past \in Nat /\ Past + 1 \in 1 .. Len(chosen) /\ Now = chosen[Past + 1]
         /\ \A k \in 1 .. Past : chosen[k] # Now /\ chosen[k] \in Stage
<1>1. /\ Len(stages) \in Nat \ {0} /\ Now = stages[1] /\ Len(chosen) \in Nat \ {0}
      /\ \A j, k \in 1 .. Len(chosen) : chosen[j] = chosen[k] => j = k
      /\ \A k \in 1 .. Len(chosen) : chosen[k] \in Stage
  BY NowTyped, SelectionsThere, ElementOfSeq DEF Typed
<1>2. Len(stages) <= Len(chosen) /\ \A k \in 1 .. Len(stages) : stages[k] = chosen[Past + k]
  BY DEF StagesLeft
<1>3. Past \in Nat /\ Past + 1 \in 1 .. Len(chosen)
  BY <1>1, <1>2 DEF Past
<1>4. Now = chosen[Past + 1]
  <2>1. 1 \in 1 .. Len(stages)
    BY <1>1
  <2> QED
    BY <1>1, <1>2, <2>1
<1>5. ASSUME NEW k \in 1 .. Past PROVE chosen[k] # Now /\ chosen[k] \in Stage
  <2>1. k \in 1 .. Len(chosen) /\ k # Past + 1
    BY <1>1, <1>3
  <2> QED
    BY <1>1, <1>3, <1>4, <2>1
<1> QED
  BY <1>3, <1>4, <1>5

LEMMA SnapChange ==
  ASSUME Typed, NEW f \in File, NEW s \in Stage, NEW x \in Snapshot,
         snap' = [snap EXCEPT ![f][s] = x]
  PROVE  /\ snap' \in [File -> [Stage -> Snapshot]]
         /\ snap'[f][s] = x
         /\ \A g \in File, t \in Stage : (g # f \/ t # s) => snap'[g][t] = snap[g][t]
BY DEF Typed

(* The three fields are the whole of a result. *)
LEMMA MismatchIsDifference ==
  ASSUME NEW a \in Info, NEW b \in Info
  PROVE  Mismatch(a, b) <=> a # b
<1>1. a \in [code : Int, stdout : STRING, stderr : STRING]
      /\ b \in [code : Int, stdout : STRING, stderr : STRING]
  BY InfoAssumption
<1> QED
  BY <1>1 DEF Mismatch

LEMMA Snapshots ==
  /\ \A x \in Snapshot : x.is \in {Missing, Torn} \/ \E info \in Info : x = Whole(info)
  /\ \A info \in Info : Whole(info).is = "whole" /\ Whole(info).info = info
  /\ [is |-> Missing] \in Snapshot /\ [is |-> Torn] \in Snapshot
  /\ \A info \in Info : Whole(info) \in Snapshot
  /\ Missing # Torn /\ Missing # "whole" /\ Torn # "whole"
<1>1. \A x \in Snapshot : x.is \in {Missing, Torn} \/ \E info \in Info : x = Whole(info)
  BY DEF Snapshot
<1>2. \A info \in Info : Whole(info).is = "whole" /\ Whole(info).info = info
  BY DEF Whole
<1>3. /\ [is |-> Missing] \in Snapshot /\ [is |-> Torn] \in Snapshot
      /\ \A info \in Info : Whole(info) \in Snapshot
  BY DEF Snapshot
<1>4. Missing # Torn /\ Missing # "whole" /\ Torn # "whole"
  BY DEF Missing, Torn
<1> QED
  BY <1>1, <1>2, <1>3, <1>4

-----------------------------------------------------------------------------
LEMMA HInvInit == Init => HInv
<1> SUFFICES ASSUME Init PROVE HInv
  OBVIOUS
<1>1. << >> \in Seq(Stage) /\ << >> \in Seq([stage : Stage, listed : SUBSET File])
  OBVIOUS
<1>2. Typed
  BY <1>1, Snapshots DEF Init, Typed, Running, Selections
<1> QED
  BY <1>2 DEF Init, HInv, StagesLeft, ErrorsSoFar, ReportsTrue, WritingNow, UpdatedSoFar,
              UpdatesSettle, Testing, Running

LEMMA EditStep ==
  ASSUME HInv, NEW f \in File, NEW s \in Stage, NEW info \in Info, Edit(f, s, info)
  PROVE  HInv'
<1>1. ~Running /\ ~Running' /\ exit' = "edited" /\ writing' = Closed
  BY DEF Edit, Running, HInv, WritingNow
<1>2. Typed'
  <2>1. out' \in [File -> [Stage -> Info]]
    BY DEF Edit, HInv, Typed
  <2> QED
    BY <1>1, <2>1 DEF Edit, HInv, Typed, Running
<1> QED
  BY <1>1, <1>2 DEF HInv, StagesLeft, ErrorsSoFar, ReportsTrue, WritingNow, UpdatedSoFar,
                    UpdatesSettle, Testing

LEMMA StartStep ==
  ASSUME HInv, NEW command, NEW selection \in Selections, NEW found \in SUBSET File,
         command = "test" => found = File,
         Start(command, selection, found)
  PROVE  HInv'
<1>1. /\ ~Running /\ Running' /\ writing' = Closed /\ cmd' = command
      /\ files' = found /\ todo' = found /\ chosen' = selection /\ stages' = selection
      /\ errorOn' = {} /\ report' = << >> /\ exit' = "running" /\ UNCHANGED <<out, snap>>
  BY DEF Start, Running, HInv, WritingNow
<1>2. selection \in Seq(Stage) /\ selection # << >> /\ Len(selection) \in Nat
  BY SelectionsThere
<1>3. Typed'
  <2>1. << >> \in Seq([stage : Stage, listed : SUBSET File])
    OBVIOUS
  <2> QED
    BY <1>1, <1>2, <2>1 DEF HInv, Typed
<1>4. Past' = 0 /\ StagesLeft'
  <2>1. Past' = 0 /\ Len(stages') = Len(chosen') /\ Len(stages') \in Nat
    BY <1>1, <1>2 DEF Past
  <2>2. \A k \in 1 .. Len(stages') : stages'[k] = chosen'[Past' + k]
    BY <1>1, <2>1
  <2> QED
    BY <2>1, <2>2 DEF StagesLeft
<1>5. ErrorsSoFar'
  BY <1>1 DEF ErrorsSoFar, Testing
<1>6. ReportsTrue'
  <2>1. Len(report') = 0 /\ 1 .. Len(report') = {}
    BY <1>1
  <2> QED
    BY <1>1, <1>4, <2>1 DEF ReportsTrue
<1>7. WritingNow' /\ UpdatesSettle'
  BY <1>1 DEF WritingNow, UpdatesSettle
<1>8. UpdatedSoFar'
  <2>1. 1 .. 0 = {} /\ files' \ todo' = {}
    BY <1>1
  <2> QED
    BY <1>4, <2>1 DEF UpdatedSoFar
<1> QED
  BY <1>3, <1>4, <1>5, <1>6, <1>7, <1>8 DEF HInv

LEMMA StartSteps ==
  ASSUME HInv, StartTest \/ StartUpdate \/ StartUpdateAll
  PROVE  HInv'
<1>1. CASE StartTest
  BY <1>1, StartStep DEF StartTest
<1>2. CASE StartUpdate
  BY <1>2, StartStep DEF StartUpdate
<1>3. CASE StartUpdateAll
  BY <1>3, StartStep DEF StartUpdateAll
<1> QED
  BY <1>1, <1>2, <1>3

(* A command that does not come to its end claims nothing more than what it
   has reported, which is not about all its stages. *)
LEMMA StopStep ==
  ASSUME HInv, Running, NEW how, how \notin {"running", "0"}, Stop(how),
         UNCHANGED <<out, snap, report>>
  PROVE  HInv'
<1>1. << >> \in Seq(Stage)
  OBVIOUS
<1>2. Past < Len(chosen)
  BY NowTyped, SelectionsThere DEF HInv, Typed, Past
<1>3. \A s : Changed(s)' = Changed(s)
  BY DEF Stop, Changed, Tested, Executes, Differs
<1>4. ReportsTrue'
  BY <1>2, <1>3 DEF Stop, HInv, ReportsTrue, Running
<1> QED
  BY <1>1, <1>4 DEF Stop, HInv, Typed, StagesLeft, ErrorsSoFar, WritingNow, UpdatedSoFar,
                    UpdatesSettle, Testing, Running

LEMMA FailsStep ==
  ASSUME HInv, NEW command, Fails(command)
  PROVE  HInv'
<1>1. writing = Closed /\ << >> \in Seq([stage : Stage, listed : SUBSET File])
  BY DEF Fails, HInv, WritingNow
<1>2. Len(report') = 0 /\ 1 .. Len(report') = {}
  BY DEF Fails
<1>3. Len(chosen) \in Nat \ {0}
  BY SelectionsThere DEF HInv, Typed
<1>4. ReportsTrue'
  BY <1>2, <1>3 DEF Fails, ReportsTrue, Running
<1> QED
  BY <1>1, <1>4 DEF Fails, HInv, Typed, StagesLeft, ErrorsSoFar, WritingNow, UpdatedSoFar,
                    UpdatesSettle, Testing, Running

-----------------------------------------------------------------------------
(* A test of a file decides for it what Tested says. *)
LEMMA TestSnapshotStep ==
  ASSUME HInv, NEW f \in File, TestSnapshot(f)
  PROVE  HInv'
<1>1. /\ Running /\ cmd = "test" /\ f \in todo /\ todo' = todo \ {f}
      /\ UNCHANGED <<out, snap, cmd, files, chosen, stages, writing, report, exit>>
      /\ snap[f][Now].is # Torn \/ ~Executes(f, Now)
  BY DEF TestSnapshot, Testing
<1>2. Now \in Stage /\ Now' = Now
  BY <1>1, NowTyped DEF HInv, Now
<1>3. (snap[f][Now].is # Missing /\ Executes(f, Now) /\ Mismatch(out[f][Now], snap[f][Now].info))
        <=> Tested(f, Now)
  <2>1. snap[f][Now] \in Snapshot /\ out[f][Now] \in Info
    BY <1>2 DEF HInv, Typed
  <2> SUFFICES ASSUME Executes(f, Now), snap[f][Now].is # Missing
               PROVE  Mismatch(out[f][Now], snap[f][Now].info)
                        <=> snap[f][Now] # Whole(out[f][Now])
    BY DEF Tested, Differs
  <2>2. PICK info \in Info : snap[f][Now] = Whole(info)
    BY <1>1, <2>1, Snapshots
  <2>3. snap[f][Now].info = info /\ (Whole(info) = Whole(out[f][Now]) <=> info = out[f][Now])
    BY <2>1, <2>2, Snapshots
  <2>4. Mismatch(out[f][Now], info) <=> out[f][Now] # info
    BY <2>1, MismatchIsDifference
  <2> QED
    BY <2>2, <2>3, <2>4
<1>4. errorOn' = IF Tested(f, Now) THEN errorOn \cup {f} ELSE errorOn
  BY <1>3 DEF TestSnapshot
<1>5. \A g : \A s : Tested(g, s)' = Tested(g, s)
  BY <1>1 DEF Tested, Executes, Differs
<1>6. ErrorsSoFar'
  <2>1. files = File /\ errorOn = {g \in File \ todo : Tested(g, Now)}
    BY <1>1 DEF HInv, ErrorsSoFar, Testing
  <2>2. {g \in File \ todo' : Tested(g, Now)'} = {g \in File \ todo' : Tested(g, Now)}
    BY <1>2, <1>5
  <2>3. errorOn' = {g \in File \ todo' : Tested(g, Now)}
    BY <1>1, <1>4, <2>1
  <2> QED
    BY <1>1, <2>1, <2>2, <2>3 DEF ErrorsSoFar
<1>7. Typed'
  BY <1>1 DEF HInv, Typed, Running
<1>8. ReportsTrue'
  BY <1>1, <1>5 DEF HInv, ReportsTrue, Changed, Past, Running
<1>9. StagesLeft'
  BY <1>1 DEF HInv, StagesLeft, Past, Running
<1> QED
  BY <1>1, <1>6, <1>7, <1>8, <1>9 DEF HInv, WritingNow, UpdatedSoFar, UpdatesSettle, Running

-----------------------------------------------------------------------------
(* Settling one snapshot of the stage that is being updated leaves the others
   as they are. *)
LEMMA SkipSnapshotStep ==
  ASSUME HInv, NEW f \in File, SkipSnapshot(f)
  PROVE  HInv'
<1>1. /\ Running /\ cmd # "test" /\ writing = Closed /\ f \in todo /\ todo' = todo \ {f}
      /\ UNCHANGED <<out, snap, cmd, files, chosen, stages, writing, errorOn, report, exit>>
      /\ Skips(f)
  BY DEF SkipSnapshot, Updating, HInv, WritingNow
<1>2. \A g : \A s : Settled(g, s)' = Settled(g, s)
  BY <1>1 DEF Settled, Executes
<1>3. Settled(f, Now)
  BY <1>1 DEF Settled, Skips
<1>4. Typed'
  BY <1>1 DEF HInv, Typed, Running
<1>5. UpdatedSoFar'
  <2>1. \A g \in files \ todo' : Settled(g, Now)'
    BY <1>1, <1>2, <1>3 DEF HInv, UpdatedSoFar, Now
  <2> QED
    BY <1>1, <1>2, <2>1 DEF HInv, UpdatedSoFar, Past, Running
<1>6. StagesLeft'
  BY <1>1 DEF HInv, StagesLeft, Past, Running
<1> QED
  BY <1>1, <1>4, <1>5, <1>6
     DEF HInv, WritingNow, UpdatesSettle, ErrorsSoFar, ReportsTrue, Testing, Running

(* A snapshot that changes is one of the stage of the update, and none of a
   file that the stage is done with. *)
LEMMA OthersStaySettled ==
  ASSUME HInv, Running, cmd # "test", NEW f \in todo, NEW x \in Snapshot,
         snap' = [snap EXCEPT ![f][Now] = x],
         UNCHANGED <<out, cmd, files, chosen, stages, exit>>
  PROVE  /\ snap' \in [File -> [Stage -> Snapshot]] /\ snap'[f][Now] = x
         /\ Past' = Past /\ Now' = Now
         /\ \A g \in files : \A k \in 1 .. Past : Settled(g, chosen[k])'
         /\ \A g \in files \ todo : Settled(g, Now)'
<1>1. f \in File /\ Now \in Stage /\ files \subseteq File
  BY NowTyped DEF HInv, Typed
<1>2. /\ snap' \in [File -> [Stage -> Snapshot]] /\ snap'[f][Now] = x
      /\ \A g \in File, t \in Stage : (g # f \/ t # Now) => snap'[g][t] = snap[g][t]
  BY <1>1, SnapChange, ZenonT(40) DEF HInv
<1>3. Past' = Past /\ Now' = Now
  BY DEF Past, Now
<1>4. ASSUME NEW g \in File, NEW t \in Stage, g # f \/ t # Now, Settled(g, t)
      PROVE  Settled(g, t)'
  <2>1. snap'[g][t] = snap[g][t]
    BY <1>2, <1>4
  <2> QED
    BY <1>4, <2>1 DEF Settled, Executes
<1>5. ASSUME NEW g \in files, NEW k \in 1 .. Past PROVE Settled(g, chosen[k])'
  <2>1. chosen[k] # Now /\ chosen[k] \in Stage
    BY NowIsNext DEF HInv
  <2>2. Settled(g, chosen[k])
    BY DEF HInv, UpdatedSoFar
  <2>3. g \in File
    BY <1>1
  <2>4. ASSUME NEW t \in Stage, t = chosen[k] PROVE Settled(g, t)'
    BY <1>4, <2>1, <2>2, <2>3, <2>4
  <2> QED
    BY <2>1, <2>4
<1>6. ASSUME NEW g \in files \ todo PROVE Settled(g, Now)'
  <2>1. Settled(g, Now) /\ g \in File /\ g # f
    BY <1>1 DEF HInv, UpdatedSoFar
  <2>2. ASSUME NEW t \in Stage, t = Now' PROVE Settled(g, t)'
    BY <1>3, <1>4, <2>1, <2>2
  <2> QED
    BY <1>1, <1>3, <2>2
<1> QED
  BY <1>2, <1>3, <1>5, <1>6

LEMMA OpenSnapshotStep ==
  ASSUME HInv, NEW f \in File, OpenSnapshot(f)
  PROVE  HInv'
<1>1. /\ Running /\ cmd # "test" /\ f \in todo
      /\ writing' = [open |-> TRUE, file |-> f, info |-> out[f][Now]]
      /\ snap' = [snap EXCEPT ![f][Now] = [is |-> Torn]]
      /\ UNCHANGED <<out, cmd, files, chosen, stages, todo, errorOn, report, exit>>
  BY DEF OpenSnapshot, Updating
<1>2. /\ snap' \in [File -> [Stage -> Snapshot]]
      /\ Past' = Past /\ Now' = Now
      /\ \A g \in files : \A k \in 1 .. Past : Settled(g, chosen[k])'
      /\ \A g \in files \ todo : Settled(g, Now)'
  BY <1>1, Snapshots, OthersStaySettled
<1>3. Typed'
  BY <1>1, <1>2 DEF HInv, Typed, Running
<1>4. UpdatedSoFar'
  BY <1>1, <1>2 DEF HInv, UpdatedSoFar, Running
<1>5. WritingNow'
  BY <1>1, <1>2 DEF WritingNow, Running
<1>6. StagesLeft'
  BY <1>1, <1>2 DEF HInv, StagesLeft, Running
<1> QED
  BY <1>1, <1>3, <1>4, <1>5, <1>6
     DEF HInv, UpdatesSettle, ErrorsSoFar, ReportsTrue, Testing, Running

LEMMA DumpSnapshotStep == HInv /\ DumpSnapshot => HInv'
<1> SUFFICES ASSUME HInv, DumpSnapshot PROVE HInv'
  OBVIOUS
<1>1. PICK f \in todo : writing = [open |-> TRUE, file |-> f, info |-> out[f][Now]]
  BY DEF DumpSnapshot, HInv, WritingNow, Closed
<1>2. /\ Running /\ cmd # "test" /\ writing' = Closed /\ todo' = todo \ {f}
      /\ snap' = [snap EXCEPT ![f][Now] = Whole(out[f][Now])]
      /\ UNCHANGED <<out, cmd, files, chosen, stages, errorOn, report, exit>>
  BY <1>1 DEF DumpSnapshot, HInv, WritingNow, Closed
<1>3. f \in File /\ Now \in Stage /\ out[f][Now] \in Info
  BY <1>2, NowTyped DEF HInv, Typed
<1>4. /\ snap' \in [File -> [Stage -> Snapshot]] /\ snap'[f][Now] = Whole(out[f][Now])
      /\ Past' = Past /\ Now' = Now
      /\ \A g \in files : \A k \in 1 .. Past : Settled(g, chosen[k])'
      /\ \A g \in files \ todo : Settled(g, Now)'
  BY <1>2, <1>3, Snapshots, OthersStaySettled
<1>5. Settled(f, Now)'
  <2>1. Whole(out[f][Now]).is # Missing
    BY <1>3, Snapshots
  <2> QED
    BY <1>2, <1>4, <2>1 DEF Settled
<1>6. Typed'
  BY <1>2, <1>4 DEF HInv, Typed, Running
<1>7. UpdatedSoFar'
  <2>1. \A g \in files' \ todo' : Settled(g, Now)'
    BY <1>2, <1>4, <1>5
  <2> QED
    BY <1>2, <1>4, <2>1 DEF HInv, UpdatedSoFar, Running
<1>8. StagesLeft'
  BY <1>2, <1>4 DEF HInv, StagesLeft, Running
<1> QED
  BY <1>2, <1>6, <1>7, <1>8
     DEF HInv, WritingNow, UpdatesSettle, ErrorsSoFar, ReportsTrue, Testing, Running

-----------------------------------------------------------------------------
(* The end of a stage: the next one is its turn, or the command is over. *)
LEMMA StageEnds ==
  ASSUME HInv, EndStage
  PROVE  /\ Running /\ todo = {} /\ writing' = Closed /\ errorOn' = {}
         /\ UNCHANGED <<out, snap, cmd, files, chosen>>
         /\ Past \in Nat /\ Past + 1 \in 1 .. Len(chosen) /\ Now = chosen[Past + 1]
         /\ Now \in Stage /\ Len(chosen) \in Nat
         /\ \/ exit' = "0" /\ todo' = {} /\ Past + 1 = Len(chosen)
            \/ exit' = "running" /\ todo' = files /\ Past' = Past + 1 /\ Past + 1 < Len(chosen)
         /\ StagesLeft' /\ stages' \in Seq(Stage) /\ (Running' => stages' # << >>)
<1>1. /\ Running /\ todo = {} /\ writing' = Closed /\ errorOn' = {}
      /\ UNCHANGED <<out, snap, cmd, files, chosen>>
  BY DEF EndStage, Stop, HInv, WritingNow
<1>2. /\ Len(stages) \in Nat \ {0} /\ Now \in Stage
      /\ Tail(stages) \in Seq(Stage) /\ Len(Tail(stages)) = Len(stages) - 1
      /\ \A k \in 1 .. Len(stages) - 1 : Tail(stages)[k] = stages[k + 1]
  BY <1>1, NowTyped DEF HInv
<1>3. Past \in Nat /\ Past + 1 \in 1 .. Len(chosen) /\ Now = chosen[Past + 1]
  BY <1>1, NowIsNext DEF HInv
<1>4. Len(chosen) \in Nat
  BY SelectionsThere DEF HInv, Typed
<1>5. CASE Len(stages) = 1
  <2>1. exit' = "0" /\ stages' = << >> /\ todo' = {} /\ << >> \in Seq(Stage)
    BY <1>5 DEF EndStage, Stop
  <2>2. Past + 1 = Len(chosen)
    BY <1>4, <1>5 DEF Past
  <2>3. ~Running'
    BY <2>1 DEF Running
  <2> QED
    BY <1>1, <1>2, <1>3, <1>4, <2>1, <2>2, <2>3 DEF StagesLeft
<1>6. CASE Len(stages) # 1
  <2>1. /\ stages' = Tail(stages) /\ todo' = files /\ exit' = "running"
    BY <1>1, <1>6 DEF EndStage, Running
  <2>2. stages' # << >>
    <3>1. Len(stages') # 0 /\ Len(<< >>) = 0
      BY <1>2, <1>6, <2>1
    <3> QED
      BY <3>1
  <2>3. Past' = Past + 1 /\ Past + 1 < Len(chosen) /\ Len(stages') <= Len(chosen)
    BY <1>1, <1>2, <1>3, <1>4, <1>6, <2>1 DEF Past
  <2>4. \A k \in 1 .. Len(stages') : stages'[k] = chosen[Past' + k]
    <3> TAKE k \in 1 .. Len(stages')
    <3>1. k \in 1 .. Len(stages) - 1 /\ k + 1 \in 1 .. Len(stages) /\ Past + (k + 1) = Past' + k
      BY <1>2, <1>3, <2>1, <2>3
    <3>2. \A j \in 1 .. Len(stages) : stages[j] = chosen[Past + j]
      BY <1>1 DEF HInv, StagesLeft
    <3> QED
      BY <1>2, <2>1, <3>1, <3>2
  <2>5. StagesLeft'
    BY <1>1, <2>3, <2>4 DEF StagesLeft
  <2> QED
    BY <1>1, <1>2, <1>3, <1>4, <2>1, <2>2, <2>3, <2>5
<1> QED
  BY <1>5, <1>6

(* What a stage of a test has found is reported. *)
LEMMA EndTestStage ==
  ASSUME HInv, EndStage, cmd = "test"
  PROVE  HInv'
<1>1. /\ Running /\ todo = {} /\ writing' = Closed /\ errorOn' = {}
      /\ UNCHANGED <<out, snap, cmd, files, chosen>>
      /\ Past \in Nat /\ Past + 1 \in 1 .. Len(chosen) /\ Now = chosen[Past + 1]
      /\ Now \in Stage /\ Len(chosen) \in Nat
      /\ \/ exit' = "0" /\ todo' = {} /\ Past + 1 = Len(chosen)
         \/ exit' = "running" /\ todo' = files /\ Past' = Past + 1 /\ Past + 1 < Len(chosen)
      /\ StagesLeft' /\ stages' \in Seq(Stage) /\ (Running' => stages' # << >>)
  BY StageEnds
<1>2. report' = Append(report, [stage |-> Now, listed |-> errorOn]) /\ files = File
      /\ errorOn = Changed(Now)
  BY <1>1 DEF EndStage, HInv, ErrorsSoFar, Testing, Changed
<1> DEFINE new == [stage |-> Now, listed |-> errorOn]
<1>3. /\ new \in [stage : Stage, listed : SUBSET File]
      /\ new.stage = Now /\ new.listed = Changed(Now)
  <2>1. Changed(Now) \in SUBSET File
    BY DEF Changed
  <2> QED
    BY <1>1, <1>2, <2>1
<1> HIDE DEF new
<1>4. /\ report' \in Seq([stage : Stage, listed : SUBSET File])
      /\ Len(report') = Len(report) + 1 /\ Len(report) \in Nat
      /\ \A k \in 1 .. Len(report) : report'[k] = report[k]
      /\ report'[Len(report) + 1] = new
  <2>1. report' = Append(report, new) /\ report \in Seq([stage : Stage, listed : SUBSET File])
    BY <1>2 DEF new, HInv, Typed
  <2> QED
    BY <1>3, <2>1, AppendProperties, LenProperties
<1>5. \A s : Changed(s)' = Changed(s)
  BY <1>1 DEF Changed, Tested, Executes, Differs
<1>6. Len(report) = Past /\ \A k \in 1 .. Len(report) :
        report[k].stage = chosen[k] /\ report[k].listed = Changed(chosen[k])
  BY <1>1 DEF HInv, ReportsTrue, Running
<1>7. ReportsTrue'
  <2>1. ASSUME NEW k \in 1 .. Len(report')
        PROVE  report'[k].stage = chosen[k] /\ report'[k].listed = Changed(chosen[k])
    <3>1. CASE k = Len(report) + 1
      BY <1>1, <1>3, <1>4, <1>6, <3>1
    <3>2. CASE k \in 1 .. Len(report)
      BY <1>4, <1>6, <3>2
    <3> QED
      BY <1>4, <3>1, <3>2
  <2>2. Len(report') = Past + 1
    BY <1>4, <1>6
  <2> QED
    BY <1>1, <1>5, <2>1, <2>2 DEF ReportsTrue, Running
<1>8. Typed'
  BY <1>1, <1>4 DEF HInv, Typed
<1>9. ErrorsSoFar'
  BY <1>1, <1>2 DEF ErrorsSoFar, Testing, Running
<1> QED
  BY <1>1, <1>7, <1>8, <1>9 DEF HInv, WritingNow, UpdatedSoFar, UpdatesSettle

(* What a stage of an update has settled joins what is settled; after the
   last stage that is all there is. *)
LEMMA EndUpdateStage ==
  ASSUME HInv, EndStage, cmd # "test"
  PROVE  HInv'
<1>1. /\ Running /\ todo = {} /\ writing' = Closed /\ errorOn' = {}
      /\ UNCHANGED <<out, snap, cmd, files, chosen>>
      /\ Past \in Nat /\ Past + 1 \in 1 .. Len(chosen) /\ Now = chosen[Past + 1]
      /\ Now \in Stage /\ Len(chosen) \in Nat
      /\ \/ exit' = "0" /\ todo' = {} /\ Past + 1 = Len(chosen)
         \/ exit' = "running" /\ todo' = files /\ Past' = Past + 1 /\ Past + 1 < Len(chosen)
      /\ StagesLeft' /\ stages' \in Seq(Stage) /\ (Running' => stages' # << >>)
  BY StageEnds
<1>2. report' = report
  BY DEF EndStage
<1>3. \A f \in files : \A k \in 1 .. Past + 1 : Settled(f, chosen[k])
  <2>1. \A k \in 1 .. Past + 1 : k \in 1 .. Past \/ k = Past + 1
    BY <1>1
  <2>2. /\ \A f \in files : \A k \in 1 .. Past : Settled(f, chosen[k])
        /\ \A f \in files : Settled(f, Now)
    BY <1>1 DEF HInv, UpdatedSoFar
  <2> QED
    BY <1>1, <2>1, <2>2
<1>4. \A f, k : Settled(f, chosen[k])' = Settled(f, chosen[k])
  BY <1>1 DEF Settled, Executes
<1>5. Typed'
  BY <1>1, <1>2 DEF HInv, Typed
<1>6. UpdatesSettle'
  <2> SUFFICES ASSUME exit' = "0", NEW f \in files, NEW k \in DOMAIN chosen
               PROVE  Settled(f, chosen[k])'
    BY <1>1 DEF UpdatesSettle, Settled, Executes
  <2>1. k \in 1 .. Past + 1
    BY <1>1, SelectionsThere DEF HInv, Typed
  <2> QED
    BY <1>3, <1>4, <2>1
<1>7. UpdatedSoFar'
  <2>1. CASE ~Running'
    BY <2>1 DEF UpdatedSoFar
  <2>2. CASE Running'
    <3>1. Past' = Past + 1 /\ files' = files /\ files' \ todo' = {}
      BY <1>1, <2>2 DEF Running
    <3>2. \A f \in files : \A k \in 1 .. Past + 1 : Settled(f, chosen[k])'
      BY <1>3, <1>4
    <3>3. (\A f \in files : \A k \in 1 .. Past : Settled(f, chosen[k]))'
      BY <3>1, <3>2
    <3>4. (\A f \in files \ todo : Settled(f, Now))'
      BY <3>1
    <3> QED
      BY <3>3, <3>4 DEF UpdatedSoFar
  <2> QED
    BY <2>1, <2>2
<1> QED
  BY <1>1, <1>2, <1>5, <1>6, <1>7
     DEF HInv, WritingNow, ErrorsSoFar, ReportsTrue, Testing, Running

LEMMA HInvNext == HInv /\ [Next]_vars => HInv'
<1> SUFFICES ASSUME HInv, [Next]_vars PROVE HInv'
  OBVIOUS
<1>1. CASE \E f \in File, s \in Stage, info \in Info : Edit(f, s, info)
  BY <1>1, EditStep
<1>2. CASE StartTest \/ StartUpdate \/ StartUpdateAll
  BY <1>2, StartSteps
<1>3. CASE UnitFails \/ FileNotFound
  BY <1>3, FailsStep DEF UnitFails, FileNotFound
<1>4. CASE \E f \in File : TestSnapshot(f)
  BY <1>4, TestSnapshotStep
<1>5. CASE (\E f \in File : TestTorn(f)) \/ Kill
  <2>1. Running /\ \E how \in {"1", "killed"} : Stop(how) /\ UNCHANGED <<out, snap, report>>
    BY <1>5 DEF TestTorn, Kill, Testing
  <2> QED
    BY <2>1, StopStep
<1>6. CASE \E f \in File : SkipSnapshot(f)
  BY <1>6, SkipSnapshotStep
<1>7. CASE \E f \in File : OpenSnapshot(f)
  BY <1>7, OpenSnapshotStep
<1>8. CASE DumpSnapshot
  BY <1>8, DumpSnapshotStep
<1>9. CASE EndStage
  BY <1>9, EndTestStage, EndUpdateStage
<1>10. CASE UNCHANGED vars
  BY <1>10 DEF vars, HInv, Typed, StagesLeft, ErrorsSoFar, ReportsTrue, WritingNow, UpdatedSoFar, UpdatesSettle,
               Changed, Tested, Settled, Differs, Executes, Past, Now, Testing, Running
<1> QED
  BY <1>1, <1>2, <1>3, <1>4, <1>5, <1>6, <1>7, <1>8, <1>9, <1>10 DEF Next

(* --from-file touches nothing of this. *)
LEMMA HarnessKeeps == HandleSpec => []HInv
<1>1. HandleInit => HInv
  BY HInvInit DEF HandleInit
<1>2. HInv /\ [HandleNext]_all => HInv'
  BY HInvNext DEF HandleNext, HandleCommands, HandleFrom, all
<1> QED
  BY <1>1, <1>2, PTL DEF HandleSpec

(* ListsWhatChanged: a test lists, for the stages it was asked for, exactly
   the files whose snapshot the compiler no longer agrees with, and exits with
   0 just when it comes to its end, for every file dir, every stage and every
   history of edits, updates and kills. *)
THEOREM TestsListWhatChanged == HandleSpec => []ListsWhatChanged
<1>1. HInv => ListsWhatChanged
  <2> SUFFICES ASSUME HInv, cmd = "test", exit # "edited"
               PROVE  /\ exit = "0" <=> Len(report) = Len(chosen)
                      /\ \A k \in DOMAIN report :
                           report[k].stage = chosen[k] /\ report[k].listed = Changed(chosen[k])
    BY DEF ListsWhatChanged, Changed, Tested
  <2>1. DOMAIN report = 1 .. Len(report) /\ Len(report) \in Nat
    BY LenProperties DEF HInv, Typed
  <2>2. Running => Past < Len(chosen)
    BY NowTyped, SelectionsThere DEF HInv, Typed, Past
  <2> QED
    BY <2>1, <2>2 DEF HInv, ReportsTrue, Running
<1> QED
  BY <1>1, HarnessKeeps, PTL

(* UpdatesSettle: after an update that comes to its end no snapshot of its
   files and of the stages it was asked for is missing, and unless it was -ua
   new none is torn or out of date. *)
THEOREM UpdatesLeaveNothing == HandleSpec => []UpdatesSettle
<1>1. HInv => UpdatesSettle
  BY DEF HInv
<1> QED
  BY <1>1, HarnessKeeps, PTL

-----------------------------------------------------------------------------
(***************************************************************************)
(* --from-file.  Where the lexer is tells what the loop has read of an     *)
(* entry and how many snapshots it has written.                            *)
(***************************************************************************)
Quotes(texts) == [k \in DOMAIN texts |-> From!Quote(texts[k])]

(* What the loop knows of e when it has read the first n of its tokens. *)
Fields(stage, path, code, texts) ==
  [stage |-> stage, path |-> path, code |-> code, texts |-> texts]

Known(e, n) ==
  CASE n = 1 -> Fields(e.stage, "", "", << >>)
    [] n = 2 -> Fields(e.stage, e.path, "", << >>)
    [] n = 3 -> Fields(e.stage, e.path, e.code, << >>)
    [] n = 4 -> Fields(e.stage, e.path, e.code, <<From!Quote(e.texts[1])>>)
    [] n = 5 -> Fields(e.stage, e.path, e.code, <<From!Quote(e.texts[1]), From!Quote(e.texts[2])>>)

(* The entries before the n-th one can be read. *)
Readable(n) == \A k \in 1 .. n - 1 : Len(file[k].texts) # 1

(* The next of e is the token after n others, and the earlier entries are written. *)
Inside(n) ==
  /\ at.entry \in 1 .. Len(file) /\ at.token = n + 1 /\ Len(written) = at.entry - 1
  /\ Readable(at.entry)
  /\ entry = Known(file[at.entry], n)

ReadSoFar ==
  \/ /\ next = "stage" /\ at.token = 1 /\ Len(written) = at.entry - 1 /\ Readable(at.entry)
  \/ next = "path" /\ Inside(1)
  \/ next = "code" /\ Inside(2)
  \/ next = "stdout" /\ Inside(3)
  \/ next = "stderr" /\ Inside(4) /\ Len(file[at.entry].texts) >= 1
  \/ next = "end" /\ Inside(5) /\ Len(file[at.entry].texts) = 2
  \/ /\ next = "end" /\ at.token = 1 /\ Len(written) = at.entry - 1
     /\ at.entry \in 2 .. Len(file) + 1 /\ Len(file[at.entry - 1].texts) = 1
  \/ /\ next = "done" /\ Readable(at.entry)
     /\ cut = 0 => at.entry = Len(file) + 1 /\ Len(written) = Len(file)
  \/ /\ next = "failed"
     /\ cut = 0 => \E k \in 1 .. Len(file) : Len(file[k].texts) = 1

FInv ==
  /\ file \in Seq(Entry) /\ cut \in Nat
  /\ at.entry \in 1 .. Len(file) + 1 /\ at.token \in Nat \ {0}
  /\ written \in Seq({From!Quoted(e) : e \in Entry})
  /\ Len(written) <= Len(file)
  /\ \A k \in 1 .. Len(written) : written[k] = From!Quoted(file[k])
  /\ ReadSoFar

-----------------------------------------------------------------------------
LEMMA EntryTyped ==
  ASSUME NEW e \in Entry
  PROVE  /\ e = [stage |-> e.stage, path |-> e.path, code |-> e.code, texts |-> e.texts]
         /\ e.texts \in Seq(STRING) /\ Len(e.texts) \in {0, 1, 2}
         /\ DOMAIN e.texts = 1 .. Len(e.texts)
         /\ e.stage # ";" /\ e.code # ";"
<1>1. /\ e \in [stage : STRING, path : STRING, code : STRING, texts : Seq(STRING)]
      /\ e.stage # ";" /\ e.code # ";" /\ Len(e.texts) <= 2
  BY EntryAssumption
<1>2. e.texts \in Seq(STRING) /\ Len(e.texts) \in Nat /\ DOMAIN e.texts = 1 .. Len(e.texts)
  BY <1>1, LenProperties
<1>3. Len(e.texts) \in {0, 1, 2}
  <2>1. \A n \in Nat : n <= 2 => n \in {0, 1, 2}
    OBVIOUS
  <2> QED
    BY <1>1, <1>2, <2>1, Zenon
<1>4. e = [stage |-> e.stage, path |-> e.path, code |-> e.code, texts |-> e.texts]
  BY <1>1
<1> QED
  BY <1>1, <1>2, <1>3, <1>4

(* The tokens of an entry, in their order. *)
LEMMA WrittenTokens ==
  ASSUME NEW e \in Entry
  PROVE  /\ Len(From!Written(e)) = Len(e.texts) + 4 /\ Len(From!Written(e)) \in Nat
         /\ From!Written(e)[1] = <<e.stage>>
         /\ From!Written(e)[2] = From!Quote(e.path)
         /\ From!Written(e)[3] = <<e.code>>
         /\ \A k \in 1 .. Len(e.texts) : From!Written(e)[k + 3] = From!Quote(e.texts[k])
         /\ From!Written(e)[Len(e.texts) + 4] = From!Semicolon
<1> DEFINE n == Len(e.texts)
           a == <<<<e.stage>>, From!Quote(e.path), <<e.code>>>>
           q == [k \in 1 .. n |-> From!Quote(e.texts[k])]
           z == <<From!Semicolon>>
           S == {<<e.stage>>, From!Quote(e.path), <<e.code>>, From!Semicolon}
                  \cup {From!Quote(e.texts[k]) : k \in 1 .. n}
<1>1. n \in Nat
  BY EntryTyped, LenProperties
<1>2. a \in Seq(S) /\ Len(a) = 3
      /\ a[1] = <<e.stage>> /\ a[2] = From!Quote(e.path) /\ a[3] = <<e.code>>
  OBVIOUS
<1>3. q \in Seq(S) /\ Len(q) = n /\ \A k \in 1 .. n : q[k] = From!Quote(e.texts[k])
  BY <1>1, IsASeq
<1>4. z \in Seq(S) /\ Len(z) = 1 /\ z[1] = From!Semicolon
  OBVIOUS
<1>5. From!Written(e) = (a \o q) \o z
  BY DEF From!Written
<1> HIDE DEF n, a, q, z, S
<1> DEFINE w == a \o q \o z
<1>6. /\ Len(w) = Len(a) + Len(q) + Len(z)
      /\ \A k \in 1 .. Len(a) : w[k] = a[k]
      /\ \A k \in 1 .. Len(q) : w[Len(a) + k] = q[k]
      /\ \A k \in 1 .. Len(z) : w[Len(a) + Len(q) + k] = z[k]
  <2>1. a \in Seq(S) /\ q \in Seq(S) /\ z \in Seq(S)
    BY <1>2, <1>3, <1>4
  <2>2. Len(a \o q \o z) = Len(a) + Len(q) + Len(z)
    BY <2>1, Concat3, SMTT(30)
  <2>3. \A k \in 1 .. Len(a) : (a \o q \o z)[k] = a[k]
    BY <2>1, Concat3, SMTT(30)
  <2>4. \A k \in 1 .. Len(q) : (a \o q \o z)[Len(a) + k] = q[k]
    BY <2>1, Concat3, SMTT(30)
  <2>5. \A k \in 1 .. Len(z) : (a \o q \o z)[Len(a) + Len(q) + k] = z[k]
    BY <2>1, Concat3, SMTT(30)
  <2> QED
    BY <2>2, <2>3, <2>4, <2>5
<1> HIDE DEF w
<1>7. Len(w) = n + 4 /\ w[n + 4] = From!Semicolon
  <2>1. 1 \in 1 .. Len(z) /\ Len(a) + Len(q) + 1 = n + 4 /\ Len(a) + Len(q) + Len(z) = n + 4
    BY <1>1, <1>2, <1>3, <1>4
  <2> QED
    BY <1>4, <1>6, <2>1
<1>8. w[1] = <<e.stage>> /\ w[2] = From!Quote(e.path) /\ w[3] = <<e.code>>
  BY <1>2, <1>6
<1>9. \A k \in 1 .. n : w[k + 3] = From!Quote(e.texts[k])
  BY <1>1, <1>2, <1>3, <1>6
<1>10. From!Written(e) = w /\ Len(w) \in Nat
  BY <1>1, <1>5, <1>7 DEF w
<1> QED
  BY <1>7, <1>8, <1>9, <1>10 DEF n

LEMMA TokenKinds ==
  ASSUME NEW x
  PROVE  /\ From!Quote(x) # From!Eof /\ From!Quote(x) # From!Semicolon
         /\ From!Strip(From!Quote(x))[1] = x
         /\ <<x>> # From!Eof /\ <<x>>[1] = x
         /\ x # ";" => <<x>> # From!Semicolon
         /\ From!Semicolon # From!Eof
<1>1. Len(From!Quote(x)) = 3 /\ Len(From!Semicolon) = 1 /\ Len(From!Eof) = 0 /\ Len(<<x>>) = 1
  BY DEF From!Quote, From!Semicolon, From!Eof
<1>2. From!Strip(From!Quote(x))[1] = x
  <2> DEFINE t == <<"quote", x, "quote">>
  <2>1. Head(t) = "quote" /\ Len(t) = 3 /\ t[2] = x /\ t \in Seq({"quote", x})
    OBVIOUS
  <2> HIDE DEF t
  <2>2. SubSeq(t, 2, 3 - 1)[1] = t[2]
    <3>1. \A k \in 2 .. 2 : t[k] \in {"quote", x}
      BY <2>1
    <3>2. 1 \in 1 .. 2 - 2 + 1 /\ 2 + 1 - 1 = 2 /\ 3 - 1 = 2
      OBVIOUS
    <3>3. \A k \in 1 .. 2 - 2 + 1 : SubSeq(t, 2, 2)[k] = t[2 + k - 1]
      BY <3>1, SubSeqProperties
    <3> QED
      BY <3>2, <3>3
  <2> QED
    BY <2>1, <2>2 DEF From!Strip, From!Quote, t
<1>3. <<x>>[1] = x /\ (x # ";" => <<x>> # From!Semicolon)
  <2>1. <<x>>[1] = x /\ <<";">>[1] = ";"
    OBVIOUS
  <2> QED
    BY <2>1 DEF From!Semicolon
<1>4. /\ From!Quote(x) # From!Eof /\ From!Quote(x) # From!Semicolon
      /\ <<x>> # From!Eof /\ From!Semicolon # From!Eof
  BY <1>1
<1> QED
  BY <1>2, <1>3, <1>4

(* The snapshot of an entry whose texts have all been read. *)
LEMMA KnownWhole ==
  ASSUME NEW e \in Entry
  PROVE  /\ Len(e.texts) = 0 => Known(e, 3) = From!Quoted(e)
         /\ Len(e.texts) = 1 => Known(e, 4) = From!Quoted(e)
         /\ Len(e.texts) = 2 => Known(e, 5) = From!Quoted(e)
<1>1. /\ e = [stage |-> e.stage, path |-> e.path, code |-> e.code, texts |-> e.texts]
      /\ Len(e.texts) \in {0, 1, 2} /\ DOMAIN e.texts = 1 .. Len(e.texts)
  BY EntryTyped
<1>2. From!Quoted(e) = Fields(e.stage, e.path, e.code, Quotes(e.texts))
  BY <1>1 DEF From!Quoted, Quotes, Fields
<1>3. /\ Quotes(e.texts) = [k \in 1 .. Len(e.texts) |-> From!Quote(e.texts[k])]
  BY <1>1 DEF Quotes
<1>4. Len(e.texts) = 0 => Quotes(e.texts) = << >>
  BY <1>3
<1>5. Len(e.texts) = 1 => Quotes(e.texts) = <<From!Quote(e.texts[1])>>
  BY <1>3
<1>6. Len(e.texts) = 2 => Quotes(e.texts) = <<From!Quote(e.texts[1]), From!Quote(e.texts[2])>>
  BY <1>3
<1> QED
  BY <1>2, <1>4, <1>5, <1>6 DEF Known

(* Reading a token adds to what is known. *)
SetStage(x) == entry' = [From!Nothing EXCEPT !.stage = x]
SetPath(x) == entry' = [entry EXCEPT !.path = x]
SetCode(x) == entry' = [entry EXCEPT !.code = x]
SetTexts(x) == entry' = [entry EXCEPT !.texts = x]

LEMMA FieldsChange ==
  ASSUME NEW s, NEW p, NEW c, NEW t, NEW x, entry = Fields(s, p, c, t)
  PROVE  /\ SetPath(x) => entry' = Fields(s, x, c, t)
         /\ SetCode(x) => entry' = Fields(s, p, x, t)
         /\ SetTexts(x) => entry' = Fields(s, p, c, x)
         /\ entry.texts = t
BY DEF Fields, SetPath, SetCode, SetTexts

LEMMA AppendPair ==
  ASSUME NEW a, NEW b
  PROVE  Append(<<a>>, b) = <<a, b>>
<1>1. <<a>> \in Seq({a, b}) /\ Len(<<a>>) = 1 /\ <<a>>[1] = a
      /\ <<a, b>> \in Seq({a, b}) /\ Len(<<a, b>>) = 2 /\ <<a, b>>[1] = a /\ <<a, b>>[2] = b
  OBVIOUS
<1> DEFINE s == <<a>>
           t == <<a, b>>
           u == Append(s, b)
<1>2. s \in Seq({a, b}) /\ Len(s) = 1 /\ s[1] = a
      /\ t \in Seq({a, b}) /\ Len(t) = 2 /\ t[1] = a /\ t[2] = b
  BY <1>1
<1> HIDE DEF s, t
<1>3. u \in Seq({a, b}) /\ Len(u) = 2 /\ u[1] = a /\ u[2] = b
  <2>1. s \in Seq({a, b}) /\ b \in {a, b}
    BY <1>2
  <2>2. /\ u \in Seq({a, b}) /\ Len(u) = Len(s) + 1
        /\ \A k \in 1 .. Len(s) : u[k] = s[k]
        /\ u[Len(s) + 1] = b
    BY <2>1, AppendProperties
  <2> HIDE DEF u
  <2> QED
    BY <1>2, <2>2
<1> HIDE DEF u
<1>4. \A k \in 1 .. 2 : u[k] = t[k]
  BY <1>2, <1>3
<1>5. u = t
  BY <1>2, <1>3, <1>4, SeqEqual
<1> QED
  BY <1>5 DEF s, t, u

LEMMA KnownIs ==
  ASSUME NEW e
  PROVE  /\ Known(e, 1) = Fields(e.stage, "", "", << >>)
         /\ Known(e, 2) = Fields(e.stage, e.path, "", << >>)
         /\ Known(e, 3) = Fields(e.stage, e.path, e.code, << >>)
         /\ Known(e, 4) = Fields(e.stage, e.path, e.code, <<From!Quote(e.texts[1])>>)
         /\ Known(e, 5) = Fields(e.stage, e.path, e.code,
                                 <<From!Quote(e.texts[1]), From!Quote(e.texts[2])>>)
BY DEF Known

LEMMA KnownMore ==
  ASSUME NEW e
  PROVE  /\ SetStage(e.stage) => entry' = Known(e, 1)
         /\ entry = Known(e, 1) /\ SetPath(e.path) => entry' = Known(e, 2)
         /\ entry = Known(e, 2) /\ SetCode(e.code) => entry' = Known(e, 3)
         /\ entry = Known(e, 3) /\ SetTexts(<<From!Quote(e.texts[1])>>) => entry' = Known(e, 4)
         /\ entry = Known(e, 4) /\ SetTexts(Append(entry.texts, From!Quote(e.texts[2]))) =>
              entry' = Known(e, 5)
<1>1. SetStage(e.stage) => entry' = Fields(e.stage, "", "", << >>)
  BY DEF SetStage, From!Nothing, Fields
<1>2. ASSUME entry = Known(e, 1), SetPath(e.path) PROVE entry' = Known(e, 2)
  <2> DEFINE none == << >>
             blank == ""
             x == e.path
  <2>1. entry = Fields(e.stage, blank, blank, none)
    BY <1>2, KnownIs
  <2>2. SetPath(x)
    BY <1>2
  <2> HIDE DEF x, none, blank
  <2>3. entry' = Fields(e.stage, x, blank, none)
    BY <2>1, <2>2, FieldsChange
  <2> QED
    BY <2>3, KnownIs DEF x, none, blank
<1>3. ASSUME entry = Known(e, 2), SetCode(e.code) PROVE entry' = Known(e, 3)
  <2> DEFINE none == << >>
             blank == ""
             x == e.code
  <2>1. entry = Fields(e.stage, e.path, blank, none)
    BY <1>3, KnownIs
  <2>2. SetCode(x)
    BY <1>3
  <2> HIDE DEF x, none, blank
  <2>3. entry' = Fields(e.stage, e.path, x, none)
    BY <2>1, <2>2, FieldsChange
  <2> QED
    BY <2>3, KnownIs DEF x, none, blank
<1>4. ASSUME entry = Known(e, 3), SetTexts(<<From!Quote(e.texts[1])>>) PROVE entry' = Known(e, 4)
  <2> DEFINE none == << >>
             x == <<From!Quote(e.texts[1])>>
  <2>1. entry = Fields(e.stage, e.path, e.code, none)
    BY <1>4, KnownIs
  <2>2. SetTexts(x)
    BY <1>4
  <2> HIDE DEF x, none
  <2>3. entry' = Fields(e.stage, e.path, e.code, x)
    BY <2>1, <2>2 DEF Fields, SetTexts
  <2> QED
    BY <2>3, KnownIs DEF x, none
<1>5. ASSUME entry = Known(e, 4), SetTexts(Append(entry.texts, From!Quote(e.texts[2])))
      PROVE  entry' = Known(e, 5)
  <2> DEFINE t == <<From!Quote(e.texts[1])>>
             x == <<From!Quote(e.texts[1]), From!Quote(e.texts[2])>>
  <2>1. entry = Fields(e.stage, e.path, e.code, t)
    BY <1>5, KnownIs
  <2>2. Append(t, From!Quote(e.texts[2])) = x
    BY AppendPair
  <2> HIDE DEF t, x
  <2>3. entry.texts = t
    BY <2>1, FieldsChange
  <2>4. SetTexts(x)
    BY <1>5, <2>2, <2>3
  <2>5. entry' = Fields(e.stage, e.path, e.code, x)
    BY <2>1, <2>4 DEF Fields, SetTexts
  <2> QED
    BY <2>5, KnownIs DEF x
<1> QED
  BY <1>1, <1>2, <1>3, <1>4, <1>5, KnownIs

LEMMA TextsCount ==
  ASSUME NEW e \in Entry
  PROVE  Len(e.texts) \in {0, 1, 2} /\ Len(e.texts) + 4 \in {4, 5, 6}
<1>1. Len(e.texts) \in {0, 1, 2}
  BY EntryTyped
<1>2. \A n \in {0, 1, 2} : n + 4 \in {4, 5, 6}
  OBVIOUS
<1> QED
  BY <1>1, <1>2, Zenon

-----------------------------------------------------------------------------
(* Where the lexer is. *)
LEMMA LexerAt ==
  ASSUME FInv, at.entry \in 1 .. Len(file)
  PROVE  LET e == file[at.entry]
             w == From!Written(e)
         IN  /\ e \in Entry
             /\ at.token <= Len(w) /\ From!Ends => cut # 0
             /\ ~From!Ends => From!Tok = w[at.token]
             /\ From!Ends => From!Tok = From!Eof
<1>1. file[at.entry] \in Entry
  BY ElementOfSeq DEF FInv
<1>2. at.entry = Len(file) => From!Last(file) = file[at.entry]
  BY DEF From!Last
<1>3. Len(From!Written(file[at.entry])) \in Nat /\ cut \in Nat /\ at.token \in Nat /\ Len(file) \in Nat
      /\ at.entry \in Nat /\ at.entry <= Len(file)
  <2>1. Len(From!Written(file[at.entry])) \in Nat
    BY <1>1, WrittenTokens
  <2> QED
    BY <2>1, LenProperties DEF FInv
<1>4. at.token <= Len(From!Written(file[at.entry])) /\ From!Ends => cut # 0
  BY <1>2, <1>3 DEF From!Ends
<1> QED
  BY <1>1, <1>4 DEF From!Tok

(* The loop takes the next token. *)
LEMMA Advance ==
  ASSUME FInv, From!GetToken
  PROVE  /\ UNCHANGED <<file, cut>>
         /\ From!Ends => at' = at
         /\ ~From!Ends =>
              /\ at.entry \in 1 .. Len(file)
              /\ at.token < Len(From!Written(file[at.entry])) =>
                   at'.entry = at.entry /\ at'.token = at.token + 1
              /\ at.token >= Len(From!Written(file[at.entry])) =>
                   at'.entry = at.entry + 1 /\ at'.token = 1
<1>1. UNCHANGED <<file, cut>> /\ (From!Ends => at' = at)
  BY DEF From!GetToken
<1>2. ~From!Ends => at.entry \in 1 .. Len(file)
  BY LenProperties DEF FInv, From!Ends
<1>3. ASSUME ~From!Ends
      PROVE  at' = IF at.token < Len(From!Written(file[at.entry]))
                   THEN [entry |-> at.entry, token |-> at.token + 1]
                   ELSE [entry |-> at.entry + 1, token |-> 1]
  BY <1>3 DEF From!GetToken
<1>4. ~From!Ends => Len(From!Written(file[at.entry])) \in Nat /\ at.token \in Nat
  <2>1. ~From!Ends => file[at.entry] \in Entry
    BY <1>2, ElementOfSeq DEF FInv
  <2> QED
    BY <2>1, WrittenTokens DEF FInv
<1> QED
  BY <1>1, <1>2, <1>3, <1>4

(* Nothing is written, and what has been read is that much of the entry. *)
LEMMA ReadOn ==
  ASSUME FInv, UNCHANGED <<file, cut, written>>,
         at'.entry \in 1 .. Len(file) + 1, at'.token \in Nat \ {0}, ReadSoFar'
  PROVE  FInv'
<1>1. \A k : From!Quoted(file[k])' = From!Quoted(file[k])
  BY DEF From!Quoted, From!Quote
<1>2. {From!Quoted(e) : e \in Entry}' = {From!Quoted(e) : e \in Entry}
  BY DEF From!Quoted, From!Quote
<1> QED
  BY <1>1, <1>2 DEF FInv

(* The snapshot of the entry, which is the next. *)
LEMMA WriteEntry ==
  ASSUME FInv, UNCHANGED <<file, cut>>, at.entry \in 1 .. Len(file), Len(written) = at.entry - 1,
         entry = From!Quoted(file[at.entry]), From!WriteSnap(entry),
         at'.entry = at.entry + 1, at'.token = 1, ReadSoFar'
  PROVE  FInv'
<1>1. file \in Seq(Entry) /\ file[at.entry] \in Entry /\ Len(file) \in Nat /\ Len(written) \in Nat
  BY ElementOfSeq, LenProperties DEF FInv
<1> DEFINE S == {From!Quoted(e) : e \in Entry}
<1>2. written \in Seq(S) /\ entry \in S /\ written' = Append(written, entry)
  BY <1>1 DEF FInv, From!WriteSnap
<1> HIDE DEF S
<1>3. /\ written' \in Seq(S) /\ Len(written') = Len(written) + 1
      /\ \A k \in 1 .. Len(written) : written'[k] = written[k]
      /\ written'[Len(written) + 1] = entry
  BY <1>2, AppendProperties
<1>4. \A k \in 1 .. Len(written') : written'[k] = From!Quoted(file[k])
  <2> TAKE k \in 1 .. Len(written')
  <2>1. CASE k \in 1 .. Len(written)
    BY <1>3, <2>1 DEF FInv
  <2>2. CASE k = Len(written) + 1
    BY <1>1, <1>3, <2>2
  <2> QED
    BY <1>1, <1>3, <2>1, <2>2
<1>5. at'.entry \in 1 .. Len(file) + 1 /\ at'.token \in Nat \ {0} /\ Len(written') <= Len(file)
  BY <1>1, <1>3
<1> QED
  BY <1>3, <1>4, <1>5 DEF FInv, S

-----------------------------------------------------------------------------
(* The token that the loop sees in an entry, and where the lexer is then. *)
LEMMA TokenOf ==
  ASSUME FInv, From!GetToken, at.entry \in 1 .. Len(file), NEW e, e = file[at.entry],
         at.token <= Len(e.texts) + 4
  PROVE  /\ e \in Entry /\ Len(e.texts) \in {0, 1, 2} /\ UNCHANGED <<file, cut>>
         /\ at'.entry \in 1 .. Len(file) + 1 /\ at'.token \in Nat \ {0}
         /\ From!Ends => cut # 0 /\ From!Tok = From!Eof /\ at' = at
         /\ ~From!Ends => From!Tok = From!Written(e)[at.token]
         /\ (~From!Ends /\ at.token < Len(e.texts) + 4) =>
               at'.entry = at.entry /\ at'.token = at.token + 1
         /\ (~From!Ends /\ at.token = Len(e.texts) + 4) =>
               at'.entry = at.entry + 1 /\ at'.token = 1
<1>1. e \in Entry /\ (From!Ends => cut # 0 /\ From!Tok = From!Eof)
      /\ (~From!Ends => From!Tok = From!Written(e)[at.token])
  <2>1. e \in Entry
    BY LexerAt
  <2>2. Len(From!Written(e)) = Len(e.texts) + 4
    BY <2>1, WrittenTokens
  <2> QED
    BY <2>1, <2>2, LexerAt
<1>2. Len(e.texts) \in {0, 1, 2} /\ Len(From!Written(e)) = Len(e.texts) + 4
  BY <1>1, WrittenTokens, EntryTyped
<1>3. /\ UNCHANGED <<file, cut>>
      /\ From!Ends => at' = at
      /\ (~From!Ends /\ at.token < Len(e.texts) + 4) =>
               at'.entry = at.entry /\ at'.token = at.token + 1
      /\ (~From!Ends /\ at.token >= Len(e.texts) + 4) =>
               at'.entry = at.entry + 1 /\ at'.token = 1
  BY <1>2, Advance
<1>4. at'.entry \in 1 .. Len(file) + 1 /\ at'.token \in Nat \ {0}
  <2>1. at.entry \in 1 .. Len(file) + 1 /\ at.token \in Nat \ {0} /\ Len(file) \in Nat
        /\ Len(e.texts) + 4 \in Nat
    BY <1>2, LenProperties DEF FInv
  <2>2. From!Ends \/ (~From!Ends /\ at.token < Len(e.texts) + 4)
                  \/ (~From!Ends /\ at.token >= Len(e.texts) + 4)
    BY <2>1
  <2> QED
    BY <1>3, <2>1, <2>2
<1>5. at.token = Len(e.texts) + 4 => at.token >= Len(e.texts) + 4
  BY <1>2
<1> QED
  BY <1>1, <1>2, <1>3, <1>4, <1>5

LEMMA FailStep ==
  ASSUME FInv, From!Fail, UNCHANGED <<file, cut>>,
         at'.entry \in 1 .. Len(file) + 1, at'.token \in Nat \ {0},
         cut = 0 => \E k \in 1 .. Len(file) : Len(file[k].texts) = 1
  PROVE  FInv'
<1>1. ReadSoFar'
  BY DEF From!Fail, ReadSoFar
<1> QED
  BY <1>1, ReadOn DEF From!Fail

LEMMA ReadStageStep == FInv /\ From!ReadStage => FInv'
<1> SUFFICES ASSUME FInv, From!ReadStage PROVE FInv'
  OBVIOUS
<1>1. /\ next = "stage" /\ at.token = 1 /\ Len(written) = at.entry - 1 /\ Readable(at.entry)
      /\ From!GetToken /\ at.entry \in 1 .. Len(file) + 1 /\ Len(file) \in Nat
  BY LenProperties DEF FInv, ReadSoFar, From!ReadStage
<1>2. CASE From!Ends
  <2>1. From!Tok = From!Eof /\ at' = at /\ UNCHANGED <<file, cut>>
    BY <1>1, <1>2, Advance DEF From!Tok
  <2>2. cut = 0 => at.entry = Len(file) + 1
    <3> SUFFICES ASSUME at.entry # Len(file) + 1 PROVE cut # 0
      OBVIOUS
    <3>1. at.entry \in 1 .. Len(file)
      BY <1>1
    <3>2. file[at.entry] \in Entry
      BY <3>1, LexerAt
    <3>3. Len(file[at.entry].texts) + 4 \in {4, 5, 6}
      BY <3>2, TextsCount
    <3>4. at.token <= Len(file[at.entry].texts) + 4
      BY <1>1, <3>3
    <3> QED
      BY <1>1, <1>2, <3>1, <3>4, TokenOf
  <2>3. next' = "done" /\ UNCHANGED <<entry, written>>
    BY <2>1 DEF From!ReadStage
  <2>4. ReadSoFar'
    BY <1>1, <2>1, <2>2, <2>3 DEF ReadSoFar, Readable
  <2>5. at'.entry \in 1 .. Len(file) + 1 /\ at'.token \in Nat \ {0}
    BY <1>1, <2>1
  <2> QED
    BY <2>1, <2>3, <2>4, <2>5, ReadOn
<1>3. CASE ~From!Ends
  <2> DEFINE e == file[at.entry]
  <2>1. at.entry \in 1 .. Len(file) /\ e \in Entry
    BY <1>1, <1>3, Advance, LexerAt
  <2> HIDE DEF e
  <2>2. 1 <= Len(e.texts) + 4 /\ 1 < Len(e.texts) + 4
    <3>1. Len(e.texts) + 4 \in {4, 5, 6}
      BY <2>1, TextsCount
    <3> QED
      BY <3>1
  <2>3. /\ UNCHANGED <<file, cut>> /\ From!Tok = From!Written(e)[1]
        /\ at'.entry = at.entry /\ at'.token = 2
        /\ at'.entry \in 1 .. Len(file) + 1 /\ at'.token \in Nat \ {0}
    BY <1>1, <1>3, <2>1, <2>2, TokenOf DEF e
  <2>4. From!Tok = <<e.stage>> /\ From!Tok # From!Eof /\ From!Tok[1] = e.stage
    BY <2>1, <2>3, WrittenTokens, TokenKinds
  <2>5. next' = "path" /\ written' = written /\ entry' = Known(e, 1)
    <3>1. next' = "path" /\ written' = written /\ SetStage(From!Tok[1])
      BY <2>4 DEF From!ReadStage, SetStage
    <3> QED
      BY <2>4, <3>1, KnownMore
  <2>6. Inside(1)'
    <3>1. Known(file[at.entry], 1)' = Known(e, 1)
      BY <2>3 DEF e, Known
    <3> QED
      BY <1>1, <2>1, <2>3, <2>5, <3>1 DEF Inside, Readable
  <2>7. ReadSoFar'
    BY <2>5, <2>6 DEF ReadSoFar
  <2> QED
    BY <2>3, <2>5, <2>7, ReadOn
<1> QED
  BY <1>2, <1>3

(* The token is the n-th of the entry, and not its last. *)
LEMMA InsideStep ==
  ASSUME FInv, From!GetToken, NEW n \in {1, 2, 3, 4}, Inside(n), ~From!Ends,
         NEW e, e = file[at.entry], n < Len(e.texts) + 3,
         written' = written, entry' = Known(e, n + 1)
  PROVE  /\ UNCHANGED <<file, cut>> /\ Inside(n + 1)'
         /\ at'.entry \in 1 .. Len(file) + 1 /\ at'.token \in Nat \ {0}
<1>1. at.entry \in 1 .. Len(file) /\ at.token = n + 1
  BY DEF Inside
<1>2. e \in Entry
  BY <1>1, LexerAt
<1>3. Len(e.texts) + 4 \in {4, 5, 6} /\ Len(e.texts) \in {0, 1, 2}
  BY <1>2, TextsCount
<1>4. at.token < Len(e.texts) + 4 /\ at.token <= Len(e.texts) + 4
  BY <1>1, <1>3
<1>5. /\ UNCHANGED <<file, cut>>
      /\ at'.entry = at.entry /\ at'.token = at.token + 1
      /\ at'.entry \in 1 .. Len(file) + 1 /\ at'.token \in Nat \ {0}
  BY <1>1, <1>4, TokenOf
<1>6. Known(file[at.entry], n + 1)' = Known(e, n + 1)
  BY <1>5 DEF Known
<1> QED
  BY <1>1, <1>5, <1>6 DEF Inside, Readable

(* The entry can be read as well. *)
LEMMA ReadableNext ==
  ASSUME FInv, Readable(at.entry), at.entry \in 1 .. Len(file), Len(file[at.entry].texts) # 1,
         file' = file, at'.entry = at.entry + 1
  PROVE  Readable(at.entry)'
<1>1. at.entry \in Nat
  BY LenProperties DEF FInv
<1>2. \A k \in 1 .. at.entry - 1 : Len(file[k].texts) # 1
  BY DEF Readable
<1>3. \A k \in 1 .. at.entry + 1 - 1 : k = at.entry \/ k \in 1 .. at.entry - 1
  BY <1>1
<1>4. \A k \in 1 .. at.entry + 1 - 1 : Len(file[k].texts) # 1
  BY <1>2, <1>3
<1> QED
  BY <1>4 DEF Readable

LEMMA ReadPathStep == FInv /\ From!ReadPath => FInv'
<1> SUFFICES ASSUME FInv, From!ReadPath PROVE FInv'
  OBVIOUS
<1> DEFINE e == file[at.entry]
<1>1. /\ next = "path" /\ Inside(1) /\ From!GetToken
      /\ at.entry \in 1 .. Len(file) /\ at.token = 2 /\ entry = Known(e, 1)
  BY DEF FInv, ReadSoFar, From!ReadPath, Inside
<1>2. e \in Entry
  BY <1>1, LexerAt
<1> HIDE DEF e
<1>3. Len(e.texts) + 4 \in {4, 5, 6} /\ Len(e.texts) \in {0, 1, 2}
  BY <1>2, TextsCount
<1>4. at.token <= Len(e.texts) + 4 /\ 1 < Len(e.texts) + 3
  BY <1>1, <1>3
<1>5. /\ UNCHANGED <<file, cut>> /\ at'.entry \in 1 .. Len(file) + 1 /\ at'.token \in Nat \ {0}
      /\ From!Ends => cut # 0 /\ From!Tok = From!Eof
      /\ ~From!Ends => From!Tok = From!Written(e)[2]
  BY <1>1, <1>4, TokenOf DEF e
<1>6. CASE From!Ends
  <2>1. From!Fail
    BY <1>5, <1>6 DEF From!ReadPath
  <2> QED
    BY <1>5, <1>6, <2>1, FailStep
<1>7. CASE ~From!Ends
  <2>0. From!Tok = From!Quote(e.path)
    BY <1>2, <1>5, <1>7, WrittenTokens
  <2>1. From!Tok # From!Eof /\ From!Tok # From!Semicolon /\ From!Strip(From!Tok)[1] = e.path
    BY <2>0, TokenKinds
  <2>2. next' = "code" /\ written' = written /\ SetPath(From!Strip(From!Tok)[1])
    BY <2>1 DEF From!ReadPath, SetPath
  <2>3. entry' = Known(e, 2)
    BY <1>1, <2>1, <2>2, KnownMore
  <2>4. Inside(2)'
    <3>1. entry' = Known(e, 1 + 1) /\ 1 \in {1, 2, 3, 4}
      BY <2>3
    <3>2. Inside(1 + 1)'
      BY <1>1, <1>4, <1>7, <2>2, <3>1, InsideStep DEF e
    <3> QED
      BY <3>2
  <2>5. ReadSoFar'
    BY <2>2, <2>4 DEF ReadSoFar
  <2> QED
    BY <1>5, <2>2, <2>5, ReadOn
<1> QED
  BY <1>6, <1>7

LEMMA ReadCodeStep == FInv /\ From!ReadCode => FInv'
<1> SUFFICES ASSUME FInv, From!ReadCode PROVE FInv'
  OBVIOUS
<1> DEFINE e == file[at.entry]
<1>1. /\ next = "code" /\ Inside(2) /\ From!GetToken
      /\ at.entry \in 1 .. Len(file) /\ at.token = 3 /\ entry = Known(e, 2)
      /\ Len(written) = at.entry - 1 /\ Readable(at.entry) /\ Len(file) \in Nat
  BY LenProperties DEF FInv, ReadSoFar, From!ReadCode, Inside
<1>2. e \in Entry
  BY <1>1, LexerAt
<1> HIDE DEF e
<1>3. Len(e.texts) + 4 \in {4, 5, 6} /\ Len(e.texts) \in {0, 1, 2}
  BY <1>2, TextsCount
<1>4. at.token <= Len(e.texts) + 4
  BY <1>1, <1>3
<1>5. /\ UNCHANGED <<file, cut>> /\ at'.entry \in 1 .. Len(file) + 1 /\ at'.token \in Nat \ {0}
      /\ From!Ends => cut # 0 /\ From!Tok = From!Eof
      /\ ~From!Ends => From!Tok = From!Written(e)[3]
      /\ (~From!Ends /\ at.token = Len(e.texts) + 4) => at'.entry = at.entry + 1 /\ at'.token = 1
  BY <1>1, <1>4, TokenOf DEF e
<1>6. CASE From!Ends
  <2>1. From!Fail
    BY <1>5, <1>6, TokenKinds DEF From!ReadCode
  <2> QED
    BY <1>5, <1>6, <2>1, FailStep
<1>7. CASE ~From!Ends
  <2>1. From!Tok = <<e.code>> /\ e.code # ";"
    BY <1>2, <1>5, <1>7, WrittenTokens, EntryTyped
  <2>2. From!Tok # From!Eof /\ From!Tok # From!Semicolon /\ From!Tok[1] = e.code
    BY <2>1, TokenKinds
  <2>3. next' = "stdout" /\ written' = written /\ SetCode(From!Tok[1])
    BY <2>2 DEF From!ReadCode, SetCode
  <2>4. entry' = Known(e, 3)
    BY <1>1, <2>2, <2>3, KnownMore
  <2>5. Inside(3)'
    <3>1. entry' = Known(e, 2 + 1) /\ 2 \in {1, 2, 3, 4} /\ 2 < Len(e.texts) + 3
      BY <1>3, <2>4
    <3>2. Inside(2 + 1)'
      BY <1>1, <1>7, <2>3, <3>1, InsideStep DEF e
    <3> QED
      BY <3>2
  <2>6. ReadSoFar'
    BY <2>3, <2>5 DEF ReadSoFar
  <2> QED
    BY <1>5, <2>3, <2>6, ReadOn
<1> QED
  BY <1>6, <1>7

LEMMA ReadStdoutStep == FInv /\ From!ReadStdout => FInv'
<1> SUFFICES ASSUME FInv, From!ReadStdout PROVE FInv'
  OBVIOUS
<1> DEFINE e == file[at.entry]
<1>1. /\ next = "stdout" /\ Inside(3) /\ From!GetToken
      /\ at.entry \in 1 .. Len(file) /\ at.token = 4 /\ entry = Known(e, 3)
      /\ Len(written) = at.entry - 1 /\ Readable(at.entry) /\ Len(file) \in Nat
  BY LenProperties DEF FInv, ReadSoFar, From!ReadStdout, Inside
<1>2. e \in Entry
  BY <1>1, LexerAt
<1> HIDE DEF e
<1>3. Len(e.texts) + 4 \in {4, 5, 6} /\ Len(e.texts) \in {0, 1, 2}
  BY <1>2, TextsCount
<1>4. at.token <= Len(e.texts) + 4
  BY <1>1, <1>3
<1>5. /\ UNCHANGED <<file, cut>> /\ at'.entry \in 1 .. Len(file) + 1 /\ at'.token \in Nat \ {0}
      /\ From!Ends => cut # 0 /\ From!Tok = From!Eof
      /\ ~From!Ends => From!Tok = From!Written(e)[4]
      /\ (~From!Ends /\ at.token = Len(e.texts) + 4) => at'.entry = at.entry + 1 /\ at'.token = 1
  BY <1>1, <1>4, TokenOf DEF e
<1>6. CASE From!Ends
  <2>1. From!Fail
    BY <1>5, <1>6, TokenKinds DEF From!ReadStdout
  <2> QED
    BY <1>5, <1>6, <2>1, FailStep
<1>7. CASE ~From!Ends /\ Len(e.texts) = 0
  <2>0. at.token = Len(e.texts) + 4 /\ Len(e.texts) + 4 = 4
    BY <1>1, <1>7
  <2>1. From!Tok = From!Semicolon /\ From!Tok # From!Eof
    <3>1. From!Tok = From!Semicolon
      BY <1>2, <1>5, <1>7, <2>0, WrittenTokens
    <3> QED
      BY <3>1, TokenKinds
  <2>2. From!WriteSnap(entry) /\ next' = "stage" /\ at'.entry = at.entry + 1 /\ at'.token = 1
    BY <1>5, <1>7, <2>0, <2>1 DEF From!ReadStdout
  <2>3. entry = From!Quoted(file[at.entry])
    BY <1>1, <1>2, <1>7, KnownWhole DEF e
  <2>4. Len(written') = at'.entry - 1
    BY <1>1, <2>2, AppendProperties DEF From!WriteSnap, FInv
  <2>5. Readable(at.entry)'
    <3>1. Len(file[at.entry].texts) # 1
      BY <1>7 DEF e
    <3> QED
      BY <1>1, <1>5, <2>2, <3>1, ReadableNext
  <2>6. ReadSoFar'
    BY <2>2, <2>4, <2>5 DEF ReadSoFar
  <2> QED
    BY <1>1, <1>5, <2>2, <2>3, <2>6, WriteEntry
<1>8. CASE ~From!Ends /\ Len(e.texts) # 0
  <2>0. 1 \in 1 .. Len(e.texts) /\ 1 + 3 = 4
    BY <1>3, <1>8
  <2>1. From!Tok = From!Quote(e.texts[1])
    BY <1>2, <1>5, <1>8, <2>0, WrittenTokens
  <2>2. From!Tok # From!Eof /\ From!Tok # From!Semicolon
    BY <2>1, TokenKinds
  <2>3. next' = "stderr" /\ written' = written /\ SetTexts(<<From!Tok>>)
    BY <2>2 DEF From!ReadStdout, SetTexts
  <2>4. entry' = Known(e, 4)
    BY <1>1, <2>1, <2>3, KnownMore
  <2>5. Inside(4)'
    <3>1. entry' = Known(e, 3 + 1) /\ 3 \in {1, 2, 3, 4} /\ 3 < Len(e.texts) + 3
      BY <1>3, <1>8, <2>4
    <3>2. Inside(3 + 1)'
      BY <1>1, <1>8, <2>3, <3>1, InsideStep DEF e
    <3> QED
      BY <3>2
  <2>6. Len(file[at.entry].texts)' >= 1
    <3>1. at'.entry = at.entry
      BY <1>1, <1>3, <1>4, <1>8, TokenOf DEF e
    <3> QED
      BY <1>3, <1>5, <1>8, <3>1 DEF e
  <2>7. ReadSoFar'
    BY <2>3, <2>5, <2>6 DEF ReadSoFar
  <2> QED
    BY <1>5, <2>3, <2>7, ReadOn
<1> QED
  BY <1>6, <1>7, <1>8


LEMMA ReadStderrStep == FInv /\ From!ReadStderr => FInv'
<1> SUFFICES ASSUME FInv, From!ReadStderr PROVE FInv'
  OBVIOUS
<1> DEFINE e == file[at.entry]
<1>1. /\ next = "stderr" /\ Inside(4) /\ From!GetToken
      /\ at.entry \in 1 .. Len(file) /\ at.token = 5 /\ entry = Known(e, 4)
      /\ Len(written) = at.entry - 1 /\ Readable(at.entry) /\ Len(file) \in Nat /\ Len(e.texts) >= 1
  BY LenProperties DEF FInv, ReadSoFar, From!ReadStderr, Inside
<1>2. e \in Entry
  BY <1>1, LexerAt
<1> HIDE DEF e
<1>3. Len(e.texts) + 4 \in {4, 5, 6} /\ Len(e.texts) \in {0, 1, 2}
  BY <1>2, TextsCount
<1>4. at.token <= Len(e.texts) + 4
  BY <1>1, <1>3
<1>5. /\ UNCHANGED <<file, cut>> /\ at'.entry \in 1 .. Len(file) + 1 /\ at'.token \in Nat \ {0}
      /\ From!Ends => cut # 0 /\ From!Tok = From!Eof
      /\ ~From!Ends => From!Tok = From!Written(e)[5]
      /\ (~From!Ends /\ at.token = Len(e.texts) + 4) => at'.entry = at.entry + 1 /\ at'.token = 1
  BY <1>1, <1>4, TokenOf DEF e
<1>6. CASE From!Ends
  <2>1. From!Fail
    BY <1>5, <1>6, TokenKinds DEF From!ReadStderr
  <2> QED
    BY <1>5, <1>6, <2>1, FailStep
<1>7. CASE ~From!Ends /\ Len(e.texts) = 1
  <2>0. at.token = Len(e.texts) + 4 /\ Len(e.texts) + 4 = 5
    BY <1>1, <1>7
  <2>1. From!Tok = From!Semicolon /\ From!Tok # From!Eof
    <3>1. From!Tok = From!Semicolon
      BY <1>2, <1>5, <1>7, <2>0, WrittenTokens
    <3> QED
      BY <3>1, TokenKinds
  <2>2. From!WriteSnap(entry) /\ next' = "end" /\ at'.entry = at.entry + 1 /\ at'.token = 1
    BY <1>5, <1>7, <2>0, <2>1 DEF From!ReadStderr
  <2>3. entry = From!Quoted(file[at.entry])
    BY <1>1, <1>2, <1>7, KnownWhole DEF e
  <2>4. Len(written') = at'.entry - 1
    BY <1>1, <2>2, AppendProperties DEF From!WriteSnap, FInv
  <2>5. at'.entry \in 2 .. Len(file') + 1
    BY <1>1, <1>5, <2>2
  <2>6. Len(file'[at'.entry - 1].texts) = 1
    <3>1. at'.entry - 1 = at.entry
      BY <1>1, <2>2
    <3> QED
      BY <1>5, <1>7, <3>1 DEF e
  <2>7. ReadSoFar'
    BY <2>2, <2>4, <2>5, <2>6 DEF ReadSoFar
  <2> QED
    BY <1>1, <1>5, <2>2, <2>3, <2>7, WriteEntry
<1>8. CASE ~From!Ends /\ Len(e.texts) = 2
  <2>0. 2 \in 1 .. Len(e.texts) /\ 2 + 3 = 5
    BY <1>3, <1>8
  <2>1. From!Tok = From!Quote(e.texts[2])
    BY <1>2, <1>5, <1>8, <2>0, WrittenTokens
  <2>2. From!Tok # From!Eof /\ From!Tok # From!Semicolon
    BY <2>1, TokenKinds
  <2>3. next' = "end" /\ written' = written /\ SetTexts(Append(entry.texts, From!Tok))
    BY <2>2 DEF From!ReadStderr, SetTexts
  <2>4. entry' = Known(e, 5)
    BY <1>1, <2>1, <2>3, KnownMore
  <2>5. Inside(5)'
    <3>1. entry' = Known(e, 4 + 1) /\ 4 \in {1, 2, 3, 4} /\ 4 < Len(e.texts) + 3
      BY <1>3, <1>8, <2>4
    <3>2. Inside(4 + 1)'
      BY <1>1, <1>8, <2>3, <3>1, InsideStep DEF e
    <3> QED
      BY <3>2
  <2>6. Len(file[at.entry].texts)' = 2
    <3>1. at.token < Len(e.texts) + 4
      BY <1>1, <1>8
    <3>2. at'.entry = at.entry
      BY <1>1, <1>4, <1>8, <3>1, TokenOf DEF e
    <3> QED
      BY <1>5, <1>8, <3>2 DEF e
  <2>7. ReadSoFar'
    BY <2>3, <2>5, <2>6 DEF ReadSoFar
  <2> QED
    BY <1>5, <2>3, <2>7, ReadOn
<1> QED
  BY <1>1, <1>3, <1>6, <1>7, <1>8

(* After an entry of two texts. *)
LEMMA ReadEndStep ==
  ASSUME FInv, From!ReadEnd, Inside(5), Len(file[at.entry].texts) = 2
  PROVE  FInv'
<1> DEFINE e == file[at.entry]
<1>1. /\ next = "end" /\ Inside(5) /\ From!GetToken
      /\ at.entry \in 1 .. Len(file) /\ at.token = 6 /\ entry = Known(e, 5)
      /\ Len(written) = at.entry - 1 /\ Readable(at.entry) /\ Len(file) \in Nat /\ Len(e.texts) = 2
  BY LenProperties DEF FInv, ReadSoFar, From!ReadEnd, Inside
<1>2. e \in Entry
  BY <1>1, LexerAt
<1> HIDE DEF e
<1>3. Len(e.texts) + 4 \in {4, 5, 6} /\ Len(e.texts) \in {0, 1, 2}
  BY <1>2, TextsCount
<1>4. at.token <= Len(e.texts) + 4
  BY <1>1, <1>3
<1>5. /\ UNCHANGED <<file, cut>> /\ at'.entry \in 1 .. Len(file) + 1 /\ at'.token \in Nat \ {0}
      /\ From!Ends => cut # 0 /\ From!Tok = From!Eof
      /\ ~From!Ends => From!Tok = From!Written(e)[6]
      /\ (~From!Ends /\ at.token = Len(e.texts) + 4) => at'.entry = at.entry + 1 /\ at'.token = 1
  BY <1>1, <1>4, TokenOf DEF e
<1>6. CASE From!Ends
  <2>1. From!Fail
    BY <1>5, <1>6, TokenKinds DEF From!ReadEnd
  <2> QED
    BY <1>5, <1>6, <2>1, FailStep
<1>7. CASE ~From!Ends
  <2>0. at.token = Len(e.texts) + 4 /\ Len(e.texts) + 4 = 6
    BY <1>1
  <2>1. From!Tok = From!Semicolon
    BY <1>2, <1>5, <1>7, <2>0, WrittenTokens
  <2>2. From!WriteSnap(entry) /\ next' = "stage" /\ at'.entry = at.entry + 1 /\ at'.token = 1
    BY <1>5, <1>7, <2>0, <2>1 DEF From!ReadEnd
  <2>3. entry = From!Quoted(file[at.entry])
    BY <1>1, <1>2, KnownWhole DEF e
  <2>4. Len(written') = at'.entry - 1
    BY <1>1, <2>2, AppendProperties DEF From!WriteSnap, FInv
  <2>5. Readable(at.entry)'
    <3>1. Len(file[at.entry].texts) # 1
      BY <1>1 DEF e
    <3> QED
      BY <1>1, <1>5, <2>2, <3>1, ReadableNext
  <2>6. ReadSoFar'
    BY <2>2, <2>4, <2>5 DEF ReadSoFar
  <2> QED
    BY <1>1, <1>5, <2>2, <2>3, <2>6, WriteEntry
<1> QED
  BY <1>6, <1>7

(* After an entry whose ';' was taken for its stderr: the loop does not find
   the ';' it now asks for. *)
LEMMA ReadEndAgainStep ==
  ASSUME FInv, From!ReadEnd, at.token = 1, at.entry \in 2 .. Len(file) + 1,
         Len(file[at.entry - 1].texts) = 1
  PROVE  FInv'
<1>1. From!GetToken /\ Len(file) \in Nat /\ at.entry \in 1 .. Len(file) + 1
  BY LenProperties DEF FInv, From!ReadEnd
<1>2. \E k \in 1 .. Len(file) : Len(file[k].texts) = 1
  <2>1. at.entry - 1 \in 1 .. Len(file)
    BY <1>1
  <2> QED
    BY <2>1
<1>3. CASE From!Ends
  <2>1. From!Tok = From!Eof /\ at' = at /\ UNCHANGED <<file, cut>>
    BY <1>1, <1>3, Advance DEF From!Tok
  <2>2. From!Fail
    BY <2>1, TokenKinds DEF From!ReadEnd
  <2>3. at'.entry \in 1 .. Len(file) + 1 /\ at'.token \in Nat \ {0}
    BY <1>1, <2>1
  <2> QED
    BY <1>2, <2>1, <2>2, <2>3, FailStep
<1>4. CASE ~From!Ends
  <2> DEFINE e == file[at.entry]
  <2>1. at.entry \in 1 .. Len(file) /\ e \in Entry
    BY <1>1, <1>4, Advance, LexerAt
  <2> HIDE DEF e
  <2>2. 1 <= Len(e.texts) + 4
    <3>1. Len(e.texts) + 4 \in {4, 5, 6}
      BY <2>1, TextsCount
    <3> QED
      BY <3>1
  <2>3. /\ UNCHANGED <<file, cut>> /\ From!Tok = From!Written(e)[1]
        /\ at'.entry \in 1 .. Len(file) + 1 /\ at'.token \in Nat \ {0}
    BY <1>1, <1>4, <2>1, <2>2, TokenOf DEF e
  <2>4. From!Tok = <<e.stage>> /\ e.stage # ";"
    BY <2>1, <2>3, WrittenTokens, EntryTyped
  <2>5. From!Tok # From!Semicolon
    BY <2>4, TokenKinds
  <2>6. From!Fail
    BY <2>5 DEF From!ReadEnd
  <2> QED
    BY <1>2, <2>3, <2>6, FailStep
<1> QED
  BY <1>3, <1>4

-----------------------------------------------------------------------------
LEMMA FInvInit == From!Init => FInv
<1> SUFFICES ASSUME From!Init PROVE FInv
  OBVIOUS
<1>1. file \in Seq(Entry) /\ Len(file) \in Nat
  <2>1. PICK n \in 0 .. MaxEntries : file \in [1 .. n -> Entry]
    BY DEF From!Init
  <2>2. n \in Nat
    BY MaxEntriesAssumption
  <2> QED
    BY <2>1, <2>2, LenProperties
<1>2. cut \in Nat
  <2>1. CASE file = << >>
    BY <2>1 DEF From!Init
  <2>2. CASE file # << >>
    <3>1. Len(file) \in 1 .. Len(file)
      BY <1>1, <2>2
    <3>2. From!Last(file) = file[Len(file)] /\ file[Len(file)] \in Entry
      BY <1>1, <3>1, ElementOfSeq DEF From!Last
    <3>3. Len(From!Written(From!Last(file))) \in Nat
      BY <3>2, WrittenTokens
    <3>4. cut \in 0 .. Len(From!Written(From!Last(file))) - 1
      BY <2>2 DEF From!Init
    <3> QED
      BY <3>3, <3>4
  <2> QED
    BY <2>1, <2>2
<1>3. at.entry = 1 /\ at.token = 1 /\ next = "stage" /\ written = << >>
  BY DEF From!Init
<1>4. Readable(at.entry)
  BY <1>3 DEF Readable
<1>5. ReadSoFar
  BY <1>3, <1>4 DEF ReadSoFar
<1>6. 1 \in 1 .. Len(file) + 1
  BY <1>1
<1>7. written \in Seq({From!Quoted(e) : e \in Entry}) /\ Len(written) = 0
  BY <1>3
<1> QED
  BY <1>1, <1>2, <1>3, <1>5, <1>6, <1>7 DEF FInv

LEMMA FInvNext == FInv /\ [From!Next]_reader => FInv'
<1> SUFFICES ASSUME FInv, [From!Next]_reader PROVE FInv'
  OBVIOUS
<1>1. CASE From!ReadEnd
  <2>1. \/ Inside(5) /\ Len(file[at.entry].texts) = 2
        \/ /\ at.token = 1 /\ at.entry \in 2 .. Len(file) + 1
           /\ Len(file[at.entry - 1].texts) = 1
    BY <1>1 DEF FInv, ReadSoFar, From!ReadEnd
  <2> QED
    BY <1>1, <2>1, ReadEndStep, ReadEndAgainStep
<1>2. CASE UNCHANGED reader
  <2>1. at'.entry \in 1 .. Len(file) + 1 /\ at'.token \in Nat \ {0} /\ UNCHANGED <<file, cut, written>>
    BY <1>2 DEF FInv, reader
  <2>2. ReadSoFar'
    <3>1. UNCHANGED <<file, cut, at, next, entry, written>> /\ ReadSoFar
      BY <1>2 DEF FInv, reader
    <3>2. \A n : Known(file[at.entry], n)' = Known(file[at.entry], n)
      BY <3>1 DEF Known
    <3>3. Readable(at.entry)' <=> Readable(at.entry)
      BY <3>1 DEF Readable
    <3>4. \A n \in {1, 2, 3, 4, 5} : Inside(n)' <=> Inside(n)
      BY <3>1, <3>2, <3>3 DEF Inside
    <3> HIDE DEF Inside, Readable
    <3> QED
      BY <3>1, <3>3, <3>4 DEF ReadSoFar
  <2> QED
    BY <2>1, <2>2, ReadOn
<1> QED
  BY <1>1, <1>2, ReadStageStep, ReadPathStep, ReadCodeStep, ReadStdoutStep, ReadStderrStep
     DEF From!Next

(* The commands of the harness touch nothing of this. *)
LEMMA ReaderKeeps == HandleSpec => []FInv
<1>1. HandleInit => FInv
  BY FInvInit DEF HandleInit
<1>2. FInv /\ [HandleNext]_all => FInv'
  BY FInvNext DEF HandleNext, HandleCommands, HandleFrom, all
<1> QED
  BY <1>1, <1>2, PTL DEF HandleSpec

(* WritesEntries: whatever the file says, however long it is and wherever it
   is cut off, --from-file writes the snapshots of its first entries; of the
   files that are whole it refuses just those with an entry that has a stdout
   and no stderr. *)
THEOREM EntriesAreWritten == HandleSpec => []WritesEntries
<1>1. FInv => WritesEntries
  <2> SUFFICES ASSUME FInv PROVE From!WritesEntries
    BY DEF WritesEntries
  <2>1. Len(written) <= Len(file) /\ DOMAIN written = 1 .. Len(written)
        /\ DOMAIN file = 1 .. Len(file) /\ Len(file) \in Nat
    BY LenProperties DEF FInv
  <2>2. \A k \in DOMAIN written : written[k] = From!Quoted(file[k])
    BY <2>1 DEF FInv
  <2>3. ASSUME cut = 0, next = "failed" PROVE \E k \in DOMAIN file : Len(file[k].texts) = 1
    BY <2>1, <2>3 DEF FInv, ReadSoFar
  <2>4. ASSUME cut = 0, next = "done"
        PROVE  Len(written) = Len(file) /\ \A k \in DOMAIN file : Len(file[k].texts) # 1
    <3>1. Readable(at.entry) /\ at.entry = Len(file) + 1 /\ Len(written) = Len(file)
      BY <2>4 DEF FInv, ReadSoFar
    <3>2. 1 .. at.entry - 1 = DOMAIN file
      BY <2>1, <3>1
    <3> QED
      BY <3>1, <3>2 DEF Readable
  <2> QED
    BY <2>1, <2>2, <2>3, <2>4 DEF From!WritesEntries
<1> QED
  BY <1>1, ReaderKeeps, PTL
=============================================================================
