------------------------- MODULE JobExecutionProofs -------------------------
(* Theorems about JobExecution, for every layout of stages, pipelines and   *)
(* steps, every assignment of modes and failure policies, and any number of *)
(* executions and faults.                                                   *)
EXTENDS JobExecution, TLAPS

(* The record of a pipeline's task, and the step it may stand at. *)
Task == [pc: TaskPC, k: Nat, error: Error]

LastStep(p) == IF StepCount[p] = 0 THEN 1 ELSE StepCount[p]

(* A task at a step has steps. *)
AtStep(p) == task[p].pc \in {"step", "handler", "record"} => StepCount[p] # 0

TypeInv == TypeOK /\ task \in [Pipelines -> Task] /\ \A p \in Pipelines : AtStep(p)

-----------------------------------------------------------------------------
(* A step is a pipeline and a number up to its step count. *)
LEMMA StepOf ==
    ASSUME NEW p \in Pipelines, NEW k \in 1..StepCount[p]
    PROVE  <<p, k>> \in Steps
BY DEF Steps

LEMMA StepParts ==
    ASSUME NEW x \in Steps
    PROVE  \E p \in Pipelines : \E k \in 1..StepCount[p] : x = <<p, k>>
BY DEF Steps

(* A task that moves to a typed record leaves all tasks typed. *)
LEMMA BecomeTyped ==
    ASSUME TypeInv, NEW p \in Pipelines, NEW t \in Task, Become(p, t),
           t.k \in 1..LastStep(p),
           t.pc \in {"step", "handler", "record"} => StepCount[p] # 0
    PROVE  /\ task' \in [Pipelines -> Task]
           /\ \A q \in Pipelines : /\ task'[q].pc \in TaskPC /\ task'[q].error \in Error
                                   /\ task'[q].k \in 1..LastStep(q)
                                   /\ AtStep(q)'
BY DEF TypeInv, TypeOK, Become, Task, LastStep, AtStep

(* So does the start of an execution, and its loss in a crash. *)
LEMMA FreshTyped ==
    LET tasks == [p \in Pipelines |-> FreshTask]
    IN  /\ tasks \in [Pipelines -> Task]
        /\ \A p \in Pipelines : /\ tasks[p].pc = "waiting" /\ tasks[p].error = "none"
                                /\ tasks[p].k \in 1..LastStep(p)
<1>1. FreshTask \in Task /\ FreshTask.pc = "waiting" /\ FreshTask.error = "none" /\ FreshTask.k = 1
  BY DEF FreshTask, Task, TaskPC, Error
<1>2. \A p \in Pipelines : 1 \in 1..LastStep(p)
  BY LayoutAssumption DEF LastStep
<1>3. QED
  BY <1>1, <1>2

(* A swallowed save of a row keeps its table typed. *)
LEMMA SavesTyped ==
    ASSUME TypeInv, NEW status \in RowStatus
    PROVE  /\ \A s \in Stages : SaveStage(s, status) =>
                 stageRow' \in [Stages -> RowStatus] /\ faults' \in 0..MaxFaults
           /\ \A p \in Pipelines : SavePipeline(p, status) =>
                 pipeRow' \in [Pipelines -> RowStatus] /\ faults' \in 0..MaxFaults
           /\ \A x \in Steps : SaveStep(x, status) =>
                 stepRow' \in [Steps -> RowStatus] /\ faults' \in 0..MaxFaults
<1>1. Fault => faults' \in 0..MaxFaults
  BY BoundsAssumption DEF Fault, TypeInv, TypeOK
<1>2. QED
  BY <1>1 DEF SaveStage, SavePipeline, SaveStep, Saved, TypeInv, TypeOK

LEMMA InitTypeInv == Init => TypeInv
<1> SUFFICES ASSUME Init PROVE TypeInv
  OBVIOUS
<1>1. 1 \in Stages
  BY LayoutAssumption DEF Stages
<1>2. exec \in Exec
  BY <1>1 DEF Init, Exec, ExecPC, Error
<1>3. /\ task \in [Pipelines -> Task]
      /\ \A p \in Pipelines : /\ task[p].pc = "waiting" /\ task[p].error = "none"
                              /\ task[p].k \in 1..LastStep(p)
  BY FreshTyped DEF Init
<1>4. QED
  BY <1>2, <1>3, BoundsAssumption
     DEF Init, TypeInv, TypeOK, Left, RowStatus, TaskPC, Error, LastStep, AtStep

LEMMA NextTypeInv == TypeInv /\ [Next]_vars => TypeInv'
<1> SUFFICES ASSUME TypeInv, [Next]_vars PROVE TypeInv'
  OBVIOUS
<1> USE DEF rows
<1>fault. Fault => faults' \in 0..MaxFaults
  BY BoundsAssumption DEF Fault, TypeInv, TypeOK
<1>row. {"running", "succeeded", "failed"} \subseteq RowStatus
  BY DEF RowStatus
<1>1. CASE UNCHANGED vars
  BY <1>1 DEF vars, TypeInv, TypeOK, AtStep
<1>2. CASE Begin
  <2>1. exec' \in Exec
    <3>1. 1 \in Stages
      BY LayoutAssumption DEF Stages
    <3>2. QED
      BY <1>2, <3>1 DEF Begin, Exec, ExecPC, Error
  <2>2. attempts' \in 0..MaxAttempts
    <3>1. attempts \in 0..MaxAttempts
      BY DEF TypeInv, TypeOK
    <3>2. attempts < MaxAttempts /\ attempts' = attempts + 1
      BY <1>2 DEF Begin
    <3>3. QED
      BY <3>1, <3>2, BoundsAssumption
  <2>3. ctx' \in [Steps -> Left]
    BY <1>2 DEF Begin, Left
  <2>4. QED
    BY <1>2, <2>1, <2>2, <2>3, FreshTyped
       DEF Begin, TypeInv, TypeOK, TaskPC, Error, LastStep, AtStep
<1>3. CASE OpenStage
  <2>1. exec' \in Exec /\ exec.stage \in Stages
    BY <1>3 DEF OpenStage, TypeInv, TypeOK, Exec, ExecPC
  <2>2. stageRow' \in [Stages -> RowStatus] /\ faults' \in 0..MaxFaults
    BY <1>3, <1>row, <2>1, SavesTyped DEF OpenStage
  <2>3. QED
    BY <1>3, <2>1, <2>2 DEF OpenStage, TypeInv, TypeOK, AtStep
<1>4. CASE CloseStage
  <2>1. exec.stage \in Stages
    BY DEF TypeInv, TypeOK, Exec
  <2>2. stageRow' \in [Stages -> RowStatus] /\ faults' \in 0..MaxFaults
    BY <1>4, <1>row, <2>1, SavesTyped DEF CloseStage
  <2>3. exec.stage < NStages => exec.stage + 1 \in Stages
    BY <2>1, LayoutAssumption DEF Stages
  <2>4. \A p \in RaisedBy(exec.stage) : task[p].error \in Error
    BY DEF RaisedBy, Failed, InStage, TypeInv, TypeOK
  <2>5. exec' \in Exec
    BY <1>4, <2>3, <2>4 DEF CloseStage, TypeInv, TypeOK, Exec, ExecPC
  <2>6. QED
    BY <1>4, <2>2, <2>5 DEF CloseStage, TypeInv, TypeOK, AtStep
<1>5. CASE CreatePage
  <2>1. exec' \in Exec
    BY <1>5 DEF CreatePage, PageIsMade, PageCallRaises, TypeInv, TypeOK, Exec, ExecPC, Error
  <2>2. Made \in {0, 1}
    BY DEF Made
  <2>3. QED
    BY <1>5, <1>fault, <2>1, <2>2 DEF CreatePage, PageIsMade, PageCallRaises, TypeInv, TypeOK, AtStep
<1>6. CASE RecordUsage
  <2>1. exec' \in Exec
    BY <1>6 DEF RecordUsage, SaveUsage, TypeInv, TypeOK, Exec, ExecPC
  <2>2. QED
    BY <1>6, <1>fault, <2>1 DEF RecordUsage, SaveUsage, TypeInv, TypeOK, AtStep
<1>7. CASE CacheExpires
  BY <1>7 DEF CacheExpires, TypeInv, TypeOK, AtStep
<1>8. CASE Crash
  <2>1. exec' \in Exec
    BY <1>8 DEF Crash, TypeInv, TypeOK, Exec, ExecPC
  <2>2. QED
    BY <1>8, <1>fault, <2>1, FreshTyped
       DEF Crash, TypeInv, TypeOK, TaskPC, Error, LastStep, AtStep
<1>9. ASSUME NEW p \in Pipelines, RunPipeline(p)
      PROVE  TypeInv'
  <2> DEFINE t == task[p]
             x == <<p, t.k>>
  <2>t. /\ t \in Task /\ t.k \in 1..LastStep(p) /\ t.k \in Nat
        /\ t.pc \in {"step", "handler", "record"} => StepCount[p] # 0
    BY DEF TypeInv, TypeOK, Task, LastStep, AtStep
  <2>x. t.pc \in {"step", "handler", "record"} => x \in Steps
    BY <2>t, StepOf DEF LastStep
  <2>n. StepCount[p] \in Nat
    BY LayoutAssumption
  <2>s. exec.stage \in Stages
    BY DEF TypeInv, TypeOK, Exec
  <2>e. t.error \in Error /\ {"other", "fk", "none"} \subseteq Error
    BY <2>t DEF Task, Error
  <2>1. CASE OpenPipeline(p)
    <3>1. pipeRow' \in [Pipelines -> RowStatus] /\ faults' \in 0..MaxFaults
      BY <2>1, <1>row, <1>fault DEF OpenPipeline, Saved, TypeInv, TypeOK
    <3>2. ASSUME NEW e \in Error, Become(p, [t EXCEPT !.pc = "raised", !.error = e])
          PROVE  TypeInv'
      <4> DEFINE v == [t EXCEPT !.pc = "raised", !.error = e]
      <4>1. v \in Task /\ v.k = t.k /\ v.pc = "raised"
        BY <2>t DEF Task, TaskPC
      <4> HIDE DEF v
      <4>2. Become(p, v)
        BY <3>2 DEF v
      <4>3. QED
        BY <2>1, <2>t, <3>1, <4>1, <4>2, BecomeTyped DEF OpenPipeline, TypeInv, TypeOK, LastStep
    <3>3. CASE Become(p, [t EXCEPT !.pc = IF StepCount[p] = 0 THEN "close" ELSE "step"])
      <4> DEFINE v == [t EXCEPT !.pc = IF StepCount[p] = 0 THEN "close" ELSE "step"]
      <4>1. v \in Task /\ v.k = t.k /\ v.pc = (IF StepCount[p] = 0 THEN "close" ELSE "step")
        BY <2>t DEF Task, TaskPC
      <4> HIDE DEF v
      <4>2. Become(p, v)
        BY <3>3 DEF v
      <4>3. QED
        BY <2>1, <2>t, <3>1, <4>1, <4>2, BecomeTyped DEF OpenPipeline, TypeInv, TypeOK, LastStep
    <3>4. QED
      BY <2>1, <2>e, <3>2, <3>3 DEF OpenPipeline
  <2>2. CASE StartStep(p)
    <3>1. stepRow' \in [Steps -> RowStatus] /\ faults' \in 0..MaxFaults
      BY <2>2, <2>x, <1>row, SavesTyped DEF StartStep, TypeInv, TypeOK
    <3>2. CASE Become(p, [t EXCEPT !.pc = "close", !.error = "other"])
      <4> DEFINE v == [t EXCEPT !.pc = "close", !.error = "other"]
      <4>1. v \in Task /\ v.k = t.k
        BY <2>t DEF Task, TaskPC, Error
      <4> HIDE DEF v
      <4>2. Become(p, v)
        BY <3>2 DEF v
      <4>3. QED
        BY <2>2, <2>t, <3>1, <4>1, <4>2, BecomeTyped DEF StartStep, TypeInv, TypeOK, LastStep
    <3>3. CASE Become(p, [t EXCEPT !.pc = "handler"])
      <4> DEFINE v == [t EXCEPT !.pc = "handler"]
      <4>1. v \in Task /\ v.k = t.k
        BY <2>t DEF Task, TaskPC
      <4> HIDE DEF v
      <4>2. Become(p, v)
        BY <3>3 DEF v
      <4>3. QED
        BY <2>2, <2>t, <3>1, <4>1, <4>2, BecomeTyped DEF StartStep, TypeInv, TypeOK, LastStep
    <3>4. QED
      BY <2>2, <3>2, <3>3 DEF StartStep
  <2>3. CASE HandlerSucceeds(p)
    <3>1. ctx' \in [Steps -> Left]
      BY <2>3, <2>x DEF HandlerSucceeds, TypeInv, TypeOK, Left
    <3> DEFINE v == [t EXCEPT !.pc = "record"]
    <3>2. v \in Task /\ v.k = t.k
      BY <2>t DEF Task, TaskPC
    <3>3. Become(p, v)
      BY <2>3 DEF HandlerSucceeds
    <3> HIDE DEF v
    <3>4. QED
      BY <2>3, <2>t, <3>1, <3>2, <3>3, BecomeTyped DEF HandlerSucceeds, TypeInv, TypeOK, LastStep
  <2>4. CASE HandlerFails(p)
    <3> DEFINE error == IF FailurePolicy[x] = "fail" THEN "other" ELSE t.error
               v == [t EXCEPT !.pc = "record", !.error = error]
    <3>1. ctx' \in [Steps -> Left]
      BY <2>4, <2>x DEF HandlerFails, TypeInv, TypeOK, Left
    <3>2. error \in Error
      BY <2>e
    <3>3. v \in Task /\ v.k = t.k
      BY <2>t, <3>2 DEF Task, TaskPC
    <3>4. Become(p, v)
      BY <2>4 DEF HandlerFails
    <3> HIDE DEF v
    <3>5. QED
      BY <2>4, <2>t, <3>1, <3>3, <3>4, BecomeTyped DEF HandlerFails, TypeInv, TypeOK, LastStep
  <2>5. CASE RecordStep(p)
    <3> DEFINE v == IF t.error = "none" /\ t.k < StepCount[p]
                      THEN [t EXCEPT !.pc = "step", !.k = t.k + 1]
                      ELSE [t EXCEPT !.pc = "close"]
    <3>1. stepRow' \in [Steps -> RowStatus] /\ faults' \in 0..MaxFaults
      BY <2>5, <2>x, <1>row, SavesTyped DEF RecordStep
    <3>2. t.k + 1 \in Nat
      BY <2>t
    <3>3. v \in Task /\ v.k \in 1..LastStep(p)
      <4>1. CASE t.error = "none" /\ t.k < StepCount[p]
        <5>1. v = [t EXCEPT !.pc = "step", !.k = t.k + 1]
          BY <4>1
        <5>2. v \in Task /\ v.k = t.k + 1
          BY <2>t, <3>2, <5>1 DEF Task, TaskPC
        <5>3. QED
          BY <2>t, <2>n, <4>1, <5>2 DEF LastStep
      <4>2. CASE ~(t.error = "none" /\ t.k < StepCount[p])
        BY <2>t, <4>2 DEF Task, TaskPC
      <4>3. QED
        BY <4>1, <4>2
    <3>4. Become(p, v)
      BY <2>5 DEF RecordStep
    <3>5. StepCount[p] # 0
      BY <2>5, <2>t DEF RecordStep
    <3> HIDE DEF v
    <3>6. QED
      BY <2>5, <3>1, <3>3, <3>4, <3>5, BecomeTyped DEF RecordStep, TypeInv, TypeOK, LastStep
  <2>6. CASE ClosePipeline(p)
    <3>1. pipeRow' \in [Pipelines -> RowStatus] /\ faults' \in 0..MaxFaults
      BY <2>6, <1>row, SavesTyped DEF ClosePipeline
    <3> DEFINE v == [t EXCEPT !.pc = IF t.error = "none" THEN "ok" ELSE "raised"]
    <3>2. v \in Task /\ v.k = t.k /\ v.pc \in {"ok", "raised"}
      BY <2>t DEF Task, TaskPC
    <3>3. Become(p, v)
      BY <2>6 DEF ClosePipeline
    <3> HIDE DEF v
    <3>4. QED
      BY <2>6, <2>t, <3>1, <3>2, <3>3, BecomeTyped DEF ClosePipeline, TypeInv, TypeOK, LastStep
  <2>7. QED
    BY <1>9, <2>1, <2>2, <2>3, <2>4, <2>5, <2>6 DEF RunPipeline
<1>10. QED
  BY <1>1, <1>2, <1>3, <1>4, <1>5, <1>6, <1>7, <1>8, <1>9 DEF Next, Main

(* Every state is well typed: rows, context, tasks and counters.            *)
THEOREM ExecutionTypeCorrect == Spec => []TypeOK
<1>1. TypeInv => TypeOK
  BY DEF TypeInv
<1>2. QED
  BY <1>1, InitTypeInv, NextTypeInv, PTL DEF Spec

-----------------------------------------------------------------------------
(* Where the pipelines are, given where the execution is.  The last part is *)
(* what lets a sequential stage be closed before all its pipelines ended:   *)
(* those after the one that failed have not begun.                          *)
ControlInv ==
    /\ exec.pc \in {"open", "run"} => ~exec.hit
    /\ exec.pc \in {"open", "run"} =>
          \A q \in Pipelines : /\ StageOf[q] < exec.stage => task[q].pc = "ok"
                               /\ StageOf[q] > exec.stage => ~Started(q)
    /\ exec.pc = "open" => \A q \in Pipelines : StageOf[q] = exec.stage => ~Started(q)
    /\ exec.pc \in {"page", "usage"} =>
          \A q \in Pipelines : task[q].pc = IF exec.hit THEN "waiting" ELSE "ok"
    /\ NothingLeftRunning
    /\ exec.pc = "run" /\ RunMode[exec.stage] = "sequential" =>
          \A p, q \in Pipelines :
             StageOf[p] = exec.stage /\ StageOf[q] = exec.stage /\ q < p /\ Started(p) =>
                 task[q].pc = "ok"

(* A step of a pipeline moves its own task only, from "waiting" only in its *)
(* turn, and never out of an end.                                           *)
LEMMA TaskStep ==
    ASSUME TypeInv, NEW p \in Pipelines, RunPipeline(p)
    PROVE  /\ exec' = exec /\ mode' = mode
           /\ \A q \in Pipelines : q # p => task'[q] = task[q]
           /\ ~Ended(p) /\ task'[p].pc # "waiting"
           /\ ~Started(p) => Turn(p)
<1>0. task \in [Pipelines -> Task]
  BY DEF TypeInv
<1>1. CASE OpenPipeline(p)
  <2>1. /\ exec' = exec /\ mode' = mode /\ Turn(p) /\ task[p].pc = "waiting"
        /\ \E v \in Task : v.pc # "waiting" /\ Become(p, v)
    <3>1. task[p] \in Task
      BY <1>0
    <3>2. /\ [task[p] EXCEPT !.pc = "raised", !.error = "fk"] \in Task
          /\ [task[p] EXCEPT !.pc = "raised", !.error = "other"] \in Task
          /\ [task[p] EXCEPT !.pc = "close"] \in Task
          /\ [task[p] EXCEPT !.pc = "step"] \in Task
      BY <3>1 DEF Task, TaskPC, Error
    <3>3. /\ [task[p] EXCEPT !.pc = "raised", !.error = "fk"].pc = "raised"
          /\ [task[p] EXCEPT !.pc = "raised", !.error = "other"].pc = "raised"
          /\ [task[p] EXCEPT !.pc = "close"].pc = "close"
          /\ [task[p] EXCEPT !.pc = "step"].pc = "step"
      BY <3>1 DEF Task
    <3>4. \/ Become(p, [task[p] EXCEPT !.pc = "raised", !.error = "fk"])
          \/ Become(p, [task[p] EXCEPT !.pc = "raised", !.error = "other"])
          \/ Become(p, [task[p] EXCEPT !.pc = "close"])
          \/ Become(p, [task[p] EXCEPT !.pc = "step"])
      BY <1>1 DEF OpenPipeline
    <3>5. exec' = exec /\ mode' = mode /\ Turn(p) /\ task[p].pc = "waiting"
      BY <1>1 DEF OpenPipeline
    <3>6. QED
      BY <3>2, <3>3, <3>4, <3>5
  <2>2. QED
    BY <1>0, <2>1 DEF Become, Started, Ended
<1>2. CASE StartStep(p)
  BY <1>0, <1>2 DEF StartStep, Become, Started, Ended, Task
<1>3. CASE HandlerSucceeds(p)
  BY <1>0, <1>3 DEF HandlerSucceeds, Become, Started, Ended, Task
<1>4. CASE HandlerFails(p)
  BY <1>0, <1>4 DEF HandlerFails, Become, Started, Ended, Task
<1>5. CASE RecordStep(p)
  BY <1>0, <1>5 DEF RecordStep, Become, Started, Ended, Task
<1>6. CASE ClosePipeline(p)
  BY <1>0, <1>6 DEF ClosePipeline, Become, Started, Ended, Task
<1>7. QED
  BY <1>1, <1>2, <1>3, <1>4, <1>5, <1>6 DEF RunPipeline

(* Only the pipelines of the stage that runs take steps. *)
LEMMA StepsInStage ==
    ASSUME TypeInv, ControlInv, NEW p \in Pipelines, RunPipeline(p)
    PROVE  exec.pc = "run" /\ StageOf[p] = exec.stage
<1>1. CASE ~Started(p)
  BY <1>1, TaskStep DEF Turn
<1>2. CASE Started(p)
  <2>1. ~Ended(p) /\ task[p].pc # "waiting" /\ task[p].pc # "ok"
    BY <1>2, TaskStep DEF Ended, Started
  <2>2. Running /\ exec.pc \notin {"page", "usage"}
    BY <1>2, <2>1 DEF ControlInv, NothingLeftRunning
  <2>3. exec.pc \in {"open", "run"}
    BY <2>2 DEF Running
  <2>4. StageOf[p] \in Nat /\ exec.stage \in Nat
    BY LayoutAssumption DEF TypeInv, TypeOK, Exec, Stages
  <2>5. ~(StageOf[p] < exec.stage) /\ ~(StageOf[p] > exec.stage)
    BY <1>2, <2>1, <2>3 DEF ControlInv
  <2>6. StageOf[p] = exec.stage
    BY <2>4, <2>5
  <2>7. QED
    BY <1>2, <2>3, <2>6 DEF ControlInv
<1>3. QED
  BY <1>1, <1>2

LEMMA InitControlInv == Init => ControlInv
BY DEF Init, ControlInv, NothingLeftRunning, Running, Started, Ended, FreshTask

(* A stage whose pipelines are joined leaves none of them under way. *)
LEMMA JoinedHasEnded ==
    ASSUME TypeInv, ControlInv, exec.pc = "run", Joined(exec.stage),
           NEW p \in Pipelines, Started(p)
    PROVE  Ended(p)
<1> DEFINE s == exec.stage
<1>1. /\ StageOf[p] \in Nat /\ s \in Nat
      /\ p \in Nat
  BY LayoutAssumption DEF TypeInv, TypeOK, Exec, Stages, Pipelines
<1>2. CASE StageOf[p] # s
  <2>1. StageOf[p] < s
    BY <1>1, <1>2 DEF ControlInv
  <2>2. QED
    BY <2>1 DEF ControlInv, Ended
<1>3. CASE StageOf[p] = s /\ \A q \in InStage(s) : Ended(q)
  BY <1>3 DEF InStage
<1>4. CASE StageOf[p] = s /\ RunMode[s] = "sequential" /\ Failed(s) # {}
  <2>1. PICK q \in Pipelines : StageOf[q] = s /\ task[q].pc = "raised"
    BY <1>4 DEF Failed, InStage
  <2>2. Started(q) /\ q \in Nat
    BY <2>1 DEF Started, Pipelines
  <2>3. CASE q < p
    BY <1>4, <2>1, <2>3 DEF ControlInv
  <2>4. CASE p < q
    BY <1>4, <2>1, <2>2, <2>4 DEF ControlInv, Ended
  <2>5. CASE p = q
    BY <2>1, <2>5 DEF Ended
  <2>6. QED
    BY <1>1, <2>2, <2>3, <2>4, <2>5
<1>5. QED
  BY <1>2, <1>3, <1>4 DEF Joined

(* Where none failed, all succeeded. *)
LEMMA JoinedIsDone ==
    ASSUME TypeInv, ControlInv, exec.pc = "run", Joined(exec.stage), Failed(exec.stage) = {},
           NEW p \in InStage(exec.stage)
    PROVE  task[p].pc = "ok"
BY DEF Joined, Failed, Ended, InStage

LEMMA NextControlInv == TypeInv /\ ControlInv /\ [Next]_vars => ControlInv'
<1> SUFFICES ASSUME TypeInv, ControlInv, [Next]_vars PROVE ControlInv'
  OBVIOUS
<1> USE DEF NothingLeftRunning, Running, Started, Ended
<1>t. exec \in Exec /\ exec.stage \in Nat /\ \A q \in Pipelines : StageOf[q] \in Nat
  BY LayoutAssumption DEF TypeInv, TypeOK, Exec, Stages
<1>1. CASE UNCHANGED vars
  BY <1>1 DEF vars, ControlInv
<1>2. CASE Begin
  <2>1. \A q \in Pipelines : task'[q].pc = "waiting"
    BY <1>2 DEF Begin, FreshTask
  <2>2. /\ exec'.pc \in {"raised", "page", "open"} /\ exec'.stage = 1
        /\ exec'.hit <=> exec'.pc = "page"
    BY <1>2 DEF Begin
  <2>3. \A q \in Pipelines : StageOf[q] >= 1
    BY LayoutAssumption DEF Stages
  <2>4. QED
    BY <1>t, <2>1, <2>2, <2>3 DEF ControlInv
<1>3. CASE OpenStage
  <2>1. /\ exec.pc = "open" /\ exec'.pc = "run" /\ exec'.stage = exec.stage
        /\ exec'.hit = exec.hit /\ task' = task
    BY <1>3, <1>t DEF OpenStage, Exec
  <2>2. QED
    BY <1>t, <2>1 DEF ControlInv
<1>4. CASE CloseStage
  <2>0. /\ exec.pc = "run" /\ Joined(exec.stage) /\ task' = task
    BY <1>4 DEF CloseStage
  <2>1. CASE exec'.pc = "raised"
    BY <2>0, <2>1, JoinedHasEnded DEF ControlInv
  <2>2. CASE /\ Failed(exec.stage) = {} /\ exec.stage < NStages
             /\ exec' = [exec EXCEPT !.pc = "open", !.stage = exec.stage + 1]
    <3>1. exec'.pc = "open" /\ exec'.stage = exec.stage + 1 /\ exec'.hit = exec.hit
      BY <1>t, <2>2 DEF Exec
    <3>2. \A q \in Pipelines : StageOf[q] < exec.stage + 1 => task[q].pc = "ok"
      BY <1>t, <2>0, <2>2, JoinedIsDone DEF ControlInv, InStage
    <3>3. \A q \in Pipelines : StageOf[q] >= exec.stage + 1 => ~Started(q)
      BY <1>t, <2>0 DEF ControlInv
    <3>4. QED
      BY <1>t, <2>0, <3>1, <3>2, <3>3 DEF ControlInv
  <2>3. CASE /\ Failed(exec.stage) = {} /\ exec.stage = NStages
             /\ exec' = [exec EXCEPT !.pc = IF mode = "preview" THEN "returned" ELSE "page"]
    <3>1. exec'.pc \in {"returned", "page"} /\ exec'.hit = exec.hit
      BY <1>t, <2>3 DEF Exec
    <3>2. \A q \in Pipelines : StageOf[q] <= exec.stage
      BY <2>3, LayoutAssumption DEF Stages
    <3>3. \A q \in Pipelines : task[q].pc = "ok"
      BY <1>t, <2>0, <2>3, <3>2, JoinedIsDone DEF ControlInv, InStage
    <3>4. ~exec.hit
      BY <2>0 DEF ControlInv
    <3>5. QED
      BY <2>0, <3>1, <3>3, <3>4 DEF ControlInv
  <2>4. QED
    BY <1>4, <1>t, <2>1, <2>2, <2>3 DEF CloseStage, Exec
<1>5. CASE CreatePage
  <2>1. /\ exec.pc = "page" /\ exec'.pc \in {"usage", "raised"}
        /\ exec'.hit = exec.hit /\ task' = task
    BY <1>5, <1>t DEF CreatePage, PageIsMade, PageCallRaises, Exec
  <2>2. QED
    BY <2>1 DEF ControlInv
<1>6. CASE RecordUsage
  <2>1. exec.pc = "usage" /\ exec'.pc = "returned" /\ task' = task
    BY <1>6, <1>t DEF RecordUsage, SaveUsage, Exec
  <2>2. QED
    BY <2>1 DEF ControlInv
<1>7. CASE CacheExpires
  BY <1>7 DEF CacheExpires, ControlInv
<1>8. CASE Crash
  <2>1. exec'.pc = "idle" /\ \A q \in Pipelines : task'[q].pc = "waiting"
    BY <1>8, <1>t DEF Crash, Exec, FreshTask
  <2>2. QED
    BY <2>1 DEF ControlInv
<1>9. ASSUME NEW p \in Pipelines, RunPipeline(p)
      PROVE  ControlInv'
  <2>1. /\ exec' = exec /\ exec.pc = "run" /\ StageOf[p] = exec.stage
        /\ \A q \in Pipelines : q # p => task'[q] = task[q]
        /\ task[p].pc \notin {"ok", "raised"}
        /\ task[p].pc = "waiting" => Turn(p)
    BY <1>9, TaskStep, StepsInStage
  <2>2. \A q \in Pipelines : task[q].pc = "ok" => task'[q].pc = "ok"
    BY <2>1
  <2>3. \A q \in Pipelines : StageOf[q] # exec.stage => task'[q] = task[q]
    BY <2>1
  <2>4. ASSUME RunMode[exec.stage] = "sequential",
               NEW u \in Pipelines, NEW q \in Pipelines,
               StageOf[u] = exec.stage, StageOf[q] = exec.stage, q < u, task'[u].pc # "waiting"
        PROVE  task'[q].pc = "ok"
    <3>1. CASE task[u].pc # "waiting"
      BY <2>1, <2>2, <2>4, <3>1 DEF ControlInv
    <3>2. CASE task[u].pc = "waiting"
      <4>1. u = p
        BY <2>1, <2>4, <3>2
      <4>2. QED
        BY <2>1, <2>2, <2>4, <3>2, <4>1 DEF Turn, InStage
    <3>3. QED
      BY <3>1, <3>2
  <2>5. QED
    BY <1>t, <2>1, <2>2, <2>3, <2>4 DEF ControlInv
<1>10. QED
  BY <1>1, <1>2, <1>3, <1>4, <1>5, <1>6, <1>7, <1>8, <1>9 DEF Next, Main

LEMMA InitBase == Init => TypeInv /\ ControlInv
BY InitTypeInv, InitControlInv

LEMMA NextBase == TypeInv /\ ControlInv /\ [Next]_vars => TypeInv' /\ ControlInv'
BY NextTypeInv, NextControlInv

(* Stages are barriers, also when pipelines of the same stage fail.         *)
THEOREM BarrierHolds == Spec => []StageBarrier
<1>1. ASSUME TypeInv, ControlInv PROVE StageBarrier
  <2> SUFFICES ASSUME NEW p \in Pipelines, Started(p), ~Ended(p)
               PROVE  \A q \in Pipelines : /\ StageOf[q] < StageOf[p] => task[q].pc = "ok"
                                           /\ StageOf[q] > StageOf[p] => ~Started(q)
    BY DEF StageBarrier
  <2>1. exec.pc \in {"open", "run"}
    BY <1>1 DEF ControlInv, NothingLeftRunning, Running, Started, Ended
  <2>2. StageOf[p] \in Nat /\ exec.stage \in Nat
    BY <1>1, LayoutAssumption DEF TypeInv, TypeOK, Exec, Stages
  <2>3. StageOf[p] = exec.stage
    BY <1>1, <2>1, <2>2 DEF ControlInv, Ended
  <2>4. QED
    BY <1>1, <2>1, <2>3 DEF ControlInv
<1>2. QED
  BY <1>1, InitBase, NextBase, PTL DEF Spec

(* No pipeline outlives its execution: a sequential stage that stops at its *)
(* first failure has started none of the later ones.                        *)
THEOREM NoPipelineOutlives == Spec => []NothingLeftRunning
<1>1. TypeInv /\ ControlInv => NothingLeftRunning
  BY DEF ControlInv
<1>2. QED
  BY <1>1, InitBase, NextBase, PTL DEF Spec

-----------------------------------------------------------------------------
(* What a step has left, so that the run may go on. *)
Settled(x) == \/ ctx[x] = "outputs"
              \/ ctx[x] = "recovery" /\ FailurePolicy[x] # "fail"

(* The steps a pipeline has behind it are settled, unless it carries an     *)
(* exception to its end.                                                    *)
StepInvOf(p) ==
    LET t == task[p]
    IN  /\ t.pc = "waiting" => t.k = 1
        /\ t.pc \in {"waiting", "step", "handler", "ok"} => t.error = "none"
        /\ t.pc \in {"step", "handler"} => \A k \in 1..StepCount[p] : k < t.k => Settled(<<p, k>>)
        /\ t.pc = "record" /\ t.error = "none" =>
              \A k \in 1..StepCount[p] : k <= t.k => Settled(<<p, k>>)
        /\ t.pc \in {"close", "ok"} /\ t.error = "none" =>
              \A k \in 1..StepCount[p] : Settled(<<p, k>>)

StepInv == \A p \in Pipelines : StepInvOf(p)

LEMMA InitStepInv == Init => StepInv
BY DEF Init, StepInv, StepInvOf, FreshTask

(* The handler of a step settles its own step at most. *)
LEMMA OthersStaySettled ==
    ASSUME TypeInv, NEW p \in Pipelines, NEW k \in Nat, NEW left,
           ctx' = [ctx EXCEPT ![<<p, k>>] = left]
    PROVE  \A q \in Pipelines : \A j \in 1..StepCount[q] :
              (q # p \/ j # k) /\ Settled(<<q, j>>) => Settled(<<q, j>>)'
<1> SUFFICES ASSUME NEW q \in Pipelines, NEW j \in 1..StepCount[q], q # p \/ j # k
             PROVE  ctx'[<<q, j>>] = ctx[<<q, j>>]
  BY DEF Settled
<1>1. <<q, j>> \in Steps /\ <<q, j>> # <<p, k>>
  BY StepOf
<1>2. QED
  BY <1>1 DEF TypeInv, TypeOK

LEMMA NextStepInv == TypeInv /\ StepInv /\ [Next]_vars => StepInv'
<1> SUFFICES ASSUME TypeInv, StepInv, [Next]_vars PROVE StepInv'
  OBVIOUS
<1>1. CASE UNCHANGED <<task, ctx>>
  BY <1>1 DEF StepInv, StepInvOf, Settled
<1>2. CASE \A p \in Pipelines : task'[p] = FreshTask
  <2>1. \A p \in Pipelines : /\ task'[p].pc = "waiting" /\ task'[p].error = "none"
                             /\ task'[p].k = 1
    BY <1>2 DEF FreshTask
  <2>2. QED
    BY <2>1 DEF StepInv, StepInvOf
<1>3. ASSUME NEW p \in Pipelines, RunPipeline(p)
      PROVE  StepInv'
  <2> DEFINE t == task[p]
  <2>k. PICK n : n = task[p].k
    OBVIOUS
  <2> DEFINE x == <<p, n>>
  <2>t. /\ t \in Task /\ t.k \in 1..LastStep(p) /\ t.k \in Nat /\ StepInvOf(p)
        /\ t.pc \in {"step", "handler", "record"} => StepCount[p] # 0
        /\ task \in [Pipelines -> Task]
        /\ n = t.k
    BY <2>k DEF TypeInv, TypeOK, Task, LastStep, AtStep, StepInv
  <2>n. StepCount[p] \in Nat
    BY LayoutAssumption
  <2>q. \A q \in Pipelines : q # p => task'[q] = task[q]
    BY <1>3, TaskStep
  <2>c. CASE ctx' = ctx /\ StepInvOf(p)'
    <3>1. \A y \in Steps : Settled(y)' <=> Settled(y)
      BY <2>c DEF Settled
    <3>2. ASSUME NEW q \in Pipelines, q # p PROVE StepInvOf(q)'
      BY <2>q, <2>c, <3>2 DEF StepInv, StepInvOf, Settled
    <3>3. QED
      BY <2>c, <3>2 DEF StepInv
  <2>h. ASSUME NEW left, ctx' = [ctx EXCEPT ![x] = left], t.pc = "handler",
               StepInvOf(p)'
        PROVE  StepInv'
    <3>1. ASSUME NEW q \in Pipelines, q # p PROVE StepInvOf(q)'
      <4>1. \A j \in 1..StepCount[q] : Settled(<<q, j>>) => Settled(<<q, j>>)'
        BY <2>t, <2>h, <3>1, OthersStaySettled
      <4>2. task'[q] = task[q] /\ StepInvOf(q)
        BY <2>q, <3>1 DEF StepInv
      <4> HIDE DEF t, x
      <4>3. QED
        BY <4>1, <4>2 DEF StepInvOf
    <3>2. QED
      BY <2>h, <3>1 DEF StepInv
  <2>1. CASE OpenPipeline(p)
    <3>1. ctx' = ctx /\ t.pc = "waiting"
      BY <2>1 DEF OpenPipeline
    <3>2. \/ /\ task'[p].pc = "raised"
          \/ /\ StepCount[p] = 0 /\ task'[p].pc = "close"
             /\ task'[p].k = t.k /\ task'[p].error = t.error
          \/ /\ StepCount[p] # 0 /\ task'[p].pc = "step"
             /\ task'[p].k = t.k /\ task'[p].error = t.error
      <4> DEFINE fk    == [t EXCEPT !.pc = "raised", !.error = "fk"]
                 other == [t EXCEPT !.pc = "raised", !.error = "other"]
                 go    == [t EXCEPT !.pc = IF StepCount[p] = 0 THEN "close" ELSE "step"]
      <4>1. /\ fk.pc = "raised" /\ other.pc = "raised"
            /\ go.pc = (IF StepCount[p] = 0 THEN "close" ELSE "step")
            /\ go.k = t.k /\ go.error = t.error
        BY <2>t DEF Task
      <4>2. Become(p, fk) \/ Become(p, other) \/ Become(p, go)
        BY <2>1 DEF OpenPipeline
      <4> HIDE DEF fk, other, go
      <4>3. QED
        BY <2>t, <4>1, <4>2 DEF Become
    <3>3. t.k = 1 /\ t.error = "none"
      BY <2>t, <3>1 DEF StepInvOf
    <3>4. StepInvOf(p)'
      BY <2>n, <3>1, <3>2, <3>3 DEF StepInvOf
    <3>5. QED
      BY <2>c, <3>1, <3>4
  <2>2. CASE StartStep(p)
    <3>1. ctx' = ctx /\ t.pc = "step"
      BY <2>2 DEF StartStep
    <3>2. \/ task'[p].pc = "close" /\ task'[p].error = "other"
          \/ task'[p].pc = "handler" /\ task'[p].k = t.k /\ task'[p].error = t.error
      <4> DEFINE no == [t EXCEPT !.pc = "close", !.error = "other"]
                 go == [t EXCEPT !.pc = "handler"]
      <4>1. /\ no.pc = "close" /\ no.error = "other"
            /\ go.pc = "handler" /\ go.k = t.k /\ go.error = t.error
        BY <2>t DEF Task
      <4>2. Become(p, no) \/ Become(p, go)
        BY <2>2 DEF StartStep
      <4> HIDE DEF no, go
      <4>3. QED
        BY <2>t, <4>1, <4>2 DEF Become
    <3>3. StepInvOf(p)'
      BY <2>t, <3>1, <3>2 DEF StepInvOf, Settled
    <3>4. QED
      BY <2>c, <3>1, <3>3
  <2>3. CASE HandlerSucceeds(p)
    <3>1. /\ ctx' = [ctx EXCEPT ![x] = "outputs"] /\ t.pc = "handler"
          /\ task'[p].pc = "record" /\ task'[p].k = n
      BY <2>3, <2>t DEF HandlerSucceeds, Become, Task
    <3>2. x \in Steps
      BY <2>t, <3>1, StepOf DEF LastStep
    <3>3. Settled(x)'
      BY <3>1, <3>2 DEF Settled, TypeInv, TypeOK
    <3>4. \A k \in 1..StepCount[p] : k < n => Settled(<<p, k>>)'
      <4>1. \A k \in 1..StepCount[p] : k # n /\ Settled(<<p, k>>) => Settled(<<p, k>>)'
        BY <2>t, <3>1, OthersStaySettled
      <4>2. \A k \in 1..StepCount[p] : k < n => Settled(<<p, k>>)
        BY <2>t, <3>1 DEF StepInvOf
      <4>3. QED
        BY <2>t, <2>n, <4>1, <4>2
    <3>5. \A k \in 1..StepCount[p] : k <= n => Settled(<<p, k>>)'
      BY <2>t, <2>n, <3>3, <3>4
    <3>6. StepInvOf(p)'
      BY <3>1, <3>5 DEF StepInvOf
    <3>7. QED
      BY <2>h, <3>1, <3>6
  <2>4. CASE HandlerFails(p)
    <3> DEFINE left == IF FailurePolicy[x] = "fail" THEN "failure" ELSE "recovery"
    <3>1. /\ ctx' = [ctx EXCEPT ![x] = left] /\ t.pc = "handler"
          /\ task'[p].pc = "record" /\ task'[p].k = n
          /\ task'[p].error = (IF FailurePolicy[x] = "fail" THEN "other" ELSE t.error)
      BY <2>4, <2>t DEF HandlerFails, Become, Task
    <3>2. x \in Steps
      BY <2>t, <3>1, StepOf DEF LastStep
    <3>3. task'[p].error = "none" => Settled(x)'
      BY <3>1, <3>2 DEF Settled, TypeInv, TypeOK
    <3>4. \A k \in 1..StepCount[p] : k < n => Settled(<<p, k>>)'
      <4> HIDE DEF left
      <4>1. \A k \in 1..StepCount[p] : k # n /\ Settled(<<p, k>>) => Settled(<<p, k>>)'
        BY <2>t, <3>1, OthersStaySettled
      <4>2. \A k \in 1..StepCount[p] : k < n => Settled(<<p, k>>)
        BY <2>t, <3>1 DEF StepInvOf
      <4>3. QED
        BY <2>t, <2>n, <4>1, <4>2
    <3>5. task'[p].error = "none" => \A k \in 1..StepCount[p] : k <= n => Settled(<<p, k>>)'
      BY <2>t, <2>n, <3>3, <3>4
    <3>6. StepInvOf(p)'
      BY <3>1, <3>5 DEF StepInvOf
    <3>7. QED
      <4> HIDE DEF left
      <4>1. QED
        BY <2>h, <3>1, <3>6
  <2>5. CASE RecordStep(p)
    <3>1. ctx' = ctx /\ t.pc = "record"
      BY <2>5 DEF RecordStep
    <3>2. \/ /\ t.error = "none" /\ t.k < StepCount[p]
             /\ task'[p].pc = "step" /\ task'[p].k = t.k + 1 /\ task'[p].error = t.error
          \/ /\ ~(t.error = "none" /\ t.k < StepCount[p])
             /\ task'[p].pc = "close" /\ task'[p].error = t.error
      <4> DEFINE on  == [t EXCEPT !.pc = "step", !.k = t.k + 1]
                 end == [t EXCEPT !.pc = "close"]
      <4>1. /\ on.pc = "step" /\ on.k = t.k + 1 /\ on.error = t.error
            /\ end.pc = "close" /\ end.error = t.error
        BY <2>t DEF Task
      <4>2. Become(p, IF t.error = "none" /\ t.k < StepCount[p] THEN on ELSE end)
        BY <2>5 DEF RecordStep
      <4> HIDE DEF on, end
      <4>3. QED
        BY <2>t, <4>1, <4>2 DEF Become
    <3>3. t.error = "none" => \A k \in 1..StepCount[p] : k <= t.k => Settled(<<p, k>>)'
      BY <2>t, <3>1 DEF StepInvOf, Settled
    <3>4. t.k <= StepCount[p]
      BY <2>t, <3>1 DEF LastStep
    <3>5. StepInvOf(p)'
      BY <2>t, <2>n, <3>2, <3>3, <3>4 DEF StepInvOf
    <3>6. QED
      BY <2>c, <3>1, <3>5
  <2>6. CASE ClosePipeline(p)
    <3>1. ctx' = ctx /\ t.pc = "close"
      BY <2>6 DEF ClosePipeline
    <3>2. /\ task'[p].pc = (IF t.error = "none" THEN "ok" ELSE "raised")
          /\ task'[p].error = t.error
      BY <2>6, <2>t DEF ClosePipeline, Become, Task
    <3>3. StepInvOf(p)'
      BY <2>t, <3>1, <3>2 DEF StepInvOf, Settled
    <3>4. QED
      BY <2>c, <3>1, <3>3
  <2>7. QED
    BY <1>3, <2>1, <2>2, <2>3, <2>4, <2>5, <2>6 DEF RunPipeline
<1>4. QED
  BY <1>1, <1>2, <1>3
     DEF Next, Main, Begin, OpenStage, CloseStage, CreatePage, PageIsMade,
         PageCallRaises, RecordUsage, SaveUsage, CacheExpires, Crash, vars

(* A page is built from a context in which every step of every stage is     *)
(* settled, unless the payload was cached.                                  *)
THEOREM PageIsComplete == Spec => []PageNeedsEveryStep
<1> DEFINE IInv == (TypeInv /\ ControlInv) /\ StepInv
<1>1. Init => IInv
  BY InitBase, InitStepInv
<1>2. IInv /\ [Next]_vars => IInv'
  BY NextBase, NextStepInv
<1>3. IInv => PageNeedsEveryStep
  <2> SUFFICES ASSUME ControlInv, StepInv, exec.pc \in {"page", "usage"}, ~exec.hit,
                      NEW x \in Steps
               PROVE  Settled(x)
    BY DEF PageNeedsEveryStep, Settled
  <2>1. PICK p \in Pipelines : \E k \in 1..StepCount[p] : x = <<p, k>>
    BY StepParts
  <2>2. task[p].pc = "ok"
    BY DEF ControlInv
  <2>3. QED
    BY <2>1, <2>2 DEF StepInv, StepInvOf
<1>4. QED
  <2> HIDE DEF IInv
  <2>1. QED
    BY <1>1, <1>2, <1>3, PTL DEF Spec

-----------------------------------------------------------------------------
LEMMA ModeKept == [Next]_vars => mode' = mode
BY DEF Next, vars, Begin, Main, OpenStage, CloseStage, CreatePage, RecordUsage, CacheExpires, Crash,
       RunPipeline, OpenPipeline, StartStep, HandlerSucceeds, HandlerFails, RecordStep,
       ClosePipeline

IsDry == mode = "dry run"

(* An execution that is under way has not been recorded. *)
DryInv ==
    /\ usage <= attempts
    /\ Running => usage < attempts
    /\ IsDry => pages = 0

LEMMA NextDryInv == TypeInv /\ ControlInv /\ DryInv /\ [Next]_vars => DryInv'
<1> SUFFICES ASSUME TypeInv, ControlInv, DryInv, [Next]_vars PROVE DryInv'
  OBVIOUS
<1>t. exec \in Exec /\ pages \in Nat /\ usage \in Nat /\ attempts \in Nat
  BY BoundsAssumption DEF TypeInv, TypeOK
<1>m. IsDry' <=> IsDry
  BY ModeKept DEF IsDry
<1>1. ASSUME UNCHANGED <<pages, usage, attempts>>, Running' => Running
      PROVE  DryInv'
  BY <1>1, <1>m DEF DryInv
<1>2. CASE UNCHANGED vars \/ CacheExpires
  <2>1. UNCHANGED <<exec, pages, usage, attempts>>
    BY <1>2 DEF vars, CacheExpires
  <2>2. QED
    BY <1>1, <2>1 DEF Running
<1>3. CASE Begin
  <2>1. attempts' = attempts + 1 /\ usage' = usage /\ pages' = pages
    BY <1>3 DEF Begin
  <2>2. QED
    BY <1>t, <1>m, <2>1 DEF DryInv, Running
<1>4. CASE OpenStage \/ CloseStage
  <2>1. UNCHANGED <<pages, usage, attempts>> /\ Running
    BY <1>4 DEF OpenStage, CloseStage, Running
  <2>2. QED
    BY <1>1, <2>1
<1>5. CASE CreatePage
  <2>1. UNCHANGED <<usage, attempts>> /\ Running
    BY <1>5 DEF CreatePage, Running
  <2>2. IsDry => pages' = pages
    <3>1. IsDry => Made = 0
      BY DEF IsDry, Made
    <3>2. pages' \in {pages, pages + Made}
      BY <1>5 DEF CreatePage, PageIsMade, PageCallRaises
    <3>3. QED
      BY <1>t, <3>1, <3>2
  <2>3. QED
    BY <1>m, <2>1, <2>2 DEF DryInv
<1>6. CASE RecordUsage
  <2>1. /\ UNCHANGED <<pages, attempts>> /\ Running /\ usage' \in {usage, usage + 1}
        /\ exec'.pc = "returned"
    BY <1>6, <1>t DEF RecordUsage, SaveUsage, Running, Exec
  <2>2. ~Running'
    BY <2>1 DEF Running
  <2>3. QED
    BY <1>t, <1>m, <2>1, <2>2 DEF DryInv
<1>7. CASE Crash
  <2>1. UNCHANGED <<pages, usage, attempts>> /\ Running
    BY <1>7 DEF Crash
  <2>2. QED
    BY <1>1, <2>1
<1>8. ASSUME NEW p \in Pipelines, RunPipeline(p)
      PROVE  DryInv'
  <2>1. exec' = exec
    BY <1>8, TaskStep
  <2>2. UNCHANGED <<pages, usage, attempts>>
    BY <1>8 DEF RunPipeline, OpenPipeline, StartStep, HandlerSucceeds, HandlerFails, RecordStep,
                ClosePipeline
  <2>3. QED
    BY <1>1, <2>1, <2>2 DEF Running
<1>9. QED
  BY <1>2, <1>3, <1>4, <1>5, <1>6, <1>7, <1>8 DEF Next, Main

(* A page that is about to be recorded has no usage record yet. *)
UsageInv ==
    /\ usage <= pages
    /\ exec.pc = "usage" => usage < pages /\ pages - usage <= faults + 1
    /\ exec.pc # "usage" => pages - usage <= faults

(* A page without a usage record is a call that failed, in the long run     *)
(* over all executions.                                                     *)
THEOREM EveryPageIsPaidFor == Spec => []UsageFollowsPages
<1> USE DEF UsageInv
<1> DEFINE Recorded == IsDry \/ UsageInv
<1>1. Init => Recorded /\ DryInv
  BY BoundsAssumption DEF Init, DryInv, Running
<1>2. TypeInv /\ ControlInv /\ Recorded /\ [Next]_vars => Recorded'
  <2> SUFFICES ASSUME TypeInv, ControlInv, UsageInv, [Next]_vars, ~IsDry
               PROVE  UsageInv'
    BY ModeKept DEF IsDry
  <2>t. exec \in Exec /\ pages \in Nat /\ usage \in Nat /\ faults \in Nat
    BY BoundsAssumption DEF TypeInv, TypeOK
  <2>0. Fault => faults' = faults + 1
    BY DEF Fault
  <2>1. CASE UNCHANGED vars
    BY <2>1 DEF vars
  <2>2. CASE Begin
    <3>1. /\ exec.pc # "usage" /\ exec'.pc # "usage"
          /\ pages' = pages /\ usage' = usage /\ faults' = faults
      BY <2>2 DEF Begin, Running
    <3>2. QED
      BY <2>t, <3>1
  <2>3. CASE OpenStage
    <3>1. exec.pc = "open" /\ exec'.pc = "run" /\ pages' = pages /\ usage' = usage
      BY <2>3, <2>t DEF OpenStage, Exec
    <3>2. faults' \in {faults, faults + 1}
      BY <2>3, <2>0 DEF OpenStage, SaveStage
    <3>3. QED
      BY <2>t, <3>1, <3>2
  <2>4. CASE CloseStage
    <3>1. exec.pc = "run" /\ exec'.pc # "usage" /\ pages' = pages /\ usage' = usage
      BY <2>4, <2>t DEF CloseStage, Exec
    <3>2. faults' \in {faults, faults + 1}
      BY <2>4, <2>0 DEF CloseStage, SaveStage
    <3>3. pages - usage <= faults' /\ usage <= pages
      BY <2>t, <3>1, <3>2
    <3>4. QED
      BY <3>1, <3>3
  <2>5. CASE CreatePage
    <3>1. /\ exec.pc = "page" /\ usage' = usage
          /\ \/ pages' = pages + 1 /\ exec'.pc = "usage" /\ faults' = faults
             \/ pages' \in {pages, pages + 1} /\ exec'.pc = "raised" /\ faults' = faults + 1
      <4>1. Made = 1
        BY DEF IsDry, Made
      <4>2. QED
        BY <2>5, <2>t, <2>0, <4>1 DEF CreatePage, PageIsMade, PageCallRaises, Exec
    <3>2. QED
      BY <2>t, <3>1
  <2>6. CASE RecordUsage
    <3>1. /\ exec.pc = "usage" /\ exec'.pc = "returned" /\ pages' = pages
          /\ \/ usage' = usage + 1 /\ faults' = faults
             \/ usage' = usage /\ faults' = faults + 1
      BY <2>6, <2>t, <2>0 DEF RecordUsage, SaveUsage, Exec
    <3>2. QED
      BY <2>t, <3>1
  <2>7. CASE CacheExpires
    BY <2>7 DEF CacheExpires
  <2>8. CASE Crash
    <3>1. exec'.pc = "idle" /\ faults' = faults + 1 /\ pages' = pages /\ usage' = usage
      BY <2>8, <2>t, <2>0 DEF Crash, Exec
    <3>2. QED
      BY <2>t, <3>1
  <2>9. ASSUME NEW p \in Pipelines, RunPipeline(p)
        PROVE  UsageInv'
    <3>1. exec' = exec /\ exec.pc = "run"
      BY <2>9, TaskStep, StepsInStage
    <3>2. pages' = pages /\ usage' = usage /\ faults' \in {faults, faults + 1}
      BY <2>9, <2>0
         DEF RunPipeline, OpenPipeline, StartStep, HandlerSucceeds, HandlerFails, RecordStep,
             ClosePipeline, SaveStep, SavePipeline, rows
    <3>3. pages - usage <= faults' /\ usage <= pages
      BY <2>t, <3>1, <3>2
    <3>4. QED
      BY <3>1, <3>2, <3>3
  <2>10. QED
    BY <2>1, <2>2, <2>3, <2>4, <2>5, <2>6, <2>7, <2>8, <2>9 DEF Next, Main
<1>3. TypeInv /\ Recorded /\ DryInv => UsageFollowsPages
  <2>d. CASE IsDry
    BY <2>d DEF UsageFollowsPages, DryInv, IsDry
  <2> SUFFICES ASSUME TypeInv, UsageInv, ~IsDry
               PROVE  /\ usage <= pages
                      /\ pages - usage <= faults + (IF exec.pc = "usage" THEN 1 ELSE 0)
    BY <2>d DEF UsageFollowsPages, IsDry
  <2>1. faults \in Nat
    BY BoundsAssumption DEF TypeInv, TypeOK
  <2>2. CASE exec.pc = "usage"
    BY <2>1, <2>2
  <2>3. CASE exec.pc # "usage"
    BY <2>1, <2>3
  <2>4. QED
    BY <2>2, <2>3
<1>4. QED
  <2> HIDE DEF Recorded
  <2>1. QED
    BY <1>1, <1>2, <1>3, InitBase, NextBase, NextDryInv, PTL DEF Spec

-----------------------------------------------------------------------------
(* While no save has failed, a stage that runs has its row. *)
FaultInv ==
    /\ exec.pc = "run" /\ faults = 0 => stageRow[exec.stage] # "none"
    /\ \A p \in Pipelines : task[p].error = "fk" => faults > 0
    /\ FatalOnlyAfterLostSave

LEMMA InitFaultInv == Init => FaultInv
BY DEF Init, FaultInv, FreshTask, FatalOnlyAfterLostSave

LEMMA NextFaultInv == TypeInv /\ ControlInv /\ FaultInv /\ [Next]_vars => FaultInv'
<1> SUFFICES ASSUME TypeInv, ControlInv, FaultInv, [Next]_vars PROVE FaultInv'
  OBVIOUS
<1> USE DEF FatalOnlyAfterLostSave
<1>t. /\ exec \in Exec /\ faults \in Nat /\ exec.stage \in Stages
      /\ stageRow \in [Stages -> RowStatus] /\ task \in [Pipelines -> Task]
  BY BoundsAssumption DEF TypeInv, TypeOK, Exec
<1>0. Fault => faults' = faults + 1 /\ faults' > 0
  BY <1>t DEF Fault
<1>1. CASE UNCHANGED vars
  BY <1>1 DEF vars, FaultInv
<1>2. CASE Begin
  BY <1>2 DEF Begin, FreshTask, FaultInv
<1>3. CASE OpenStage
  <2>1. /\ exec'.pc = "run" /\ exec'.stage = exec.stage /\ exec'.error = exec.error
        /\ task' = task
    BY <1>3, <1>t DEF OpenStage, Exec
  <2>2. \/ stageRow'[exec.stage] = "running" /\ faults' = faults
        \/ faults' > 0
    BY <1>3, <1>t, <1>0 DEF OpenStage, SaveStage, Saved
  <2>3. faults > 0 => faults' > 0
    BY <1>3, <1>t, <1>0 DEF OpenStage, SaveStage
  <2>4. QED
    BY <1>t, <2>1, <2>2, <2>3 DEF FaultInv
<1>4. CASE CloseStage
  <2>1. faults > 0 => faults' > 0
    BY <1>4, <1>t, <1>0 DEF CloseStage, SaveStage
  <2>2. /\ exec'.pc # "run" /\ task' = task
        /\ \/ exec'.error = exec.error
           \/ \E p \in Pipelines : exec'.error = task[p].error
    BY <1>4, <1>t DEF CloseStage, Exec, RaisedBy, Failed, InStage
  <2>3. QED
    BY <2>1, <2>2 DEF FaultInv
<1>5. CASE CreatePage
  <2>1. /\ exec'.pc # "run" /\ task' = task /\ exec'.error \in {exec.error, "other"}
        /\ faults > 0 => faults' > 0
    BY <1>5, <1>t, <1>0 DEF CreatePage, PageIsMade, PageCallRaises, Exec
  <2>2. QED
    BY <2>1 DEF FaultInv
<1>6. CASE RecordUsage
  <2>1. /\ exec'.pc # "run" /\ task' = task /\ exec'.error = exec.error
        /\ faults > 0 => faults' > 0
    BY <1>6, <1>t, <1>0 DEF RecordUsage, SaveUsage, Exec
  <2>2. QED
    BY <2>1 DEF FaultInv
<1>7. CASE CacheExpires
  BY <1>7 DEF CacheExpires, FaultInv, rows
<1>8. CASE Crash
  <2>1. exec'.pc # "run" /\ faults' > 0
    BY <1>8, <1>t, <1>0 DEF Crash, Exec
  <2>2. QED
    BY <2>1 DEF FaultInv
<1>9. ASSUME NEW p \in Pipelines, RunPipeline(p)
      PROVE  FaultInv'
  <2>1. /\ exec' = exec /\ exec.pc = "run" /\ StageOf[p] = exec.stage
        /\ \A q \in Pipelines : q # p => task'[q] = task[q]
    BY <1>9, TaskStep, StepsInStage
  <2>2. stageRow' = stageRow /\ (faults > 0 => faults' > 0) /\ (faults' = 0 => faults = 0)
    BY <1>9, <1>t, <1>0
       DEF RunPipeline, OpenPipeline, StartStep, HandlerSucceeds, HandlerFails, RecordStep,
           ClosePipeline, SaveStep, SavePipeline, rows
  <2>t. task[p] \in Task
    BY <1>t
  <2>3. task'[p].error = "fk" => task[p].error = "fk" \/ faults > 0
    <3>1. CASE OpenPipeline(p)
      <4> DEFINE fk    == [task[p] EXCEPT !.pc = "raised", !.error = "fk"]
                 other == [task[p] EXCEPT !.pc = "raised", !.error = "other"]
                 go    == [task[p] EXCEPT !.pc = IF StepCount[p] = 0 THEN "close" ELSE "step"]
      <4>1. other.error = "other" /\ go.error = task[p].error
        BY <2>t DEF Task
      <4>2. \/ stageRow[exec.stage] = "none"
            \/ Become(p, other) \/ Become(p, go)
        BY <3>1 DEF OpenPipeline
      <4> HIDE DEF other, go
      <4>3. QED
        BY <1>t, <2>1, <4>1, <4>2 DEF Become, FaultInv
    <3>2. CASE StartStep(p)
      BY <1>t, <2>t, <3>2 DEF StartStep, Become, Task
    <3>3. CASE HandlerSucceeds(p)
      BY <1>t, <2>t, <3>3 DEF HandlerSucceeds, Become, Task
    <3>4. CASE HandlerFails(p)
      BY <1>t, <2>t, <3>4 DEF HandlerFails, Become, Task
    <3>5. CASE RecordStep(p)
      BY <1>t, <2>t, <3>5 DEF RecordStep, Become, Task
    <3>6. CASE ClosePipeline(p)
      BY <1>t, <2>t, <3>6 DEF ClosePipeline, Become, Task
    <3>7. QED
      BY <1>9, <3>1, <3>2, <3>3, <3>4, <3>5, <3>6 DEF RunPipeline
  <2>4. QED
    BY <2>1, <2>2, <2>3 DEF FaultInv
<1>10. QED
  BY <1>1, <1>2, <1>3, <1>4, <1>5, <1>6, <1>7, <1>8, <1>9 DEF Next, Main

(* The worker's "fatal" class is never met by a run whose saves succeeded.  *)
THEOREM FatalNeedsALostSave == Spec => []FatalOnlyAfterLostSave
<1>1. FaultInv => FatalOnlyAfterLostSave
  BY DEF FaultInv
<1>2. QED
  BY <1>1, InitFaultInv, NextFaultInv, InitBase, NextBase, PTL DEF Spec

-----------------------------------------------------------------------------
(* The rows of a pipeline's trace, while no save has failed: what is left   *)
(* "running" is under way, and a step behind the task is recorded.          *)
TraceOf(p) ==
    LET t == task[p]
    IN  /\ t.pc \in {"waiting", "ok", "raised"} => pipeRow[p] # "running"
        /\ t.pc = "raised" => pipeRow[p] = "failed"
        /\ t.pc = "ok" => pipeRow[p] = "succeeded"
        /\ \A k \in 1..StepCount[p] :
              /\ stepRow[<<p, k>>] = "running" => t.pc \in {"handler", "record"} /\ k = t.k
              /\ t.pc \in {"step", "handler", "record"} /\ k < t.k =>
                    stepRow[<<p, k>>] = "succeeded"
              /\ t.pc \in {"close", "ok"} /\ t.error = "none" =>
                    stepRow[<<p, k>>] = "succeeded"

(* The rows of the stages, and what an outcome says of the tasks. *)
StageTrace ==
    /\ exec.pc \in {"open", "run"} =>
          \A s \in Stages : s < exec.stage => stageRow[s] = "succeeded"
    /\ exec.pc \in {"page", "usage", "returned"} /\ ~exec.hit =>
          /\ \A s \in Stages : stageRow[s] = "succeeded"
          /\ \A p \in Pipelines : task[p].pc = "ok"
    /\ exec.pc = "raised" /\ mode # "no target" =>
          stageRow[exec.stage] = "failed" /\ Failed(exec.stage) # {}

TraceInv == faults = 0 => StageTrace /\ \A p \in Pipelines : TraceOf(p)

(* A step that costs no fault saves what it means to. *)
LEMMA SavesHappen ==
    ASSUME TypeInv, faults = 0, faults' = 0
    PROVE  /\ ~Fault
           /\ \A s, status : SaveStage(s, status) => stageRow' = [stageRow EXCEPT ![s] = status]
           /\ \A p, status : SavePipeline(p, status) => pipeRow' = [pipeRow EXCEPT ![p] = status]
           /\ \A x, status : SaveStep(x, status) => stepRow' = [stepRow EXCEPT ![x] = status]
<1>1. ~Fault
  BY DEF Fault
<1>2. QED
  BY <1>1 DEF SaveStage, SavePipeline, SaveStep, Saved

(* Faults are never taken back. *)
LEMMA FaultsGrow ==
    ASSUME TypeInv, Next, faults' = 0
    PROVE  faults = 0
<1>1. faults \in Nat
  BY BoundsAssumption DEF TypeInv, TypeOK
<1>2. faults' = faults \/ faults' = faults + 1
  BY DEF Next, Main, RunPipeline, Begin, OpenStage, CloseStage, CreatePage, PageIsMade,
         PageCallRaises, RecordUsage, SaveUsage, CacheExpires, Crash, OpenPipeline, StartStep,
         HandlerSucceeds, HandlerFails, RecordStep, ClosePipeline, SaveStage, SavePipeline,
         SaveStep, Fault
<1>3. QED
  BY <1>1, <1>2

(* A pipeline writes no rows but its own. *)
LEMMA OwnRows ==
    ASSUME TypeInv, NEW p \in Pipelines, RunPipeline(p), NEW q \in Pipelines, q # p
    PROVE  /\ stageRow' = stageRow
           /\ pipeRow'[q] = pipeRow[q]
           /\ \A k \in 1..StepCount[q] : stepRow'[<<q, k>>] = stepRow[<<q, k>>]
<1>1. \A k \in 1..StepCount[q] : <<q, k>> \in Steps /\ \A j : <<q, k>> # <<p, j>>
  BY StepOf
<1>2. pipeRow \in [Pipelines -> RowStatus] /\ stepRow \in [Steps -> RowStatus]
  BY DEF TypeInv, TypeOK
<1>3. QED
  BY <1>1, <1>2
     DEF RunPipeline, OpenPipeline, StartStep, HandlerSucceeds, HandlerFails, RecordStep,
         ClosePipeline, SavePipeline, SaveStep, Saved, rows

(* What a step of a pipeline does to the rows of that pipeline. *)
LEMMA TraceOfStep ==
    ASSUME TypeInv, FaultInv, faults = 0, faults' = 0,
           NEW p \in Pipelines, RunPipeline(p), StepInvOf(p), TraceOf(p),
           exec.pc = "run"
    PROVE  TraceOf(p)'
<1> DEFINE t == task[p]
<1>t. /\ t \in Task /\ t.k \in 1..LastStep(p) /\ t.k \in Nat
      /\ t.pc \in {"step", "handler", "record"} => StepCount[p] # 0
      /\ task \in [Pipelines -> Task]
      /\ pipeRow \in [Pipelines -> RowStatus] /\ stepRow \in [Steps -> RowStatus]
  BY DEF TypeInv, TypeOK, Task, LastStep, AtStep
<1>n. StepCount[p] \in Nat
  BY LayoutAssumption
<1>x. \A k \in 1..StepCount[p] : <<p, k>> \in Steps
  BY StepOf
<1>r. ~Fault
  BY SavesHappen
<1>1. CASE OpenPipeline(p)
  <2> DEFINE go == [t EXCEPT !.pc = IF StepCount[p] = 0 THEN "close" ELSE "step"]
  <2>1. go.pc = (IF StepCount[p] = 0 THEN "close" ELSE "step") /\ go.k = t.k
    BY <1>t DEF Task
  <2>2. stageRow[exec.stage] # "none"
    BY DEF FaultInv
  <2>3. Become(p, go) /\ t.pc = "waiting" /\ stepRow' = stepRow
    BY <1>1, <1>r, <2>2 DEF OpenPipeline
  <2>4. task'[p] = go /\ t.k = 1
    BY <1>t, <2>3 DEF Become, StepInvOf
  <2> HIDE DEF go
  <2>5. task'[p].pc \in {"close", "step"} /\ task'[p].k = 1
        /\ (task'[p].pc = "close" => StepCount[p] = 0)
    BY <2>1, <2>4
  <2>6. QED
    BY <1>n, <2>3, <2>5 DEF TraceOf
<1>2. CASE StartStep(p)
  <2>0. t.pc = "step" /\ pipeRow' = pipeRow
    BY <1>2 DEF StartStep
  <2>1. CASE Become(p, [t EXCEPT !.pc = "close", !.error = "other"]) /\ stepRow' = stepRow
    <3>1. task'[p].pc = "close" /\ task'[p].error = "other"
      BY <1>t, <2>1 DEF Become, Task
    <3>2. QED
      BY <2>0, <2>1, <3>1 DEF TraceOf
  <2>2. CASE Become(p, [t EXCEPT !.pc = "handler"]) /\ SaveStep(<<p, t.k>>, "running")
    <3>1. task'[p].pc = "handler" /\ task'[p].k = t.k
      BY <1>t, <2>2 DEF Become, Task
    <3>2. stepRow' = [stepRow EXCEPT ![<<p, t.k>>] = "running"]
      BY <2>2, SavesHappen
    <3>3. \A k \in 1..StepCount[p] : k # t.k => stepRow'[<<p, k>>] = stepRow[<<p, k>>]
      BY <1>t, <1>x, <3>2
    <3>4. QED
      BY <1>t, <1>n, <2>0, <3>1, <3>3 DEF TraceOf
  <2>3. QED
    BY <1>2, <2>1, <2>2 DEF StartStep
<1>3. CASE HandlerSucceeds(p) \/ HandlerFails(p)
  <2>1. /\ t.pc = "handler" /\ task'[p].pc = "record" /\ task'[p].k = t.k
        /\ pipeRow' = pipeRow /\ stepRow' = stepRow
    <3>1. CASE HandlerSucceeds(p)
      BY <1>t, <3>1 DEF HandlerSucceeds, Become, Task, rows
    <3>2. CASE HandlerFails(p)
      BY <1>t, <3>2 DEF HandlerFails, Become, Task, rows
    <3>3. QED
      BY <1>3, <3>1, <3>2
  <2>2. QED
    BY <2>1 DEF TraceOf
<1>4. CASE RecordStep(p)
  <2> DEFINE status == IF t.error = "none" THEN "succeeded" ELSE "failed"
             on     == [t EXCEPT !.pc = "step", !.k = t.k + 1]
             end    == [t EXCEPT !.pc = "close"]
  <2>0. /\ t.pc = "record" /\ pipeRow' = pipeRow
        /\ SaveStep(<<p, t.k>>, status)
        /\ Become(p, IF t.error = "none" /\ t.k < StepCount[p] THEN on ELSE end)
    BY <1>4 DEF RecordStep
  <2>1. /\ on.pc = "step" /\ on.k = t.k + 1
        /\ end.pc = "close" /\ end.error = t.error
    BY <1>t DEF Task
  <2> HIDE DEF on, end
  <2>2. \/ /\ t.error = "none" /\ t.k < StepCount[p]
           /\ task'[p].pc = "step" /\ task'[p].k = t.k + 1
        \/ /\ t.error = "none" => ~(t.k < StepCount[p])
           /\ task'[p].pc = "close" /\ task'[p].error = t.error
    BY <1>t, <2>0, <2>1 DEF Become
  <2>3. t.k \in 1..StepCount[p]
    BY <1>t, <2>0 DEF LastStep
  <2>4. stepRow' = [stepRow EXCEPT ![<<p, t.k>>] = status]
    BY <2>0, SavesHappen
  <2>5. /\ stepRow'[<<p, t.k>>] = status
        /\ \A k \in 1..StepCount[p] : k # t.k => stepRow'[<<p, k>>] = stepRow[<<p, k>>]
    BY <1>t, <1>x, <2>3, <2>4
  <2>6. \A k \in 1..StepCount[p] :
           /\ k # t.k => stepRow[<<p, k>>] # "running"
           /\ k < t.k => stepRow[<<p, k>>] = "succeeded"
    BY <2>0 DEF TraceOf
  <2>7. \A k \in 1..StepCount[p] :
           /\ stepRow'[<<p, k>>] # "running"
           /\ t.error = "none" /\ k <= t.k => stepRow'[<<p, k>>] = "succeeded"
    BY <1>t, <1>n, <2>5, <2>6
  <2>8. QED
    BY <1>t, <1>n, <2>0, <2>2, <2>7 DEF TraceOf
<1>5. CASE ClosePipeline(p)
  <2> DEFINE status == IF t.error = "none" THEN "succeeded" ELSE "failed"
  <2>1. /\ t.pc = "close" /\ stepRow' = stepRow
        /\ SavePipeline(p, status)
        /\ task'[p].pc = (IF t.error = "none" THEN "ok" ELSE "raised")
        /\ task'[p].error = t.error
    BY <1>t, <1>5 DEF ClosePipeline, Become, Task
  <2>2. pipeRow'[p] = status
    BY <1>t, <2>1, SavesHappen
  <2>3. QED
    BY <2>1, <2>2 DEF TraceOf
<1>6. QED
  BY <1>1, <1>2, <1>3, <1>4, <1>5 DEF RunPipeline

LEMMA InitTraceInv == Init => TraceInv
<1> SUFFICES ASSUME Init PROVE StageTrace /\ \A p \in Pipelines : TraceOf(p)
  BY DEF TraceInv
<1>1. \A p \in Pipelines : \A k \in 1..StepCount[p] : stepRow[<<p, k>>] = "none"
  BY StepOf DEF Init
<1>2. QED
  BY <1>1 DEF Init, FreshTask, StageTrace, TraceOf

LEMMA NextTraceInv ==
    TypeInv /\ ControlInv /\ StepInv /\ FaultInv /\ TraceInv /\ [Next]_vars => TraceInv'
<1> SUFFICES ASSUME TypeInv, ControlInv, StepInv, FaultInv, TraceInv, [Next]_vars, faults' = 0
             PROVE  StageTrace' /\ \A p \in Pipelines : TraceOf(p)'
  BY DEF TraceInv
<1>1. CASE UNCHANGED vars
  <2>1. /\ exec' = exec /\ mode' = mode /\ task' = task /\ faults' = faults
        /\ stageRow' = stageRow /\ pipeRow' = pipeRow /\ stepRow' = stepRow
    BY <1>1 DEF vars
  <2>2. StageTrace /\ \A p \in Pipelines : TraceOf(p)
    BY <2>1 DEF TraceInv
  <2>3. StageTrace'
    BY <2>1, <2>2 DEF StageTrace, Failed, InStage
  <2>4. QED
    BY <2>1, <2>2, <2>3 DEF TraceOf
<1>2. CASE Next
  <2>f. faults = 0 /\ ~Fault
    BY <1>2, FaultsGrow DEF Fault
  <2>i. StageTrace /\ \A p \in Pipelines : TraceOf(p)
    BY <2>f DEF TraceInv
  <2>t. /\ exec \in Exec /\ exec.stage \in Stages
        /\ stageRow \in [Stages -> RowStatus] /\ task \in [Pipelines -> Task]
    BY DEF TypeInv, TypeOK, Exec
  <2>s. NStages \in Nat /\ Stages = 1..NStages /\ exec.stage \in Nat
    BY <2>t, LayoutAssumption DEF Stages
  <2>same. ASSUME task' = task, pipeRow' = pipeRow, stepRow' = stepRow
           PROVE  \A p \in Pipelines : TraceOf(p)'
    BY <2>i, <2>same DEF TraceOf
  <2>1. CASE Begin
    <3>1. ASSUME NEW p \in Pipelines PROVE TraceOf(p)'
      <4>1. task'[p].pc = "waiting" /\ pipeRow' = pipeRow /\ stepRow' = stepRow
        BY <2>1 DEF Begin, FreshTask, rows
      <4>2. task[p].pc \in {"waiting", "ok", "raised"}
        BY <2>1 DEF Begin, ControlInv, NothingLeftRunning, Started, Ended
      <4>3. QED
        BY <2>i, <4>1, <4>2 DEF TraceOf
    <3>2. StageTrace'
      <4>1. /\ exec'.pc \in {"raised", "page", "open"} /\ exec'.stage = 1 /\ mode' = mode
            /\ exec'.pc = "page" => exec'.hit
            /\ exec'.pc = "raised" => mode = "no target"
        BY <2>1 DEF Begin
      <4>2. \A s \in Stages : ~(s < 1)
        BY <2>s
      <4>3. QED
        BY <4>1, <4>2 DEF StageTrace
    <3>3. QED
      BY <3>1, <3>2
  <2>2. CASE OpenStage
    <3>1. /\ exec.pc = "open" /\ exec'.pc = "run" /\ exec'.stage = exec.stage
          /\ task' = task /\ pipeRow' = pipeRow /\ stepRow' = stepRow
      BY <2>2, <2>t DEF OpenStage, Exec
    <3>2. stageRow' = [stageRow EXCEPT ![exec.stage] = "running"]
      BY <2>2, <2>f, SavesHappen DEF OpenStage
    <3>3. \A s \in Stages : s < exec.stage => stageRow'[s] = stageRow[s]
      BY <2>s, <2>t, <3>2
    <3>4. StageTrace'
      BY <2>i, <3>1, <3>3 DEF StageTrace
    <3>5. QED
      BY <2>same, <3>1, <3>4
  <2>3. CASE CloseStage
    <3>1. /\ exec.pc = "run" /\ Joined(exec.stage) /\ mode' = mode
          /\ task' = task /\ pipeRow' = pipeRow /\ stepRow' = stepRow
      BY <2>3 DEF CloseStage
    <3>2. stageRow' = [stageRow EXCEPT ![exec.stage] =
                          IF Failed(exec.stage) = {} THEN "succeeded" ELSE "failed"]
      BY <2>3, <2>f, SavesHappen DEF CloseStage
    <3>3. \A s \in Stages : s < exec.stage => stageRow'[s] = "succeeded"
      BY <2>s, <2>t, <2>i, <3>1, <3>2 DEF StageTrace
    <3>4. CASE \E p \in RaisedBy(exec.stage) :
                  exec' = [exec EXCEPT !.pc = "raised", !.error = task[p].error]
      <4>1. exec'.pc = "raised" /\ exec'.stage = exec.stage /\ Failed(exec.stage) # {}
        BY <2>t, <3>4 DEF RaisedBy, Exec
      <4>2. Failed(exec.stage)' = Failed(exec.stage)
        BY <3>1, <4>1 DEF Failed, InStage
      <4>3. stageRow'[exec.stage] = "failed"
        BY <2>t, <3>2, <4>1
      <4>4. QED
        BY <2>same, <3>1, <4>1, <4>2, <4>3 DEF StageTrace
    <3>5. CASE /\ Failed(exec.stage) = {} /\ exec.stage < NStages
               /\ exec' = [exec EXCEPT !.pc = "open", !.stage = exec.stage + 1]
      <4>1. exec'.pc = "open" /\ exec'.stage = exec.stage + 1
        BY <2>t, <3>5 DEF Exec
      <4>2. \A s \in Stages : s < exec.stage + 1 => stageRow'[s] = "succeeded"
        BY <2>s, <2>t, <3>2, <3>3, <3>5
      <4>3. QED
        BY <2>same, <3>1, <4>1, <4>2 DEF StageTrace
    <3>6. CASE /\ Failed(exec.stage) = {} /\ exec.stage = NStages
               /\ exec' = [exec EXCEPT !.pc = IF mode = "preview" THEN "returned" ELSE "page"]
      <4>1. exec'.pc \in {"returned", "page"}
        BY <2>t, <3>6 DEF Exec
      <4>2. \A s \in Stages : stageRow'[s] = "succeeded"
        BY <2>s, <2>t, <3>2, <3>3, <3>6
      <4>3. ASSUME NEW q \in Pipelines PROVE task'[q].pc = "ok"
        <5>1. StageOf[q] \in Stages
          BY LayoutAssumption
        <5>2. StageOf[q] < exec.stage \/ q \in InStage(exec.stage)
          BY <2>s, <3>6, <5>1 DEF InStage
        <5>3. QED
          BY <3>1, <3>6, <5>2, JoinedIsDone DEF ControlInv
      <4>4. QED
        BY <2>same, <3>1, <4>1, <4>2, <4>3 DEF StageTrace
    <3>7. QED
      BY <2>3, <3>4, <3>5, <3>6 DEF CloseStage
  <2>4. CASE CreatePage
    <3>1. /\ exec.pc = "page" /\ exec'.pc = "usage" /\ exec'.hit = exec.hit
          /\ task' = task /\ UNCHANGED rows
      BY <2>4, <2>t, <2>f DEF CreatePage, PageIsMade, PageCallRaises, Exec
    <3>2. StageTrace'
      BY <2>i, <3>1 DEF StageTrace, rows
    <3>3. QED
      BY <2>same, <3>1, <3>2 DEF rows
  <2>5. CASE RecordUsage
    <3>1. /\ exec.pc = "usage" /\ exec'.pc = "returned" /\ exec'.hit = exec.hit
          /\ task' = task /\ UNCHANGED rows
      BY <2>5, <2>t DEF RecordUsage, Exec
    <3>2. StageTrace'
      BY <2>i, <3>1 DEF StageTrace, rows
    <3>3. QED
      BY <2>same, <3>1, <3>2 DEF rows
  <2>6. CASE CacheExpires
    BY <2>6, <2>i, <2>same DEF CacheExpires, StageTrace, Failed, InStage, rows
  <2>7. CASE Crash
    BY <2>7, <2>f DEF Crash
  <2>8. ASSUME NEW p \in Pipelines, RunPipeline(p)
        PROVE  StageTrace' /\ \A q \in Pipelines : TraceOf(q)'
    <3>1. /\ exec' = exec /\ exec.pc = "run" /\ stageRow' = stageRow
          /\ \A q \in Pipelines : q # p => task'[q] = task[q]
      <4>1. exec' = exec /\ exec.pc = "run" /\ \A q \in Pipelines : q # p => task'[q] = task[q]
        BY <2>8, TaskStep, StepsInStage
      <4>2. stageRow' = stageRow
        BY <2>8 DEF RunPipeline, OpenPipeline, StartStep, HandlerSucceeds, HandlerFails,
                    RecordStep, ClosePipeline, rows
      <4>3. QED
        BY <4>1, <4>2
    <3>2. StageTrace'
      BY <2>i, <3>1 DEF StageTrace
    <3>3. TraceOf(p)'
      BY <2>8, <2>f, <2>i, <3>1, TraceOfStep DEF StepInv
    <3>4. ASSUME NEW q \in Pipelines, q # p PROVE TraceOf(q)'
      BY <2>8, <2>i, <3>1, <3>4, OwnRows DEF TraceOf
    <3>5. QED
      BY <3>2, <3>3, <3>4
  <2>9. QED
    BY <1>2, <2>1, <2>2, <2>3, <2>4, <2>5, <2>6, <2>7, <2>8 DEF Next, Main
<1>3. QED
  BY <1>1, <1>2

(* When no save failed, the trace of an execution that returned says so at  *)
(* every level, over whatever earlier attempts had written, and the trace   *)
(* of one that raised names a failed stage and a failed pipeline of it and  *)
(* leaves nothing in that stage "running".                                  *)
THEOREM TraceIsTrue == Spec => []TraceTellsOutcome
<1> DEFINE IInv == (TypeInv /\ ControlInv) /\ StepInv /\ FaultInv /\ TraceInv
<1>1. Init => IInv
  BY InitBase, InitStepInv, InitFaultInv, InitTraceInv
<1>2. IInv /\ [Next]_vars => IInv'
  BY NextBase, NextStepInv, NextFaultInv, NextTraceInv
<1>3. IInv => TraceTellsOutcome
  <2> SUFFICES ASSUME TypeInv, ControlInv, StepInv, TraceInv, faults = 0 PROVE TraceTellsOutcome
    BY DEF TraceTellsOutcome
  <2>i. StageTrace /\ \A p \in Pipelines : TraceOf(p)
    BY DEF TraceInv
  <2>1. ASSUME exec.pc = "returned", ~exec.hit
        PROVE  /\ \A s \in Stages : stageRow[s] = "succeeded"
               /\ \A p \in Pipelines : pipeRow[p] = "succeeded"
               /\ \A x \in Steps : stepRow[x] = "succeeded"
    <3>1. \A p \in Pipelines : task[p].pc = "ok"
      BY <2>i, <2>1 DEF StageTrace
    <3>2. ASSUME NEW x \in Steps PROVE stepRow[x] = "succeeded"
      <4>1. PICK p \in Pipelines : \E k \in 1..StepCount[p] : x = <<p, k>>
        BY StepParts
      <4>2. task[p].error = "none"
        BY <3>1 DEF StepInv, StepInvOf
      <4>3. QED
        BY <2>i, <3>1, <4>1, <4>2 DEF TraceOf
    <3>3. QED
      BY <2>i, <2>1, <3>1, <3>2 DEF StageTrace, TraceOf
  <2>2. ASSUME exec.pc = "raised", mode # "no target"
        PROVE  /\ stageRow[exec.stage] = "failed"
               /\ \E p \in InStage(exec.stage) : pipeRow[p] = "failed"
               /\ \A p \in InStage(exec.stage) :
                     /\ pipeRow[p] # "running"
                     /\ \A k \in 1..StepCount[p] : stepRow[<<p, k>>] # "running"
    <3>1. PICK p \in InStage(exec.stage) : task[p].pc = "raised"
      BY <2>i, <2>2 DEF StageTrace, Failed
    <3>2. \A q \in Pipelines : task[q].pc \in {"waiting", "ok", "raised"}
      BY <2>2 DEF ControlInv, NothingLeftRunning, Running, Started, Ended
    <3>3. QED
      BY <2>i, <2>2, <3>1, <3>2 DEF StageTrace, TraceOf, InStage
  <2>3. QED
    BY <2>1, <2>2 DEF TraceTellsOutcome
<1>4. QED
  <2> HIDE DEF IInv
  <2>1. QED
    BY <1>1, <1>2, <1>3, PTL DEF Spec

-----------------------------------------------------------------------------
(* Only a run that may write gets to the page, if only to a dry one. *)
ModeInv ==
    /\ exec.pc \in {"page", "usage"} => mode \in {"writes", "dry run"}
    /\ exec.pc \in {"open", "run"} => mode # "no target"

LEMMA NextModeInv == TypeInv /\ ModeInv /\ [Next]_vars => ModeInv'
<1> SUFFICES ASSUME TypeInv, ModeInv, [Next]_vars PROVE ModeInv'
  OBVIOUS
<1>t. exec \in Exec /\ mode \in Modes
  BY DEF TypeInv, TypeOK
<1>1. CASE UNCHANGED vars \/ CacheExpires
  BY <1>1 DEF vars, CacheExpires, ModeInv
<1>2. CASE Begin
  BY <1>2 DEF Begin, ModeInv
<1>3. CASE Main
  <2>1. mode' = mode
    BY <1>3 DEF Main, OpenStage, CloseStage, CreatePage, PageIsMade, PageCallRaises, RecordUsage, SaveUsage
  <2>2. CASE OpenStage
    BY <1>t, <2>1, <2>2 DEF OpenStage, Exec, ModeInv
  <2>3. CASE CloseStage
    <3>1. /\ exec.pc = "run"
          /\ exec'.pc \in {"raised", "open"} \/ exec'.pc = IF mode = "preview" THEN "returned" ELSE "page"
      BY <1>t, <2>3 DEF CloseStage, Exec
    <3>2. QED
      BY <1>t, <2>1, <3>1 DEF ModeInv, Modes
  <2>4. CASE CreatePage
    BY <1>t, <2>1, <2>4 DEF CreatePage, PageIsMade, PageCallRaises, Exec, ModeInv
  <2>5. CASE RecordUsage
    BY <1>t, <2>1, <2>5 DEF RecordUsage, SaveUsage, Exec, ModeInv
  <2>6. QED
    BY <1>3, <2>2, <2>3, <2>4, <2>5 DEF Main
<1>4. CASE Crash
  BY <1>t, <1>4 DEF Crash, Exec, ModeInv
<1>5. ASSUME NEW p \in Pipelines, RunPipeline(p)
      PROVE  ModeInv'
  BY <1>5, TaskStep DEF ModeInv
<1>6. QED
  BY <1>1, <1>2, <1>3, <1>4, <1>5 DEF Next

(* The executions of one run implement the promise of module Execution: no  *)
(* more than one page each, and none missing when it returns.               *)
THEOREM ExecutionKeepsPromise == Spec => KeepsPromise
<1> DEFINE W == mode = "writes"
           S == IF exec.pc = "idle" THEN "off" ELSE
                IF exec.pc \in {"open", "run", "page"} THEN "running" ELSE
                IF exec.pc = "usage" THEN IF mode = "dry run" THEN "running" ELSE "written"
                ELSE exec.pc
<1>1. Init => Promise!Init
  BY DEF Init, Promise!Init
<1>2. TypeInv /\ ModeInv /\ [Next]_vars => [Promise!Next]_(Promise!vars)
  <2> SUFFICES ASSUME TypeInv, ModeInv, [Next]_vars
               PROVE  \/ W' = W /\ S' = S /\ pages' = pages
                      \/ Promise!Next
    BY DEF Promise!vars
  <2> USE DEF Promise!Next, Promise!Move
  <2>t. exec \in Exec /\ exec.pc \in ExecPC /\ mode \in Modes /\ pages \in Nat
    BY DEF TypeInv, TypeOK, Exec
  <2>1. CASE UNCHANGED vars \/ CacheExpires
    BY <2>1 DEF vars, CacheExpires
  <2>2. CASE Begin
    <3>1. S \in {"off", "returned", "raised"} /\ mode' = mode /\ pages' = pages
      BY <2>2, <2>t DEF Begin, Running, ExecPC
    <3>2. S' \in {"running", "raised"}
      BY <2>2 DEF Begin
    <3>3. QED
      BY <3>1, <3>2 DEF Promise!Begin, Promise!Refuse
  <2>3. CASE OpenStage
    BY <2>3, <2>t DEF OpenStage, Exec
  <2>4. CASE CloseStage
    <3>1. /\ exec.pc = "run" /\ mode' = mode /\ pages' = pages
          /\ exec'.pc \in {"raised", "open"} \/ exec'.pc = IF mode = "preview" THEN "returned" ELSE "page"
      BY <2>4, <2>t DEF CloseStage, Exec
    <3>2. QED
      BY <3>1 DEF Promise!Raise, Promise!Return
  <2>5. CASE CreatePage
    <3>1. /\ exec.pc = "page" /\ mode' = mode
          /\ \/ pages' = pages + Made /\ exec'.pc = "usage"
             \/ pages' \in {pages, pages + Made} /\ exec'.pc = "raised"
      BY <2>5, <2>t DEF CreatePage, PageIsMade, PageCallRaises, Exec
    <3>2. CASE mode = "writes"
      BY <3>1, <3>2 DEF Made, Promise!Write, Promise!Raise
    <3>3. CASE mode = "dry run"
      <4>1. S = "running" /\ S' \in {"running", "raised"}
        BY <3>1, <3>3
      <4>2. pages' = pages
        <5>1. Made = 0
          BY <3>3 DEF Made
        <5>2. QED
          BY <2>t, <3>1, <5>1
      <4>3. QED
        BY <3>1, <4>1, <4>2 DEF Promise!Raise
    <3>4. QED
      BY <3>1, <3>2, <3>3 DEF ModeInv
  <2>6. CASE RecordUsage
    <3>1. exec.pc = "usage" /\ exec'.pc = "returned" /\ mode' = mode /\ pages' = pages
      BY <2>6, <2>t DEF RecordUsage, SaveUsage, Exec
    <3>2. S = (IF W THEN "written" ELSE "running") /\ S' = "returned"
      BY <3>1 DEF ModeInv
    <3>3. QED
      BY <3>1, <3>2 DEF Promise!Return
  <2>7. CASE Crash
    <3>1. exec'.pc = "idle" /\ mode' = mode /\ pages' = pages
      BY <2>7, <2>t DEF Crash, Exec
    <3>2. QED
      BY <2>7, <3>1 DEF Crash, Running, Promise!Stop
  <2>8. ASSUME NEW p \in Pipelines, RunPipeline(p)
        PROVE  exec' = exec /\ mode' = mode /\ pages' = pages
    BY <2>8, TaskStep
       DEF RunPipeline, OpenPipeline, StartStep, HandlerSucceeds, HandlerFails, RecordStep,
           ClosePipeline
  <2>9. QED
    BY <2>1, <2>2, <2>3, <2>4, <2>5, <2>6, <2>7, <2>8 DEF Next, Main
<1>3. Init => ModeInv
  BY DEF Init, ModeInv
<1>4. QED
  BY <1>1, <1>2, <1>3, InitTypeInv, NextTypeInv, NextModeInv, PTL
     DEF Spec, KeepsPromise, Promise!Spec
=============================================================================
