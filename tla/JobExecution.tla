---------------------------- MODULE JobExecution ----------------------------
(***************************************************************************)
(* One worker process executes the resolved definition of one run          *)
(* (app/services/job_execution/job_execution_service.py): stages one after *)
(* the other, the pipelines of a stage as concurrent asyncio tasks or one  *)
(* by one, the steps of a pipeline in order, and at the end one page.  The *)
(* run may be executed several times (module Worker retries it); the rows  *)
(* of the trace have ids derived from the run's, so each execution writes  *)
(* over the rows of the one before.                                        *)
(*                                                                         *)
(* Every await at which another pipeline's task can run ends an action.    *)
(***************************************************************************)
EXTENDS Integers

CONSTANTS NStages,       (* stages, numbered by sequence                         *)
          NPipelines,    (* pipelines, numbered in the order of the definition   *)
          StageOf,       (* StageOf[p]: the stage of pipeline p                  *)
          RunMode,       (* RunMode[s]: pipeline_run_mode                        *)
          StepCount,     (* StepCount[p]: how many steps p has                   *)
          FailurePolicy, (* FailurePolicy[x] of step x, normalised               *)
          MaxAttempts,   (* bound: how often the worker executes the run         *)
          MaxFaults      (* bound: failed calls and crashes                      *)

Stages    == 1..NStages
Pipelines == 1..NPipelines

ASSUME LayoutAssumption ==
    /\ NStages \in Nat \ {0} /\ NPipelines \in Nat
    /\ StageOf \in [Pipelines -> Stages]
    /\ RunMode \in [Stages -> {"parallel", "sequential"}]
    /\ StepCount \in [Pipelines -> Nat]

Steps == UNION {{p} \X (1..StepCount[p]) : p \in Pipelines}

ASSUME StepsAssumption ==
    FailurePolicy \in [Steps -> {"fail", "continue", "continue_with_default"}]
ASSUME BoundsAssumption == MaxAttempts \in Nat /\ MaxFaults \in Nat

VARIABLES mode,      \* what the message asks for: see Modes
          exec,      \* the execution: where it is, and how it ended
          task,      \* the task of each pipeline
          ctx,       \* ExecutionContext: what each step left in it
          stageRow, pipeRow, stepRow,  \* the status of each row of the trace
          cache,     \* WorkerResultPayloadCache, its entry for this payload
          pages,     \* pages created, by all executions
          usage,     \* usage records for them
          attempts, faults

vars == <<mode, exec, task, ctx, stageRow, pipeRow, stepRow, cache, pages, usage,
          attempts, faults>>

rows == <<stageRow, pipeRow, stepRow>>

Modes == {"writes",     \* a production run
          "dry run",    \* the same, by a service that makes no pages
          "preview",    \* allow_destination_writes = false
          "no target"}  \* the snapshot's target has no external id

RowStatus == {"none", "running", "succeeded", "failed"}

ExecPC == {"idle", "open", "run", "page", "usage", "returned", "raised"}
Error  == {"none", "fk", "other"}
Exec   == [pc: ExecPC, stage: Stages, hit: BOOLEAN, error: Error]

TaskPC == {"waiting", "step", "handler", "record", "close", "ok", "raised"}

Left == {"nothing", "outputs", "recovery", "failure"}

-----------------------------------------------------------------------------
(* Helpers *)

Running == exec.pc \in {"open", "run", "page", "usage"}

InStage(s) == {p \in Pipelines : StageOf[p] = s}
Ended(p)   == task[p].pc \in {"ok", "raised"}
Started(p) == task[p].pc # "waiting"

FreshTask == [pc |-> "waiting", k |-> 1, error |-> "none"]

Become(p, t) == task' = [task EXCEPT ![p] = t]

Fault == faults < MaxFaults /\ faults' = faults + 1

(* save_stage_run, save_pipeline_run, save_step_run: an upsert by the id    *)
(* of the row, which overwrites what an earlier execution left.             *)
Saved(table, key, status) == [table EXCEPT ![key] = status]

(* The saves below swallow an exception of the call. *)
SaveStage(s, status) ==
    \/ stageRow' = Saved(stageRow, s, status) /\ UNCHANGED faults
    \/ Fault /\ UNCHANGED stageRow
SavePipeline(p, status) ==
    \/ pipeRow' = Saved(pipeRow, p, status) /\ UNCHANGED faults
    \/ Fault /\ UNCHANGED pipeRow
SaveStep(x, status) ==
    \/ stepRow' = Saved(stepRow, x, status) /\ UNCHANGED faults
    \/ Fault /\ UNCHANGED stepRow

(* Variants with one plausible mistake each, here and below; only the       *)
(* mutation runs use them.                                                  *)
TurnOfTheLast(p) ==
    /\ exec.pc = "run" /\ StageOf[p] = exec.stage
    /\ \A q \in InStage(exec.stage) \ {p} : task[q].pc = "ok"

(* A parallel stage starts all its pipelines, a sequential one only in      *)
(* order and only after a success.                                          *)
Turn(p) ==
    /\ exec.pc = "run" /\ StageOf[p] = exec.stage
    /\ RunMode[exec.stage] = "sequential" =>
          \A q \in InStage(exec.stage) : q < p => task[q].pc = "ok"

Failed(s) == {p \in InStage(s) : task[p].pc = "raised"}

JoinedFailFast(s) ==
    \/ \A p \in InStage(s) : task[p].pc = "ok"
    \/ Failed(s) # {}
JoinedFirst(s) == InStage(s) = {} \/ \E p \in InStage(s) : Ended(p)

(* gather(return_exceptions=True) waits for every task; the sequential loop *)
(* stops at the first exception.                                            *)
Joined(s) ==
    \/ \A p \in InStage(s) : Ended(p)
    \/ RunMode[s] = "sequential" /\ Failed(s) # {}

(* errors[0]: of the pipelines that failed, the first of the definition.    *)
RaisedBy(s) == {p \in Failed(s) : \A q \in Failed(s) : p <= q}

-----------------------------------------------------------------------------
Init ==
    /\ mode \in Modes
    /\ exec = [pc |-> "idle", stage |-> 1, hit |-> FALSE, error |-> "none"]
    /\ task = [p \in Pipelines |-> FreshTask]
    /\ ctx = [x \in Steps |-> "nothing"]
    /\ stageRow = [s \in Stages |-> "none"]
    /\ pipeRow = [p \in Pipelines |-> "none"]
    /\ stepRow = [x \in Steps |-> "none"]
    /\ cache \in {"off", "empty"}
    /\ pages = 0 /\ usage = 0
    /\ attempts = 0 /\ faults = 0

-----------------------------------------------------------------------------
(* execute_snapshot_run *)

(* A fresh context.  A payload still in the result cache skips the stages.  *)
Begin ==
    /\ ~Running
    /\ attempts < MaxAttempts
    /\ attempts' = attempts + 1
    /\ exec' = IF mode = "no target"
                 THEN [pc |-> "raised", stage |-> 1, hit |-> FALSE, error |-> "other"]
               ELSE IF mode \in {"writes", "dry run"} /\ cache = "full"
                 THEN [pc |-> "page", stage |-> 1, hit |-> TRUE, error |-> "none"]
                 ELSE [pc |-> "open", stage |-> 1, hit |-> FALSE, error |-> "none"]
    /\ task' = [p \in Pipelines |-> FreshTask]
    /\ ctx' = [x \in Steps |-> "nothing"]
    /\ UNCHANGED <<mode, rows, cache, pages, usage, faults>>

OpenStageUnpersisted ==
    /\ exec.pc = "open"
    /\ exec' = [exec EXCEPT !.pc = "run"]
    /\ UNCHANGED <<mode, task, ctx, rows, cache, pages, usage, attempts, faults>>

OpenStage ==
    /\ exec.pc = "open"
    /\ SaveStage(exec.stage, "running")
    /\ exec' = [exec EXCEPT !.pc = "run"]
    /\ UNCHANGED <<mode, task, ctx, pipeRow, stepRow, cache, pages, usage, attempts>>

CloseStageRegardless ==
    LET s == exec.stage
    IN  /\ exec.pc = "run" /\ Joined(s)
        /\ SaveStage(s, "succeeded")
        /\ exec' = IF s < NStages THEN [exec EXCEPT !.pc = "open", !.stage = s + 1]
                   ELSE [exec EXCEPT !.pc = IF mode = "preview" THEN "returned" ELSE "page"]
        /\ UNCHANGED <<mode, task, ctx, pipeRow, stepRow, cache, pages, usage, attempts>>

(* The stage is over: its row, and the next stage, the page, or the         *)
(* exception of a pipeline.                                                 *)
CloseStage ==
    LET s == exec.stage
    IN  /\ exec.pc = "run" /\ Joined(s)
        /\ SaveStage(s, IF Failed(s) = {} THEN "succeeded" ELSE "failed")
        /\ \/ \E p \in RaisedBy(s) :
                  exec' = [exec EXCEPT !.pc = "raised", !.error = task[p].error]
           \/ /\ Failed(s) = {} /\ s < NStages
              /\ exec' = [exec EXCEPT !.pc = "open", !.stage = s + 1]
           \/ /\ Failed(s) = {} /\ s = NStages
              /\ exec' = [exec EXCEPT !.pc = IF mode = "preview" THEN "returned" ELSE "page"]
        /\ UNCHANGED <<mode, task, ctx, pipeRow, stepRow, cache, pages, usage, attempts>>

(* create_page_with_token: only a page refused for a file upload that has   *)
(* not arrived yet is asked for again, so no call makes two pages; the call *)
(* may also raise after Notion made the page.  With dry_run nothing is sent. *)
Made           == IF mode = "dry run" THEN 0 ELSE 1
PageIsMade     == pages' = pages + Made /\ UNCHANGED faults
PageCallRaises == pages' \in {pages, pages + Made} /\ Fault

CreatePageAgain ==
    /\ exec.pc = "page"
    /\ \/ PageIsMade /\ exec' = [exec EXCEPT !.pc = "usage"]
       \/ PageCallRaises /\ UNCHANGED exec
    /\ UNCHANGED <<mode, task, ctx, rows, cache, usage, attempts>>

(* The token and create_page; the call for the token may raise as well. *)
CreatePage ==
    /\ exec.pc = "page"
    /\ \/ PageIsMade /\ exec' = [exec EXCEPT !.pc = "usage"]
       \/ PageCallRaises /\ exec' = [exec EXCEPT !.pc = "raised", !.error = "other"]
    /\ UNCHANGED <<mode, task, ctx, rows, cache, usage, attempts>>

(* save_usage_record: one more row. *)
SaveUsage ==
    \/ usage' = usage + 1 /\ UNCHANGED faults
    \/ Fault /\ UNCHANGED usage

RecordUsageOnMiss ==
    /\ exec.pc = "usage"
    /\ usage' = IF exec.hit THEN usage ELSE usage + 1
    /\ cache' = IF cache # "off" /\ ~exec.hit THEN "full" ELSE cache
    /\ exec' = [exec EXCEPT !.pc = "returned"]
    /\ UNCHANGED <<mode, task, ctx, rows, pages, attempts, faults>>

(* An exception of the save is swallowed; then, after a full execution, the *)
(* payload is cached.                                                       *)
RecordUsage ==
    /\ exec.pc = "usage"
    /\ SaveUsage
    /\ cache' = IF cache # "off" /\ ~exec.hit THEN "full" ELSE cache
    /\ exec' = [exec EXCEPT !.pc = "returned"]
    /\ UNCHANGED <<mode, task, ctx, rows, pages, attempts>>

CacheExpires ==
    /\ cache = "full"
    /\ cache' = "empty"
    /\ UNCHANGED <<mode, exec, task, ctx, rows, pages, usage, attempts, faults>>

-----------------------------------------------------------------------------
(* _run_pipeline and _run_step *)

(* The row of the pipeline refers to the row of its stage; without it, or   *)
(* when the call fails, the pipeline raises before it has begun.            *)
OpenPipeline(p) ==
    LET t == task[p]
    IN  /\ t.pc = "waiting" /\ Turn(p)
        /\ \/ /\ stageRow[exec.stage] = "none"
              /\ Become(p, [t EXCEPT !.pc = "raised", !.error = "fk"])
              /\ UNCHANGED <<pipeRow, faults>>
           \/ /\ stageRow[exec.stage] # "none"
              /\ pipeRow' = Saved(pipeRow, p, "running")
              /\ Become(p, [t EXCEPT !.pc = IF StepCount[p] = 0 THEN "close" ELSE "step"])
              /\ UNCHANGED faults
           \/ /\ stageRow[exec.stage] # "none"
              /\ Fault
              /\ pipeRow' \in {pipeRow, Saved(pipeRow, p, "running")}
              /\ Become(p, [t EXCEPT !.pc = "raised", !.error = "other"])
        /\ UNCHANGED <<mode, exec, ctx, stageRow, stepRow, cache, pages, usage, attempts>>

(* A template without a handler, or a step outside the scope of a live      *)
(* test, raises past the failure policy and leaves no row.                  *)
StartStep(p) ==
    LET t == task[p]
    IN  /\ t.pc = "step"
        /\ \/ /\ Become(p, [t EXCEPT !.pc = "close", !.error = "other"])
              /\ UNCHANGED <<stepRow, faults>>
           \/ /\ Become(p, [t EXCEPT !.pc = "handler"])
              /\ SaveStep(<<p, t.k>>, "running")
        /\ UNCHANGED <<mode, exec, ctx, stageRow, pipeRow, cache, pages, usage, attempts>>

(* The handler returns; a degraded result is a success with a warning.      *)
HandlerSucceeds(p) ==
    LET t == task[p]
    IN  /\ t.pc = "handler"
        /\ ctx' = [ctx EXCEPT ![<<p, t.k>>] = "outputs"]
        /\ Become(p, [t EXCEPT !.pc = "record"])
        /\ UNCHANGED <<mode, exec, rows, cache, pages, usage, attempts, faults>>

(* The handler raises or reports a failure: _handle_step_failure.           *)
HandlerFails(p) ==
    LET t == task[p]
        x == <<p, t.k>>
        fatal == FailurePolicy[x] = "fail"
    IN  /\ t.pc = "handler"
        /\ ctx' = [ctx EXCEPT ![x] = IF fatal THEN "failure" ELSE "recovery"]
        /\ Become(p, [t EXCEPT !.pc = "record", !.error = IF fatal THEN "other" ELSE @])
        /\ UNCHANGED <<mode, exec, rows, cache, pages, usage, attempts, faults>>

RecordStepPastEnd(p) ==
    LET t == task[p]
    IN  /\ t.pc = "record"
        /\ SaveStep(<<p, t.k>>, IF t.error = "none" THEN "succeeded" ELSE "failed")
        /\ Become(p, IF t.error = "none" /\ t.k <= StepCount[p]
                       THEN [t EXCEPT !.pc = "step", !.k = @ + 1]
                       ELSE [t EXCEPT !.pc = "close"])
        /\ UNCHANGED <<mode, exec, ctx, stageRow, pipeRow, cache, pages, usage, attempts>>

RecordStepOfFailure(p) ==
    LET t == task[p]
    IN  /\ t.pc = "record"
        /\ SaveStep(<<p, t.k>>, IF ctx[<<p, t.k>>] = "outputs" THEN "succeeded" ELSE "failed")
        /\ Become(p, IF t.error = "none" /\ t.k < StepCount[p]
                       THEN [t EXCEPT !.pc = "step", !.k = @ + 1]
                       ELSE [t EXCEPT !.pc = "close"])
        /\ UNCHANGED <<mode, exec, ctx, stageRow, pipeRow, cache, pages, usage, attempts>>

(* The final row of the step; a recovered failure is saved as a success.    *)
RecordStep(p) ==
    LET t == task[p]
    IN  /\ t.pc = "record"
        /\ SaveStep(<<p, t.k>>, IF t.error = "none" THEN "succeeded" ELSE "failed")
        /\ Become(p, IF t.error = "none" /\ t.k < StepCount[p]
                       THEN [t EXCEPT !.pc = "step", !.k = @ + 1]
                       ELSE [t EXCEPT !.pc = "close"])
        /\ UNCHANGED <<mode, exec, ctx, stageRow, pipeRow, cache, pages, usage, attempts>>

ClosePipeline(p) ==
    LET t == task[p]
    IN  /\ t.pc = "close"
        /\ SavePipeline(p, IF t.error = "none" THEN "succeeded" ELSE "failed")
        /\ Become(p, [t EXCEPT !.pc = IF t.error = "none" THEN "ok" ELSE "raised"])
        /\ UNCHANGED <<mode, exec, ctx, stageRow, stepRow, cache, pages, usage, attempts>>

-----------------------------------------------------------------------------
(* The process stops: tasks, context and result cache are gone. *)
Crash ==
    /\ Running
    /\ Fault
    /\ exec' = [exec EXCEPT !.pc = "idle"]
    /\ task' = [p \in Pipelines |-> FreshTask]
    /\ cache' = IF cache = "off" THEN "off" ELSE "empty"
    /\ UNCHANGED <<mode, ctx, rows, pages, usage, attempts>>

-----------------------------------------------------------------------------
RunPipeline(p) ==
    \/ OpenPipeline(p) \/ StartStep(p) \/ HandlerSucceeds(p) \/ HandlerFails(p)
    \/ RecordStep(p) \/ ClosePipeline(p)

Main == OpenStage \/ CloseStage \/ CreatePage \/ RecordUsage

Next ==
    \/ Begin \/ Main \/ CacheExpires \/ Crash
    \/ \E p \in Pipelines : RunPipeline(p)

Spec == Init /\ [][Next]_vars

(* The event loop runs every task that can go on; the clients the handlers  *)
(* use give up after their timeouts, so every call ends.                    *)
FairSpec == Spec /\ WF_vars(Main) /\ \A p \in Pipelines : WF_vars(RunPipeline(p))

-----------------------------------------------------------------------------
(* Properties *)

TypeOK ==
    /\ mode \in Modes
    /\ exec \in Exec
    /\ \A p \in Pipelines : /\ task[p].pc \in TaskPC /\ task[p].error \in Error
                            /\ task[p].k \in 1..(IF StepCount[p] = 0 THEN 1 ELSE StepCount[p])
    /\ ctx \in [Steps -> Left]
    /\ stageRow \in [Stages -> RowStatus]
    /\ pipeRow \in [Pipelines -> RowStatus]
    /\ stepRow \in [Steps -> RowStatus]
    /\ cache \in {"off", "empty", "full"}
    /\ pages \in Nat /\ usage \in Nat
    /\ attempts \in 0..MaxAttempts /\ faults \in 0..MaxFaults

(* The page is built from a complete context: unless the payload comes from *)
(* the result cache, every step of every stage has left its outputs, or     *)
(* failed under a policy that lets the run go on (execute_snapshot_run,     *)
(* _handle_step_failure).                                                   *)
PageNeedsEveryStep ==
    exec.pc \in {"page", "usage"} /\ ~exec.hit =>
        \A x \in Steps : \/ ctx[x] = "outputs"
                         \/ ctx[x] = "recovery" /\ FailurePolicy[x] # "fail"

(* Stages are barriers: while a pipeline of a stage is under way, every     *)
(* pipeline of an earlier stage has succeeded and none of a later one has   *)
(* begun, so what an earlier stage puts into the run's cache is there.      *)
StageBarrier ==
    \A p \in Pipelines : Started(p) /\ ~Ended(p) =>
        \A q \in Pipelines : /\ StageOf[q] < StageOf[p] => task[q].pc = "ok"
                             /\ StageOf[q] > StageOf[p] => ~Started(q)

(* An execution that has returned or raised leaves no pipeline running      *)
(* behind it, so the worker's next attempt does not race with the last.     *)
NothingLeftRunning ==
    ~Running => \A p \in Pipelines : Started(p) => Ended(p)

(* When no save failed, the trace tells the outcome.  Of an execution that  *)
(* returned it says so at every level, whatever earlier attempts had        *)
(* written to the same rows.  Of one that raised out of its stages it       *)
(* points to the culprit: its stage and a pipeline of it are recorded as    *)
(* failed, and in no pipeline of the stage is a step or the pipeline itself *)
(* left "running".                                                          *)
TraceTellsOutcome ==
    /\ exec.pc = "returned" /\ ~exec.hit /\ faults = 0 =>
          /\ \A s \in Stages : stageRow[s] = "succeeded"
          /\ \A p \in Pipelines : pipeRow[p] = "succeeded"
          /\ \A x \in Steps : stepRow[x] = "succeeded"
    /\ exec.pc = "raised" /\ mode # "no target" /\ faults = 0 =>
          /\ stageRow[exec.stage] = "failed"
          /\ \E p \in InStage(exec.stage) : pipeRow[p] = "failed"
          /\ \A p \in InStage(exec.stage) :
                /\ pipeRow[p] # "running"
                /\ \A k \in 1..StepCount[p] : stepRow[<<p, k>>] # "running"

(* The worker gives a run up at once when it sees a foreign-key violation.  *)
(* The trace's own rows cause one only after the save of a stage row was    *)
(* lost and swallowed.                                                      *)
FatalOnlyAfterLostSave == exec.error = "fk" => faults > 0

(* Every page is paid for: usage records and pages differ by no more than   *)
(* the calls that failed, cached payloads included.  A dry run makes no     *)
(* page, but each of its executions is recorded as if it had.               *)
UsageFollowsPages ==
    IF mode = "dry run" THEN pages = 0 /\ usage <= attempts
    ELSE /\ usage <= pages
         /\ pages - usage <= faults + (IF exec.pc = "usage" THEN 1 ELSE 0)

(* Every execution ends, however its pipelines fail.                        *)
ExecutionEnds == Running ~> ~Running

-----------------------------------------------------------------------------
(* The promise to the worker: at most one page per execution, and none      *)
(* missing when it returns.  A dry run is to it what a preview is.          *)
Promise == INSTANCE Execution WITH
    writes <- mode = "writes",
    state  <- IF exec.pc = "idle" THEN "off" ELSE
              IF exec.pc \in {"open", "run", "page"} THEN "running" ELSE
              IF exec.pc = "usage" THEN IF mode = "dry run" THEN "running" ELSE "written"
              ELSE exec.pc

KeepsPromise == Promise!Spec
=============================================================================
