# Verification of notion_place_inserter

TLA+ models of the server and worker in `src/app`, the TLC configurations that
check them on small instances, and TLAPS proofs of what holds on every
instance. The program takes an HTTP request, turns it into queued runs of the
owner's stored pipelines, executes these in a worker, and ends each run with a
page in the owner's Notion database.

    tlc -workers 2 -config WorkerSafety.cfg MCWorker      # one run
    tlapm WorkerProofs.tla                                # the proofs

`PROJECT.json` lists components, runs, mutants (one plausible bug for every
checked property, which must make it fail), the lines of source each
definition stands for, the findings, the hazards and the theorems.

## 1. The system

| Part | State it keeps | Operations | Hard because of |
|---|---|---|---|
| Trigger invocation (`routes/locations.py`) | none; handler locals | `invoke_trigger`: limits, seed, trigger, secret, fan-out of row + message per linked job | other requests and edits between its awaits, failures half way through the fan-out |
| Live tests (`routes/management.py:419`, `pipeline_live_test/`) | none | enqueue one run with a scope and no destination writes | shares rows, queue and quota windows with triggers |
| Run quota (migration `20260322120002`, `run_quota.py`, `effective_limits.py`) | `app_limits` (platform, owner), new-user defaults | effective caps, count-and-insert RPC under an advisory lock, refusal as error text | concurrency per owner, midnight, stale caps, text as a protocol |
| Queue (`supabase_queue_repository.py`, pgmq) | messages, visibility, read count | send, read, archive | at-least-once delivery, visibility timeout |
| Worker (`queue/worker.py`, `worker_main.py`) | handler locals; `job_runs` row | poll, idempotency check, bounded retries, execute, persist, publish, archive | crash, redelivery, stale row upserts, failures inside failure handling |
| Job execution (`services/job_execution/`) | context, run cache, trace rows, result cache | stages, parallel or sequential pipelines, steps and failure policies, page, usage | concurrency of tasks, swallowed saves, repeated execution over the same row ids |
| Step handlers, bindings (`handlers/`, `binding_resolver.py`) | step outputs, run cache, properties in the context | one `execute` per step template | shared run cache, a definition edited between analysis and run, overrides |
| Run repository (`postgres_run_repository.py`) | `job_runs`, `stage_runs`, `pipeline_run_executions`, `step_runs`, usage | find + upsert updates, saves, listings | read-modify-write of whole rows |
| Definitions (`postgres_repositories.py`, `job_definition_service.py`, `validation_service.py`) | jobs, stages, pipelines, steps, triggers, links, targets | validate, save and read graphs, resolve a snapshot, attach, rotate secret | multi-row saves without a transaction, torn reads, lost updates |
| Management API (`routes/management.py`) | none | edit pipelines, triggers, templates, account | check-then-act on limits, paths and names |
| Provisioning (`postgres_seed_service.py`, templates) | starter definitions | provision, reprovision, create from template | crash between dependent saves, double clicks |
| Invitations, signup, cohorts, waves, EULA (`supabase_auth_repository.py`, `signup_orchestration_service.py`, routes) | codes, profiles, cohorts, versions | issue, claim, signup with compensation, publish, delete if unused | two stores, concurrent claims, compensation that undoes half |
| Notion OAuth (`notion_oauth_service.py`) | state token, credential, connector, external sources | authorize, callback, refresh, select, disconnect | two rows that must agree, each written from a copy |
| Targets and schemas (`schema_sync_service.py`) | targets, schema snapshots | select a source, sync a schema | a sync writes the target it read before the fetch |
| Icon catalog, UI themes | rows, files | search, CRUD | little: single rows |
| External clients, legacy pipelines, YAML repositories, wiring | none relevant | calls and conversions | only that calls fail or lose their reply |

How they interact: a trigger request or a live test inserts a `job_runs` row
and then sends a pgmq message that names it; there is no transaction over the
two. A worker reads the message, re-resolves the job definition, executes it
with the job execution service, and writes the outcome to the same row; the
message is archived last. The API never hears from the worker: the row is the
only channel back. Definitions are edited by the management API at any moment.

What makes the parts correct:

* **worker**: no success without its page; a bounded number of pages; no run
  abandoned; one notification that agrees with the row; everything ends.
* **dispatch and quota**: caps hold whatever races; refusals are justified;
  the reply tells the truth about rows and messages.
* **job execution**: stages are barriers, no task outlives its execution, the
  page rests on every step, the trace shows what happened, usage is counted.
* **definitions**: what was saved is what runs; a save does not fail on rows
  another save left; a value read from the run cache is the one written last.
* **live tests**: an accepted test finds what its steps read, and touches only
  what the editor allowed.
* **accounts**: a claim is final; a profile agrees with its invitation; a spent
  code has bought a profile; one EULA text is published and never changes.
* **owner's resources**: a target shows the schema of its own source; a starter
  trigger has its pipeline; connector and credential agree; the limit on
  pipelines holds up to the creations that overlap.

## 2. Modules

| Module | Role |
|---|---|
| `Worker` | replicas of the worker, the queue, the rows, the pages |
| `RunLifecycle` | the abstract life of a run that `Worker` implements |
| `TriggerDispatch` | HTTP requests, live tests, quota, row and message |
| `JobExecution` | one worker process executing one run, possibly several times |
| `Execution` | what one execution promises the worker; `JobExecution` implements it |
| `JobGraph` | a job's definition: saved row by row, read level by level |
| `StepHandlers` | the step templates as sets of outcomes (no variables) |
| `DataFlow` | values through one run, and the analysis of a live test of it |
| `AuthTables`, `Accounts` | tables and calls behind accounts; the requests that make them |
| `OwnerTables`, `Resources` | an owner's connection, targets, triggers, pipelines; the requests on them |
| `*Proofs` | theorems about the module they are named after |
| `MC*` | the instances for TLC |

The models meet at narrow interfaces. `TriggerDispatch` ends with a row and a
message (`RowsAndMessages`: no message without its row); `Worker` starts with
one row and one message per run. `Worker`'s execution is one action that returns
or raises with at most one page created; that is what `Execution` says, and
`JobExecution` is shown to implement it (`KeepsPromise`). `JobGraph` shows that
what a run reads is what was saved (`SavedIsRead`); `JobExecution` and
`DataFlow` take such a definition as given, the one for the order of its steps
and its trace, the other for the values. `Resources` treats a pipeline as one
row, `JobGraph` its inside.

### Worker

`worker[w]` holds the locals of `_process_message`: `pc`, the run, `reads`
(`msg.read_count`), `retry` (`retry_count`), `goal` (which sequence of row
writes is under way, hence which except clause catches its failure) and `snap`
(the row read by the current find). Every await after which another process
may have changed something is an action: `CheckStatus` (525), `ReadRetryCount`
(543, with the read-count ceiling), `FindRow`/`SaveRow` twice for
`update_job_status` and `update_run`, once for `increment_job_retry_count`,
`Backoff`, `ExecuteSucceeds`/`ExecuteFails`/`ExecuteIncomplete`, `Publish`,
`Archive`. `ReadFails`, `PersistFails`, `ArchiveFails` are the exceptions of
these calls and go where the enclosing except clause goes; a failed call may
have taken effect. `Crash` loses the locals, `Restart` brings the process back,
`VtExpires` makes an unarchived message visible again, also under a live
worker. An upsert writes the whole row from `snap`, as the code does.

A fatal error is a foreign-key or unique violation; which one occurs depends
on data, so `fatal` is a free choice. Status `cancelled` exists in the schema
but no code path sets it. Events are log lines.

### TriggerDispatch

One owner, one trigger, its linked jobs. `req[q]` holds the locals of
`invoke_trigger`, `row` the day each row was created on (the quota looks at
nothing else), `queue` the messages sent. One action per await: `ReadLimits`,
`SeedOwner`, `PlantCaps`, `FindTrigger`, `ListJobs`, `NextJob`, `CallQuota`
and `InsertRow` (start and commit of the RPC's transaction: `now()` is taken
at the start, the count and insert happen under the lock), `Send`,
`FanOutEnds`. `ResolveLiveTest` starts a live test, which shares `InsertRow`
and `Send` but not the check. `InsertFails`, `SendFails`, `ResolveFails` and
`ApiRestart` are the failures. Around them the clock, edits of limits, jobs
and the trigger. `RaisedField` and `IntParses` model the two ends of the
refusal text by what each does to a number.

Secret and body checks are one free choice in `FindTrigger`: they are pure.

### JobExecution

`exec` is the position in `execute_snapshot_run`, `task[p]` the coroutine of
pipeline `p`, `ctx` what each step left in the execution context, `stageRow`,
`pipeRow`, `stepRow` the statuses of the trace, `cache` the result cache's
entry. A save that is logged and swallowed either takes place or is a fault;
`OpenPipeline`'s save is the one that raises, and raises for certain when the
stage row it refers to is missing. Repeated executions start with fresh tasks
and context over the old rows. Step numbers follow `sequence`. A run writes, is
a preview, or is executed by a service in dry run, whose page call answers
without making a page while its usage record is saved all the same; for the
worker a dry run is what a preview is, no page.

### JobGraph

`stageRow`, `pipeRow` and `stepRow` are the tables below one job, with
PostgreSQL's unique (parent, sequence) as `Clash`, checked by each statement.
`editor[e]` is a request inside `save_job_graph`: `WriteJob`, `WriteStage`,
`WritePipeline`, the deletion of orphaned steps and then the two phases of step
numbers (a band from `TempBase` up, then the final ones), one action per
statement, each of which may fail. `reader[r]` is `get_graph_by_id`: the job,
its stages, then level by level whatever the tables hold by then. `Valid` is
`validate_job_graph` as far as order, references and limits go; it
refuses a pipeline id in two stages but compares no other ids, so a body may
give one id to two rows, and the second overwrites the first: `SavedIsRead`
speaks of bodies whose ids differ. A save deletes orphaned steps
but neither stages nor pipelines it no longer names, so a graph that is read may
have more pipelines than the body, never fewer. `settled` and
`halfway` are history: what the last complete save was, and which payloads were
left half written.

### StepHandlers and DataFlow

`StepHandlers` has one operator per template, the set of what `execute` may
return for a kind of input: the kind of value left, the calls made outside, and
how it ends. Values are told apart only as far as the code does (absent, blank,
text, photo name, data, image payload). Each follows the handler's order of
guards, overrides (`api_overrides`) and client answers.

`DataFlow` runs one definition, a sequence of stages of pipelines of steps; a
step is found by its place `<<stage, pipeline, index>>`, and `Precedes` is the
order of places. A definition is taken as read in one piece: validated, no id
used twice (they are primary keys). A graph that a save tears while it is read
is `JobGraph`'s subject and is not executed here. `Fire` is a trigger, `RunTest` an editor's live
test (analysis, scope, fixtures and overrides), `Edit` saves another definition,
`Start` is the worker resolving the definition *then*. `Begin` resolves a step's
inputs, `Execute` runs its handler on what was resolved (late bindings are read
now): between them the other pipelines of a parallel stage run. A step that
ends well leaves what its handler returns, which for `cache_set` and
`property_set` is nothing (`Succeed`); one that fails and goes on leaves its
template's default under `continue_with_default`, if the template has one, and
otherwise no output at all (`GoOn`), so that a later binding to it finds nothing.
`reads` records for every read who had written the value, which is what the
properties compare with the order of the definition; `emptied` is the history of
steps that went on without an output.

### AuthTables and Accounts

`AuthTables` has the rows and one operator per repository call, with the foreign
keys and what a deletion does to the rows that refer to it. `Accounts` has the
handlers: a request is created by `Arrive` and makes one call per `Handle` step,
so that any two requests interleave between calls. Issuing by an administrator
(`Issue`) or for a waitlist entry (`InviteFromWaitlist`), claiming and the two
signups, revoking, cohorts and waves with their checks table by table, waitlist
submissions, EULA drafts, copies, edits and publication. `publish_eula_version`
is one transaction of three statements, which at read committed each see what
is committed when they start: it looks at the draft (`PublishRpc`), finds the
published row (`FindPublished`), and, when the row is free, archives it if it is
still published and publishes the draft by its id; the commit fails if the
unique index then sees two published rows (`Swap`). Publications interleave
between these. `CallRaises` fails the call a request is about to make. `order` is `created_at`: some lookups take the
oldest row.

### OwnerTables and Resources

`OwnerTables` has the rows of one owner and the sync of a target's schema, which
several requests call (`back` is where they go on). `Resources` has eighteen
kinds of requests: OAuth start, callback, refresh, selection and disconnect,
refresh of a schema, the trigger's provisioning of limits and starter
definitions, re-provisioning, two templates, creation of pipelines by POST, the
PUT that replaces or creates one, their archiving and change of status,
creation, edit, rotation and removal of triggers. A request keeps the
rows it read in its record and writes whole rows from it, as the repositories'
upserts do. `met[r]` records which requests overlapped `r`; it is history and
only properties look at it.

## 3. Runs

| Run | Instance | Shows |
|---|---|---|
| `worker_safety` | 2 workers, 1 run, 1 retry, ceiling 3, one fault of each class | six invariants under every interleaving of the faults (1.9M states) |
| `worker_liveness` | 2 workers, 1 run, ceiling 2, one fault of each class and a second failed archive, fairness | every message archived, every run settled (546k states) |
| `worker_lifecycle` | 2 workers, preview + incomplete + malformed, 2 crashes | `Worker` implements `RunLifecycle` |
| `worker_oscillation` | 1 archive fault | **violated**: a succeeded and published run becomes failed |
| `trigger_dispatch` | 2 requests, 1 live test, 2 jobs, caps 1-2 per day and 2-3 per month, 2 days, 1 edit, 1 fault | quota, replies, rows and messages agree (1.1M states) |
| `quota_reply` | 1 request, 1 live test, 2 jobs | **violated**: the refusal is a 503 |
| `quota_live_test` | 1 request, 1 live test, 1 job, cap 1 | **violated**: a live test uses the trigger's quota |
| `job_execution` | parallel stage of 2 pipelines, sequential stage of 2, 4 steps with all three policies and an empty pipeline, 2 executions, 2 faults, written, previewed or in dry run, fairness | seven invariants, the promise, termination (468k states) |
| `job_graph` | 2 editors, 1 reader, 5 payloads that swap, move, add and remove steps (one invalid, one repeating an id), 3 requests, 1 fault | what was saved is read; saves do not fail on each other's leftovers (1.3M states) |
| `data_flow` | 7 definitions over all 15 step kinds, run whole or as tests of every scope, override and fixture, 1 edit | who reads whose value; what a test may touch (606k states) |
| `accounts` | 3 requests, 2 users, 2 codes, 1 cohort, 2 waves, 1 address, 4 EULA versions (one published, two drafts), 1 fault | claims, profiles, EULA history (797k states) |
| `resources` | 2 requests of 18 kinds, 2 data sources selected one by one, both, or one twice, 3 starting points, 1 fault | schemas, starter, connection and limit (760k states) |

Bounds. `MaxFaults`, `MaxEdits`, `MaxDay` and `MaxAttempts` bound the
environment, not the code. Two workers suffice for a stale copy and an
overlap; a third could only repeat the role of one of them. A retry budget of
one and a ceiling of three reach first attempt, retry, exhausted retries and
the ceiling with both workers; the code's values (3 and 20) repeat the same
steps, and the theorems hold for all values. In the dispatch model caps of 1
and 2 against four production rows and two live-test rows reach a full day, a
full month with room in the day, and caps that shrink under a request. In the
execution model each kind of stage has one pipeline that can fail before,
while and after the other runs. `job_graph`'s payloads are the smallest that
swap two steps, move one to another pipeline and stage, and drop one; three
writing requests give an abandoned save, a save over it and a third editor.
`data_flow`'s definitions are of at most eight steps: a key written in two
parallel pipelines and read in a third place is the smallest with every order
that matters. `accounts` with three requests has a claim, the signup's profile
and a deletion in flight at once, and two publications of a draft around one of
another; `resources` with two has every pair of
requests, the sync of one target by both, and a limit of one, which one creation
reaches and two that overlap pass. `worker_liveness` has two failed archives: the
second one, in the failure path, ends the process.

`SYMMETRY` is used for safety runs only. `CHECK_DEADLOCK FALSE` stands where
the modelled episode ends: all requests answered, or all executions used up.
`Worker` never stops: an idle worker polls. In `JobGraph`, `DataFlow`, `Accounts` and `Resources` the requests
of an episode are finite in number and all may be answered.

Conditions in properties. `PageBudget`, `ArchivedIsSettled`,
`NotifiedOnceAndTruly`, `EventuallySettled`, `TraceTellsOutcome`, `StarterLinked`,
`ConnectionAgrees` and `LimitKept` name the faults or overlaps under which they hold, because
the code gives nothing stronger: a failed write of `job_runs` is followed by the
archive of the message (worker.py:865), an overlap beyond the visibility timeout
takes columns back, an edit of a trigger upserts one deleted meanwhile. Each
condition is as weak as TLC allows; the instance reaches states on both sides.
What such a condition excepts is not covered: the hazards of PROJECT.json that
consist of it carry a note and no property.

What the models show the code to do, where no document says otherwise and hence
no finding is listed:

* *Repeated writes.* Two administrators inviting from one waitlist entry
  overwrite each other's link; two submissions of one address may count once;
  one recipient may be issued two codes; deleting an invitation answers 204 when
  the code was claimed after the check (the row stays, `ClaimIsFinal`).
* *Never successful.* `POST /auth/signup` always fails
  (signup_orchestration_service.py:48, a coroutine is not awaited), before it
  changes anything; likewise `POST /auth/admin/cohorts` answers 409
  (auth_admin.py:306, inside `CreateCohort`), `POST /management/triggers` 500
  (management.py:1245, `CreateTrigger`), and the administrator's limit routes
  (auth_admin.py:1007-1146, not modelled).
* *Definitions.* A save deletes the steps it no longer has, not stages and
  pipelines: these come back with the next read of the graph. Two stages or two
  pipelines that swap sequences collide; steps do not (two phases). A change of
  status that overlaps an archive brings the job back. `PUT
  /management/pipelines/{id}` (management.py:642-681) creates a job, or brings an
  archived one back, without a look at the limit that POST checks (`SaveGraph`).
* *EULA.* Two publications of one draft that both saw it as a draft, with the
  publication of another version between them, publish an archived version
  again; the history is then draft, published, archived, published
  (`EulaHistory` allows exactly this).
* *Live tests.* A `manual_response` of null does not disable a call; the svg step
  looks at no override; the relation step ignores a response that is no dict;
  the analysis does not look at `cache_get` and `cache_key`, takes parallel
  pipelines in the order of the definition, and does not ask what a step leaves:
  a binding to a step that returns no output, or that failed under policy
  `continue`, is accepted and then finds nothing. `TestsTouchOnlyWhatTheyMay` and
  `AnalyzedReadsSatisfied` except exactly these.
* *Owner.* A callback before the connector row exists consumes its state and then
  fails; two callbacks may consume one state; a refresh that overlaps a
  disconnect shows the connector as connected again; a selection of a bundled
  target drops its schema, and a sync that began before it takes the selection
  back; two clicks on a template make two pipelines.

### Findings

1. **Oscillation** (`worker_oscillation`). When `archive` raises after the
   success was persisted and published (worker.py:825), the exception reaches
   `_handle_final_failure`, which writes `failed` over `succeeded` and
   publishes a failure. `td-2026-03-13-retry-error-propagation-validation.md:59`
   requires that there be no oscillation.
2. **Quota refusals answer 503** (`quota_reply`). PL/pgSQL's `RAISE` takes `%`
   for its placeholder, so `%s` leaves an `s`: the message reads `...|day|1s|1s`,
   and `int("1s")` fails in `run_quota.py`. The documented 429 is not given.
3. **Live tests count** (`quota_live_test`). The quota counts all rows of the
   owner; the document says live tests do not consume it.

## 4. Fairness

`worker_liveness`: weak fairness of a live handler (the event loop runs it and
every await ends: the HTTP clients have timeouts), weak fairness of `Restart`
(the platform restarts the container) and of the return of an unheld message
(its visibility timeout passes), strong fairness of receiving a given message
(pgmq reads in the order of message ids, so a visible message is not passed
over for ever). Faults and crashes are never fair and are bounded.

`job_execution`: weak fairness of the main coroutine and of each pipeline's
task, for the same reasons. `Begin`, `Crash` and `CacheExpires` are not fair.

## 5. Proofs

`WorkerProofs` proves, for all values of the constants:

* `TypeCorrect`: `Spec => []TypeOK`. `TypeInv` adds to `TypeOK` that a handler
  about to write "retry" still has a retry left; without it `Written` could
  leave the range of the retry count.
* `SuccessHasPage`: `Spec => []SucceededHasPage`. The invariant `PageInv` must
  also speak of what can still become the row: the copy in `snap` of every
  handler, and every handler whose goal is "succeeded". With it each action is
  a short case.
* `PagesWithinBudget`: `Spec => []PageBudget`. The argument counts: while no
  overlap occurred, at most one handler holds a run, and pages are at most the
  persisted retry count plus the attempt under way plus processes that died.
* `RetriesOnlyGrow`: the action property, from the same invariant: a handler's
  copy of the retry count is never ahead of, or behind, the row.

The second half of it is about what a worker leaves behind. Lemmas named
`...Moves` say once, field by field, what each action does to its handler; the
theorems only use those.

* `ArchivedAreSettled`: `Spec => []ArchivedIsSettled`. A message is archived only
  by a handler that has made the row terminal or has seen it so; the invariants
  say that of a handler about to publish or to archive. Two are needed because
  two combinations of faults are excused: `SettledWhileAlive` (no process died;
  a row that another worker writes back is written again by that worker) and
  `SettledAlone` (no overlap, hence one handler per message, by `BudgetInv`).
* `NotifiedOnce`: `Spec => []NotifiedOnceAndTruly`. With one handler per message
  the handler's position tells the row's status (`KnowsStatus`), so nobody
  executes or publishes a run that was published before.
* `WorkersImplementLifecycle`: `Spec => Lifecycle`, under `NoSuchFaults` (the
  bounds of failed row calls, failed archives and overlaps are 0, the number of
  crashes is free). Only the writes of a row and the archive move the abstract
  state; every other step stutters.
* `ExecutionsUnderCeiling`: `Spec => []ExecutionCeiling`. The invariant
  `CeilingInv` bounds the pages of a run plus the attempts still outstanding,
  a finite set of pairs of handler and retry count: a delivery below the ceiling
  adds at most `MaxRetries + 1` of them, a page takes one away, and no other step
  adds any. This is where the number of workers must be finite.

* `OutcomesAreFinal`: while only processes die, no step changes the status of a
  terminal row. A late upsert is the danger: the copy in `snap` may be older than
  the row. `KnowsStatus`, as for `NotifiedOnce`, says that a handler which still
  has a row to write holds a run that is not terminal, or writes the same outcome
  once more (the second of the two updates of a success or failure).

`JobExecutionProofs` proves, for every layout of stages, pipelines and steps,
every assignment of run modes and failure policies and any number of executions
and faults:

* `ExecutionTypeCorrect`: `Spec => []TypeOK`. `TypeInv` adds that a task which
  stands at a step has steps at all.
* `BarrierHolds` and `NoPipelineOutlives` (`StageBarrier`,
  `NothingLeftRunning`). Both follow from `ControlInv`, which says where every
  pipeline is, given where the execution is. The part the two properties do not
  mention carries the proof: in a sequential stage everything before a started
  pipeline has succeeded. That is why the loop may stop at its first failure
  without leaving another pipeline behind (lemma `JoinedHasEnded`); for a
  parallel stage the same lemma rests on `gather` waiting for every task.
* `PageIsComplete` (`PageNeedsEveryStep`). `StepInv` counts along each pipeline:
  the steps before the one it stands at are settled unless it carries an
  exception. Together with `ControlInv` (at the page all pipelines are "ok")
  every step is settled.
* `EveryPageIsPaidFor` (`UsageFollowsPages`), from `UsageInv`, which keeps the
  page not yet recorded apart from the ones whose record was lost, and counts
  the records of a dry run by its executions.
* `FatalNeedsALostSave` (`FatalOnlyAfterLostSave`), from `FaultInv`: while no
  save has failed, a stage that runs has its row.
* `TraceIsTrue` (`TraceTellsOutcome`), from `TraceInv`: while no save failed,
  every row of the trace is what the coroutine that writes it has come to, stage
  by stage and, within a pipeline, step by step. Rows of earlier executions are
  the difficulty: a row not yet reached may hold anything, so the invariant
  speaks of the rows behind each coroutine only.
* `ExecutionKeepsPromise`: `Spec => KeepsPromise`, the refinement to
  `Execution`. `ModeInv` (only a run that may write gets to the page) is what
  the steps `Write` and `Return` of the abstract specification need.

`TriggerDispatchProofs` proves, for any number of requests, live tests, jobs,
days, caps, edits and faults, `DispatchTypeCorrect`, `QuotaAlwaysHolds`,
`RepliesAlwaysTrue`, `RowsAndMessagesHold` and `FanOutAlwaysComplete`. Three
invariants carry them:

* `StoreInv` (with `TypeInv`) ties rows, messages and handlers together: a row of
  a request is accepted, about to be sent, or lost with its request.
* For the quota the windows are compared over time. `RowsOnlyAdded` says that
  rows are only added and `StepOfRequest` that a request keeps the caps it has
  read; `WindowsGrow` concludes that a count never falls. So a refusal stays
  justified, and a cap that bounded its window when its request inserted bounds
  it until another request inserts, which brings its own cap.
* `FanInv`: while nothing was edited, a request's accepted, current and remaining
  jobs are together the dispatchable ones.

`AccountsProofs` proves, for any users, codes, cohorts, waves, versions and
requests, `AccountsTypeCorrect`, `ProfilesMatch`, `ClaimsAreFinal`,
`ClaimsBuyProfiles` and `EulasKept`. Every call is shown once to keep `Keeps`
(what no step takes back: a claimed code, its grant, a published text) and
`TablesInv`. The invariant needs two facts the properties do not mention. What a
handler holds agrees with the operation it serves (`RequestOK`). And the grant a
signup carries from its claim to its profile may name a cohort or wave that is
gone by then (`Granted`): deletion nulls the column of the code, and the profile
is written with what is left, so both agree. `ClaimsBuyProfiles` then splits the
steps into quiet ones, the claim, and the profile or its failure. For `EulasKept`
the invariant says that a publication past its check is of a version that is a
draft, or that another publication of it has published since: that other one is
the second witness the property asks for.

`JobGraphProofs` proves, for any bodies, editors, readers and limits:

* `GraphTypeCorrect`: `Spec => []TypeOK`. A save looks its k-th step up by rank
  (`NthStep`). That this step exists and that every step has a number is a fact
  about finite sets: ranks are an injection of the steps of a pipeline into
  0..n-1, because validation makes their sequences differ, and an injection
  between sets of one size is onto (lemmas `NthStepIsThere`, `EveryStepIsNth`).
* `LoneSavesNeverCollide`: `Spec => []StepsNeverCollide`. `CollideInv` adds three
  parts. Of two saves under way neither counts as alone (`OneAlone`). Every row
  that has a number of the band is accounted for (`BandExplained`): by a body
  that was left halfway, or by a save under way, which will number it again if
  it is alone. And a save that is alone finds its pipeline in order
  (`PhasesHold`): in the first phase the rows are steps of its body, because the
  others were deleted, and those written so far are in the band; in the second
  everything not yet renumbered still is. So a number of the second phase is
  free, and one of the first can only be taken by a row of another body.

* `SavedGraphIsRead`: `Spec => []SavedIsRead`, from five invariants together.
  `TableInv`: the present rows are finitely many and no two children of one
  parent have the same sequence, so ORDER BY numbers them without gaps or ties
  (`SequenceIsSorted`). `SettledInv`: while a save is under way nothing is settled;
  if no other overlapped it, what it has behind it stands in the tables
  (`Written`), because its own later statements write other rows or the same ones
  again; at its end that is the whole body (`TablesHold`), and it stays until a
  save starts. `SavedInv`: what a reader that started from a settled body has got
  and has left to read are rows of the tables, in their order, and every pipeline
  below a stage is in one of the two (`ReadInv`), query by query. The end
  follows by counting: the rows of a pipeline and the steps of the body are
  matched one to one by id, and the one that is read as n-th has n - 1 before it
  in both orders. `OneAlone` above keeps the other saves away.

`ResourcesProofs` proves, for any number of requests of the eighteen kinds, any
sources, targets, selections and starting rows:

* `OwnerTypeCorrect`: `Spec => []TypeOK`. `RequestInv` says for every position of
  a handler which of its fields hold a row by then (`Fits`). `HistoryInv` adds
  that requests which are open together know of each other; the properties that
  excuse an overlap need it.
* `SchemaIsOfItsSource` (`SchemaOfItsSource`), from `SchemaInv`. A row carries its
  source and its schema together, and every writer writes a row it has read or
  made, so it is enough that a sync never pairs a row with a schema of another
  source: what it fetched by id is of the source in *its* copy (`Synced`). A
  snapshot is named by target and request, so a selection must not sync one
  target twice (`Left`): a source that its body repeats is passed over, because
  the target made for it the first time never goes away (`NextTargetsKept`).
* `ConnectionShownIsReal` (`ConnectionAgrees`), from `ConnectionInv`: unless
  something listed in the property has happened, connector and credential
  disagree only between the two writes of a callback or a disconnect, and no
  refresh holds a status that is not that of the row.
* `StarterStaysLinked` (`StarterLinked`), from `StarterInv`: the path of the
  starter trigger is used by no other (`StarterAlone`), and while its job or its
  link is missing there is a request on its way to make it (`StarterKept`).
* `LimitIsKept` (`LimitKept`), from `JobsInv`: active pipelines together with the
  creations between their check and their insert stay within the limit plus the
  slack of `Together`. A creation that passes its check while another one is
  open has met it, and so both count as overlapping; one that is alone finds
  every other creation either inserted, hence counted, or not yet checked.
  Archiving only takes away, and a change of status brings a pipeline back only
  if an archiving met it.

`DataFlowProofs` proves, for any set of validated definitions, any keys, fixtures,
overrides, deployments and edits:

* `FlowTypeCorrect`: `Spec => []TypeOK`. What could go wrong is that a scope or an
  edit leaves a run standing at a step its snapshot does not have. So `TypeInv`
  says that the snapshot is well formed; that a scope keeps it so (a stage, a
  pipeline, or the tail of a pipeline) is `ScopedWellFormed`.
* `TestsAreTame` (`TestsTouchOnlyWhatTheyMay`). `May` is the set of calls that the
  overrides and the destination switch of a run leave open. `HandleMay` shows,
  template by template and branch by branch, that no outcome of a handler makes
  another one; `TypeInv` carries that along the run. The exceptions of the
  property are in `Spared`, and each is needed by the handler named there.
* `ReadsFollowOrder` (`CacheFollowsOrder`). A key holds what the last of the
  steps wrote that are done, if no two of its writers race (`CacheKept`), and what
  is done is what precedes the reader (`DoneIsBefore`): for a sequential stage
  because no pipeline moves before its predecessor ended well (`InTurn`), for a
  parallel one except where the reader and the other step race. This is the
  order of the definition, which the run never compares.
* `AnalysisIsSound` (`AnalyzedReadsSatisfied`), from the same facts,
  `OutputsKept` (a step that is done left its output, unless its template leaves
  none or it is in `emptied`) and `WasAccepted` (what a test was accepted for).

Assumptions are those of the modules: `NoRun` is no run, the workers are
finitely many, the counts are naturals, every fault class has a bound (any
bound); a null column is no value, a null row no row; the codes are finitely
many (the oldest of a set of codes exists), and so are the requests on an
owner's resources; a body of `JobGraph` has fewer steps than `TempBase` (ten million
in the code) and its rows name parents in it, as `parse_job_graph` makes them; a source is no bundled target, and sources differ in the 20
characters that a target's id keeps of its source's; an editor saves jobs of
the type of the table (`Graphs`); an owner starts with rows
that agree (`StartsAssumption`: connected exactly with a token); a definition
of `DataFlow` is what validation accepts, with ids apart (`JobsAssumption`), and no
step has the id that stands for a fixture or for no writer. TLC evaluates
them on every run.

Every invariant, action property and refinement that a passing run checks is
stated by one of these theorems, with one condition more in one case:
`WorkersImplementLifecycle` has `NoSuchFaults`, which the instance of
`worker_lifecycle` satisfies as well. Only model-checked: liveness
(`EventuallyArchived`, `EventuallySettled`, `ExecutionEnds`), which is out of the
prover's reach, and the three violations, which are counterexamples.

## 6. Not modelled

* **Contents**: prompts, texts, payloads and schemas are data; external services
  are calls that succeed, fail, or act and lose their reply. What a mail, a
  notification or a log line says is left out.
* **Listings and displays**: monitoring pages, listings of runs and definitions,
  presentation of the input schema. They change nothing.
* **Administration of icons and UI themes**: single rows that nothing here
  depends on; a step only searches the catalog and records a miss.
* **Id mappings, YAML repositories, in-process pipelines and their caches**: the
  paths before definitions were stored in PostgreSQL. The synchronous mode of
  `invoke_trigger` runs the same execution without the queue.
* **Wiring**: construction of services from the environment.
* **Administrator's limits routes and EULA acceptance**: the former raise on a
  coroutine, the latter is reached only by the signup that always fails.

## 7. Plan

Done: `Worker` + `RunLifecycle`, `TriggerDispatch`, `JobExecution` +
`Execution`, `Accounts`, `JobGraph`, `Resources`, `DataFlow`, each with proofs.
Left:

1. A composition of `JobGraph` and `DataFlow`: a run over a torn read.
2. The limits routes and EULA acceptance, when their calls are awaited.
