------------------------------ MODULE DataFlow ------------------------------
(***************************************************************************)
(* How values flow through one run of a pipeline, and what an editor's     *)
(* live test of it may touch: the analysis of the test                     *)
(* (pipeline_live_test/analyze.py, routes/management.py), its scope        *)
(* (scoped_snapshot.py), the definition the worker resolves when it starts *)
(* (queue/worker.py), the bindings of the steps (binding_resolver.py) and  *)
(* their handlers (StepHandlers), with the pipelines of a parallel stage   *)
(* interleaving between the resolution of a step's inputs and its handler. *)
(* The rows of the trace, retries and the result cache are in JobExecution *)
(* and Worker.                                                             *)
(***************************************************************************)
EXTENDS StepHandlers, Sequences

CONSTANTS Versions,     (* sets of definitions: what one job is saved as          *)
          StepIds,
          Ids,          (* of stages and of pipelines                             *)
          Keys,         (* cache keys                                             *)
          Nothing,      (* no scope, no test                                      *)
          Field,        (* the field of the trigger's body that the bindings read *)
          Deployments,  (* [services, dry]: what the worker is configured with    *)
          Allows,       (* allow_destination_writes as the editor may set it      *)
          MaxEdits      (* bound: saves of another definition                     *)

(* A definition is a sequence of stages, by sequence number; a stage is    *)
(* [id, mode, pipes], a pipeline [id, steps], a step as follows.  in and   *)
(* late are bindings, the one resolved before the handler, the other in    *)
(* it: [from, of, path].  ready, meta and fallback are the parts of config *)
(* StepHandlers asks for.                                                  *)
Binding == [from : {"trigger"}, of : {Nothing}, path : {FALSE}]
           \cup [from : {"step"}, of : StepIds, path : BOOLEAN]
           \cup [from : {"cache_key_ref"}, of : Keys, path : BOOLEAN]
           \cup [from : {"cache_key"}, of : Keys, path : {FALSE}]

Step == [id : StepIds, kind : Kinds, in : Binding, late : Binding, key : Keys,
         ready : BOOLEAN, meta : BOOLEAN, fallback : Values,
         policy : {"fail", "continue", "continue_with_default"}]

Pipeline == [id : Ids, steps : Seq(Step)]
Stage    == [id : Ids, mode : {"parallel", "sequential"}, pipes : Seq(Pipeline)]

Jobs == UNION Versions

(* Where a step is: its stage, its pipeline, and how far down that.        *)
Places(j) == UNION {UNION {{<<n, m, i>> : i \in DOMAIN j[n].pipes[m].steps}
                              : m \in DOMAIN j[n].pipes} : n \in DOMAIN j}

PipelineAt(j, a) == j[a[1]].pipes[a[2]]
StepIn(j, a)     == PipelineAt(j, a).steps[a[3]]
StepsOf(j)       == {StepIn(j, a) : a \in Places(j)}

(* The order of the definition, also across the pipelines of a parallel    *)
(* stage.                                                                  *)
Precedes(a, b) ==
    \/ a[1] < b[1]
    \/ a[1] = b[1] /\ a[2] < b[2]
    \/ a[1] = b[1] /\ a[2] = b[2] /\ a[3] < b[3]

(* What ValidationService accepts: nothing is empty, a pipeline ends with a *)
(* cache_set or a property_set, and an input refers to steps before it in  *)
(* its pipeline; bindings in the config are not looked at.                 *)
Terminal == {"cache_set", "property_set"}

BindsBackwards(steps) == \A i \in DOMAIN steps :
    steps[i].in.from = "step" => \E h \in 1..(i - 1) : steps[h].id = steps[i].in.of

Validates(j) == j # <<>> /\ \A n \in DOMAIN j : j[n].pipes # <<>> /\
    \A m \in DOMAIN j[n].pipes :
        LET steps == j[n].pipes[m].steps
        IN  steps # <<>> /\ steps[Len(steps)].kind \in Terminal /\ BindsBackwards(steps)

(* Ids are primary keys.                                                   *)
ApartById(j) ==
    /\ \A n, m \in DOMAIN j : j[n].id = j[m].id => n = m
    /\ \A a, b \in Places(j) :
          /\ PipelineAt(j, a).id = PipelineAt(j, b).id => a[1] = b[1] /\ a[2] = b[2]
          /\ StepIn(j, a).id = StepIn(j, b).id => a = b

ASSUME JobsAssumption == \A j \in Jobs : j \in Seq(Stage) /\ Validates(j) /\ ApartById(j)

(* Who wrote a value, when no step did.                                    *)
ASSUME WritersAssumption == {"nobody", "fixture"} \cap StepIds = {}

(* management_body_fields_to_schema: required, and filled when its minimum *)
(* length is not 0; the minimum of a required text is 1 unless it is given. *)
SchemaField(required, minimum) ==
    [required |-> required,
     filled   |-> minimum = "one" \/ (minimum = "default" /\ required)]

BodyFields == {SchemaField(q, m) : q \in BOOLEAN, m \in {"default", "zero", "one"}}

ASSUME OtherAssumption ==
    /\ Field \in BodyFields
    /\ Deployments \subseteq [services : SUBSET Services, dry : BOOLEAN]
    /\ Allows \subseteq BOOLEAN
    /\ MaxEdits \in Nat

VARIABLES saved,    \* the definition in the tables
          deployed, \* the configuration of the worker
          run,      \* what was asked for: see NoRun
          phase,    \* "idle", "queued", "running", "done" or "failed"
          job,      \* the snapshot the worker executes
          stage,    \* the index of the current stage
          at,       \* at[p]: the pipelines of that stage, see Fresh
          outputs,  \* ctx.step_outputs, the output later steps bind to
          cache,    \* ctx.run_cache
          did,      \* the calls this run made
          reads,    \* history: who read what, written by whom
          emptied,  \* history: steps that failed and went on without an output
          edits     \* saves of another definition

vars == <<saved, deployed, run, phase, job, stage, at, outputs, cache, did, reads, emptied, edits>>
inputs == <<saved, deployed, run, edits>>

NoRun == [test |-> FALSE, kind |-> "job", of |-> Nothing, fixtures |-> {},
          over |-> [c \in CallSites |-> "enabled"], writes |-> TRUE,
          payload |-> "text", analyzed |-> Nothing]

Absent == [value |-> "null", by |-> "nobody"]

Env == [over |-> run.over, services |-> deployed.services, writes |-> run.writes,
        dry |-> deployed.dry]

---------------------------------------------------------------------------
(* The trigger's body *)

(* validate_request_body_against_schema: the text that is left of what was *)
(* sent; no result is a 422.                                               *)
Validated(sent) ==
    IF sent = "absent" THEN IF Field.required THEN {} ELSE {"null"}
    ELSE IF sent = "blank" /\ Field.filled THEN {} ELSE {sent}

(* What a binding to the payload reads: the field, or its copy under       *)
(* raw_input.                                                              *)
Payloads == UNION {Validated(sent) : sent \in {"text", "blank", "absent"}}

---------------------------------------------------------------------------
(* Scope *)

(* The stage with one of its pipelines, from its i-th step on.             *)
Only(st, m, i) ==
    [st EXCEPT !.pipes = <<[st.pipes[m] EXCEPT !.steps = SubSeq(@, i, Len(@))]>>]

(* apply_scope_to_snapshot: a stage, a pipeline, or a step with those that *)
(* follow it in its pipeline.                                              *)
Scoped(j, kind, of) ==
    LET a == CHOOSE a \in Places(j) : IF kind = "step" THEN StepIn(j, a).id = of
                                      ELSE PipelineAt(j, a).id = of /\ a[3] = 1
    IN  CASE kind = "job"   -> j
          [] kind = "stage" -> <<j[CHOOSE n \in DOMAIN j : j[n].id = of]>>
          [] OTHER          -> <<Only(j[a[1]], a[2], a[3])>>

ScopeIds(j, kind) ==
    CASE kind = "job"      -> {Nothing}
      [] kind = "stage"    -> {j[n].id : n \in DOMAIN j}
      [] kind = "pipeline" -> {p.id : p \in {PipelineAt(j, a) : a \in Places(j)}}
      [] kind = "step"     -> {s.id : s \in StepsOf(j)}

---------------------------------------------------------------------------
(* Analysis *)

Bindings(s) == {s.in, s.late}

BeforeAnywhere(j, a) == StepsOf(j)

Before(j, a) == {StepIn(j, b) : b \in {b \in Places(j) : Precedes(b, a)}}

(* A binding of the form cache_key and the key of a cache_get are not      *)
(* looked at.                                                              *)
Satisfied(b, earlier, fixtures) ==
    CASE b.from = "step"          -> \E x \in earlier : x.id = b.of
      [] b.from = "cache_key_ref" -> b.of \in fixtures
                                     \/ \E x \in earlier : x.kind = "cache_set" /\ x.key = b.of
      [] OTHER                    -> TRUE

(* analyze_live_test: "ok", when the run is accepted.                      *)
Accepted(j, kind, fixtures, over) ==
    /\ kind # "job" => \A s \in StepsOf(j) : ~WritesDestination(s.kind)
    /\ \A a \in Places(j) : \A b \in Bindings(StepIn(j, a)) :
          Satisfied(b, Before(j, a), fixtures)
    /\ \A s \in StepsOf(j) : \A c \in PlannedCalls(s.kind) : over[c] # "missing"

---------------------------------------------------------------------------
Fresh == [n |-> 1, pc |-> "ready", input |-> "null"]

PipesOf(j, n) == IF n \in DOMAIN j THEN DOMAIN j[n].pipes ELSE {}
Pipes == PipesOf(job, stage)
Entering(j, n) == [p \in PipesOf(j, n) |-> Fresh]

Init ==
    /\ saved \in Jobs
    /\ deployed \in Deployments
    /\ run = NoRun
    /\ phase = "idle"
    /\ job = <<>> /\ stage = 1 /\ at = Entering(<<>>, 1)
    /\ outputs = [x \in StepIds |-> Absent]
    /\ cache = [k \in Keys |-> Absent]
    /\ did = {} /\ reads = {} /\ emptied = {} /\ edits = 0

(* PUT /management/pipelines/{id}, after the request and before the worker *)
(* reads the definition.                                                   *)
Edit ==
    /\ phase = "queued"
    /\ edits < MaxEdits
    /\ \E V \in Versions : saved \in V /\ saved' \in V \ {saved}
    /\ edits' = edits + 1
    /\ UNCHANGED <<deployed, run, phase, job, stage, at, outputs, cache, did, reads, emptied>>

(* The trigger's request: a full run.                                      *)
Fire ==
    /\ phase = "idle"
    /\ \E t \in Payloads : run' = [NoRun EXCEPT !.payload = t]
    /\ phase' = "queued"
    /\ UNCHANGED <<saved, deployed, job, stage, at, outputs, cache, did, reads, emptied, edits>>

(* POST /management/pipelines/{id}/run: an unacceptable test is a 422.     *)
RunTest ==
    /\ phase = "idle"
    /\ \E kind \in {"job", "stage", "pipeline", "step"}, t \in Payloads, w \in Allows :
       \E of \in ScopeIds(saved, kind), fixtures \in SUBSET Keys :
       LET scoped == Scoped(saved, kind, of)
           sites  == UNION {PlannedCalls(s.kind) : s \in StepsOf(scoped)}
       IN \E f \in [sites -> Responses] :
          LET over == [c \in CallSites |-> IF c \in sites THEN f[c] ELSE "enabled"]
          IN  /\ Accepted(scoped, kind, fixtures, over)
              /\ run' = [test |-> TRUE, kind |-> kind, of |-> of, fixtures |-> fixtures,
                         over |-> over, writes |-> w, payload |-> t, analyzed |-> saved]
    /\ phase' = "queued"
    /\ UNCHANGED <<saved, deployed, job, stage, at, outputs, cache, did, reads, emptied, edits>>

(* The worker resolves the definition again; what the test was about may   *)
(* be gone.                                                                *)
Start ==
    /\ phase = "queued"
    /\ IF run.of \in ScopeIds(saved, run.kind)
       THEN LET j == Scoped(saved, run.kind, run.of)
            IN  /\ job' = j
                /\ at' = Entering(j, 1)
                /\ \E v \in {"text", "data"} : cache' =
                      [k \in Keys |-> IF k \in run.fixtures
                                      THEN [value |-> v, by |-> "fixture"] ELSE Absent]
                /\ phase' = "running"
       ELSE phase' = "failed" /\ UNCHANGED <<job, at, cache>>
    /\ UNCHANGED <<inputs, stage, outputs, did, reads, emptied>>

---------------------------------------------------------------------------
(* One step.  Its inputs are resolved, its row is saved (an await), and    *)
(* the handler runs.                                                       *)

StepAt(p) == job[stage].pipes[p].steps[at[p].n]

Source(b) == CASE b.from = "step" -> outputs[b.of]
               [] b.from \in {"cache_key_ref", "cache_key"} -> cache[b.of]
               [] OTHER -> [value |-> run.payload, by |-> "trigger"]

(* resolve_binding                                                         *)
Resolved(b) == IF b.path THEN Within(Source(b).value) ELSE {Source(b).value}

Read(s, b) == IF b.from = "trigger" THEN {}
              ELSE {[by |-> s.id, from |-> b.from, of |-> b.of, of_whom |-> Source(b).by]}

(* Variants with one plausible mistake each, here and below; only the       *)
(* mutation runs use them.                                                  *)
TurnOfAny(p) == phase = "running" /\ p \in Pipes

Turn(p) ==
    /\ phase = "running"
    /\ p \in Pipes
    /\ job[stage].mode = "sequential" =>
          \A q \in Pipes : q < p => at[q].pc = "ok"

Begin(p) ==
    /\ Turn(p)
    /\ at[p].pc = "ready"
    /\ LET s == StepAt(p)
       IN  /\ \E v \in Resolved(s.in) :
                at' = [at EXCEPT ![p].pc = "handler", ![p].input = v]
           /\ reads' = reads \cup Read(s, s.in)
    /\ UNCHANGED <<inputs, phase, job, stage, outputs, cache, did, emptied>>

AdvancePastEnd(p) == at' = [at EXCEPT ![p] = [Fresh EXCEPT !.n = at[p].n + 1]]

Advance(p) ==
    at' = [at EXCEPT ![p] =
        IF at[p].n < Len(job[stage].pipes[p].steps) THEN [Fresh EXCEPT !.n = at[p].n + 1]
        ELSE [at[p] EXCEPT !.pc = "ok"]]

(* set_step_output; a cache_set handler has written the cache.             *)
SetOutput(s, out) == outputs' = [outputs EXCEPT ![s.id] = [value |-> out, by |-> s.id]]

Succeed(s, v, out) ==
    /\ IF LeavesOutput(s.kind) THEN SetOutput(s, out) ELSE UNCHANGED outputs
    /\ cache' = IF s.kind = "cache_set"
                THEN [cache EXCEPT ![s.key] = [value |-> v, by |-> s.id]] ELSE cache
    /\ UNCHANGED emptied

(* _handle_step_failure: the run goes on, with the template's default or   *)
(* without any output of the step.                                         *)
GoOn(s, v) ==
    /\ s.policy # "fail"
    /\ IF s.policy = "continue_with_default" /\ HasDefault(s.kind)
       THEN SetOutput(s, Default(s, v)) /\ UNCHANGED emptied
       ELSE UNCHANGED outputs /\ emptied' = emptied \cup {s.id}
    /\ UNCHANGED cache

Execute(p) ==
    /\ phase = "running"
    /\ p \in Pipes
    /\ at[p].pc = "handler"
    /\ LET s == StepAt(p)
           v == IF s.kind = "cache_get" THEN cache[s.key].value ELSE at[p].input
       IN \E o \in Handle(s, v, Env) :
          /\ did' = did \cup o.did
          /\ reads' = reads \cup
                (IF s.kind = "cache_get"
                 THEN {[by |-> s.id, from |-> "cache_get", of |-> s.key,
                        of_whom |-> cache[s.key].by]}
                 ELSE Read(s, s.late))
          /\ \/ o.ended = "ok" /\ Succeed(s, v, o.out) /\ Advance(p)
             \/ /\ o.ended = "failed" /\ s.policy = "fail"
                /\ at' = [at EXCEPT ![p].pc = "raised"]
                /\ UNCHANGED <<outputs, cache, emptied>>
             \/ o.ended = "failed" /\ GoOn(s, v) /\ Advance(p)
    /\ UNCHANGED <<inputs, phase, job, stage>>

---------------------------------------------------------------------------
(* A parallel stage waits for all its pipelines; a sequential one ends     *)
(* with the first that raises.                                             *)
CloseStage ==
    LET raised == {p \in Pipes : at[p].pc = "raised"}
    IN  /\ phase = "running"
        /\ stage \in DOMAIN job
        /\ \/ \A p \in Pipes : at[p].pc \in {"ok", "raised"}
           \/ job[stage].mode = "sequential" /\ raised # {}
        /\ IF raised # {} THEN phase' = "failed" /\ UNCHANGED <<stage, at>>
           ELSE /\ stage' = stage + 1
                /\ at' = Entering(job, stage + 1)
                /\ UNCHANGED phase
        /\ UNCHANGED <<inputs, job, outputs, cache, did, reads, emptied>>

(* The page, unless the test writes nothing.                               *)
Finish ==
    /\ phase = "running"
    /\ stage > Len(job)
    /\ IF run.writes /\ ~deployed.dry
       THEN /\ did' = did \cup {"notion.page"}
            /\ phase' \in {"done", "failed"}
       ELSE phase' = "done" /\ UNCHANGED did
    /\ UNCHANGED <<inputs, job, stage, at, outputs, cache, reads, emptied>>

Next ==
    \/ Edit \/ Fire \/ RunTest \/ Start \/ CloseStage \/ Finish
    \/ \E p \in Pipes : Begin(p) \/ Execute(p)

Spec == Init /\ [][Next]_vars

---------------------------------------------------------------------------
(* Properties *)

TypeOK ==
    /\ saved \in Jobs
    /\ deployed \in Deployments
    /\ run.over \in [CallSites -> Responses] /\ run.fixtures \subseteq Keys
    /\ phase \in {"idle", "queued", "running", "done", "failed"}
    /\ stage \in 1..(Len(job) + 1)
    /\ \A p \in Pipes :
          /\ at[p].pc \in {"ready", "handler", "ok", "raised"}
          /\ at[p].n \in DOMAIN job[stage].pipes[p].steps
          /\ at[p].input \in Values
    /\ \A x \in StepIds : outputs[x].value \in Values
    /\ \A k \in Keys : cache[k].value \in Values
    /\ did \subseteq Calls
    /\ emptied \subseteq StepIds
    /\ edits \in 0..MaxEdits

PlaceOf(x) == CHOOSE a \in Places(job) : StepIn(job, a).id = x

(* Steps that the run does not order.                                      *)
Race(x, y) ==
    LET a == PlaceOf(x)
        b == PlaceOf(y)
    IN  a[1] = b[1] /\ a[2] # b[2] /\ job[a[1]].mode = "parallel"

Writers(k) == {s.id : s \in {s \in StepsOf(job) : s.kind = "cache_set" /\ s.key = k}}

(* Who should have written the value a step reads, if no step that races   *)
(* with it writes it.                                                      *)
LastBefore(x, k) ==
    LET W == {y \in Writers(k) : Precedes(PlaceOf(y), PlaceOf(x))}
    IN  IF W # {} THEN CHOOSE y \in W : \A z \in W \ {y} : Precedes(PlaceOf(z), PlaceOf(y))
        ELSE IF k \in run.fixtures THEN "fixture" ELSE "nobody"

(* A read of the run cache (binding_resolver.py, cache_get.py) sees the    *)
(* last cache_set before it in the order of the definition, or else the    *)
(* fixture, whatever way the pipelines interleave, unless a pipeline that  *)
(* runs in parallel with the reader writes the key, or the writers race    *)
(* with each other.                                                        *)
CacheFollowsOrder ==
    \A r \in reads : r.from \in {"cache_key_ref", "cache_key", "cache_get"} =>
        LET W == Writers(r.of)
        IN  (\A y \in W : ~Race(r.by, y) /\ \A z \in W : ~Race(y, z)) =>
               r.of_whom = LastBefore(r.by, r.of)

(* Once the analysis accepted a live test (analyze.py), a step that the    *)
(* analysis looked at reads a step output or a cache key that is there, if *)
(* the worker still finds the definition that was analyzed.  Not so for    *)
(* two steps of parallel pipelines: the analysis takes them in the order   *)
(* of the definition, which the run does not keep.  And the analysis does  *)
(* not ask what a step leaves: one that ended before the reader may have   *)
(* left no output, by its template, or because it failed and its           *)
(* failure_policy let the run go on.                                       *)
AnalyzedReadsSatisfied ==
    run.test /\ job # <<>> /\ job = Scoped(run.analyzed, run.kind, run.of) =>
        \A r \in reads : r.from \in {"step", "cache_key_ref"} /\ r.of_whom = "nobody" =>
            \/ /\ r.from = "step"
               /\ \/ Race(r.by, r.of)
                  \/ r.of \in emptied
                  \/ ~LeavesOutput(StepIn(job, PlaceOf(r.of)).kind)
            \/ r.from = "cache_key_ref" /\ \E y \in Writers(r.of) : Race(r.by, y)

(* A live test makes no call that the editor disabled with a response      *)
(* (api_overrides.py) and, without allow_destination_writes, changes       *)
(* nothing at the destination, also when the definition was edited between *)
(* the analysis and the run.  Not so for the calls of the svg step, for a  *)
(* response that is None, and for a relation's response that is no dict:   *)
(* those are made.                                                         *)
TestsTouchOnlyWhatTheyMay ==
    run.test =>
        /\ ~run.writes => did \cap DestinationWrites = {}
        /\ \A c \in did \cap CallSites :
              \/ run.over[c] \in {"enabled", "null"}
              \/ c \in {"http.svg_fetch", "r2.put_object"}
              \/ c = "claude.ai_select_relation" /\ run.over[c] = "plain"
=============================================================================
