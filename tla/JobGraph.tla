------------------------------ MODULE JobGraph ------------------------------
(***************************************************************************)
(* The definition of one job in PostgreSQL and the requests on it: the     *)
(* editor saves a whole graph (PostgresJobRepository.save_job_graph), the  *)
(* job is archived or switched on and off, and the graph is read back      *)
(* level by level for a run or for the editor (get_graph_by_id).  No       *)
(* transaction encloses the statements of a request, so each of them is an *)
(* action of its own, and PostgreSQL checks the unique sequences of each   *)
(* single statement.                                                       *)
(***************************************************************************)
EXTENDS Integers, Sequences, FiniteSets

CONSTANTS Stages, Pipelines, Steps,   \* ids
          Terminal,      \* the steps whose template is cache_set or property_set
          Payloads,      \* the bodies editors send, see Payload
          Editors, Readers, Null,
          MaxPerLevel,   \* max_stages_per_job and its two siblings
          TempBase,      \* _STEP_SEQUENCE_TEMP_BASE
          MaxRequests,   \* bound: requests that write
          MaxFaults      \* bound: statements that raise

Seqs == 0..2 * TempBase

(* A body as parse_job_graph returns it: three flat lists in the order of   *)
(* the body, each row naming its parent.  Ids may be repeated.              *)
Payload == [stages : Seq([id : Stages, seq : Seqs]),
            pipes : Seq([id : Pipelines, stage : Stages, seq : Seqs]),
            steps : Seq([id : Steps, pipe : Pipelines, seq : Seqs, reads : SUBSET Steps])]

Ids(rows) == {rows[i].id : i \in DOMAIN rows}

(* The lists come of one nested body: the parent of a row is in it.         *)
Nested(g) ==
    /\ \A i \in DOMAIN g.pipes : g.pipes[i].stage \in Ids(g.stages)
    /\ \A i \in DOMAIN g.steps : g.steps[i].pipe \in Ids(g.pipes)

ASSUME PayloadAssumption ==
    /\ Payloads \subseteq Payload /\ Null \notin Payloads
    /\ \A g \in Payloads : Nested(g)
ASSUME BaseAssumption ==
    TempBase \in Nat /\ \A g \in Payloads : Len(g.steps) < TempBase
ASSUME BoundAssumption == MaxRequests \in Nat /\ MaxFaults \in Nat

StageRecord == [seq : Seqs]
PipeRecord == [stage : Stages, seq : Seqs]
RowRecord == [pipe : Pipelines, seq : Seqs, reads : SUBSET Steps]
ASSUME NullAssumption == Null \notin StageRecord \cup PipeRecord \cup RowRecord

VARIABLES job,        \* status in job_definitions, "none" without a row
          stageRow, pipeRow, stepRow,
          editor,     \* the request of each editor
          reader,     \* the graph each reader is loading
          requests, faults,
          settled,    \* history: the payload the tables hold, if nothing interfered
          halfway     \* history: payloads of which some statements ran, not all

tables == <<job, stageRow, pipeRow, stepRow>>
history == <<settled, halfway>>
vars == <<tables, editor, reader, requests, faults, history>>

Present(table) == {x \in DOMAIN table : table[x] # Null}

-----------------------------------------------------------------------------
(* validate_job_graph                                                      *)

StepsAt(g, p) == {i \in DOMAIN g.steps : g.steps[i].pipe = p}
PipesAt(g, s) == {i \in DOMAIN g.pipes : g.pipes[i].stage = s}
StepsIn(g, p) == {g.steps[i] : i \in StepsAt(g, p)}

UniqueSeqs(rows, at) == \A i, j \in at : rows[i].seq = rows[j].seq => i = j

(* The i-th step of a pipeline, by sequence.                               *)
NthStep(g, p, i) ==
    CHOOSE s \in StepsIn(g, p) :
        Cardinality({t \in StepsIn(g, p) : t.seq < s.seq}) = i - 1

LastStep(g, p) == NthStep(g, p, Cardinality(StepsIn(g, p)))

(* Mutant: a step may read its own output.                                 *)
BindingsResolveSelf(g) ==
    \A i \in DOMAIN g.steps : \A r \in g.steps[i].reads :
        \E t \in StepsIn(g, g.steps[i].pipe) : t.id = r

(* A signal_ref names a step that precedes this one in its pipeline, each   *)
(* by the first of its id.                                                  *)
BindingsResolve(g) ==
    \A i \in DOMAIN g.steps : \A r \in g.steps[i].reads :
        \E t \in StepsIn(g, g.steps[i].pipe) :
            /\ t.id = r
            /\ \A u \in StepsIn(g, t.pipe) : u.id = g.steps[i].id => t.seq < u.seq

WithinLimits(g) ==
    /\ Len(g.stages) <= MaxPerLevel
    /\ \A s \in Ids(g.stages) : Cardinality(PipesAt(g, s)) <= MaxPerLevel
    /\ \A p \in Ids(g.pipes) : Cardinality(StepsAt(g, p)) <= MaxPerLevel

(* Ids are not compared, but a pipeline's id stands in one stage only.      *)
Valid(g) ==
    /\ g.stages # <<>>
    /\ UniqueSeqs(g.stages, DOMAIN g.stages)
    /\ \A s \in Ids(g.stages) : PipesAt(g, s) # {} /\ UniqueSeqs(g.pipes, PipesAt(g, s))
    /\ \A i, j \in DOMAIN g.pipes :
          g.pipes[i].id = g.pipes[j].id => g.pipes[i].stage = g.pipes[j].stage
    /\ \A p \in Ids(g.pipes) : /\ StepsAt(g, p) # {} /\ UniqueSeqs(g.steps, StepsAt(g, p))
                               /\ LastStep(g, p).id \in Terminal
    /\ BindingsResolve(g)
    /\ WithinLimits(g)

-----------------------------------------------------------------------------
(* Requests that write.                                                    *)

NoRequest == [pc |-> "idle", g |-> Null, i |-> 1, j |-> 1, to |-> "none",
              alone |-> TRUE, outcome |-> "none"]

Saving(e) == editor[e].pc \notin {"idle", "patch"}
Overlapping(e) == {f \in Editors : Saving(f)} \ {e}

(* Two saves under way know of each other; readers and the history lose    *)
(* what they relied on.                                                    *)
StartSave(e, g) ==
    /\ editor[e].pc = "idle" /\ requests < MaxRequests
    /\ requests' = requests + 1
    /\ IF Valid(g)
       THEN /\ editor' = [f \in Editors |->
                  IF f = e THEN [NoRequest EXCEPT !.pc = "job", !.g = g,
                      !.alone = Overlapping(e) = {}]
                  ELSE [editor[f] EXCEPT !.alone = @ /\ ~Saving(f)]]
            /\ reader' = [r \in Readers |-> [reader[r] EXCEPT !.base = Null]]
            /\ settled' = Null
       ELSE /\ editor' = [editor EXCEPT ![e] = [NoRequest EXCEPT !.outcome = "invalid"]]
            /\ UNCHANGED <<reader, settled>>
    /\ UNCHANGED <<tables, faults, halfway>>

(* The request ends early: what was written stays.                         *)
Fail(e, outcome) ==
    /\ editor' = [editor EXCEPT ![e].pc = "idle", ![e].outcome = outcome]
    /\ halfway' = halfway \cup {editor[e].g}
    /\ UNCHANGED <<tables, settled>>

(* One upsert on (id, owner): it replaces the row of this id, and raises    *)
(* when another row of the same parent has the sequence.                    *)
Clash(table, id, row) ==
    \E x \in Present(table) \ {id} :
        \A col \in DOMAIN row \ {"reads"} : table[x][col] = row[col]

Continue(e, next) ==
    /\ editor' = [editor EXCEPT ![e] = next]
    /\ UNCHANGED history

WriteJob(e) ==
    /\ editor[e].pc = "job"
    /\ job' = "active"
    /\ Continue(e, [editor[e] EXCEPT !.pc = "stage"])
    /\ UNCHANGED <<stageRow, pipeRow, stepRow, reader, requests, faults>>

WriteStage(e) ==
    LET rq == editor[e]
        s == rq.g.stages[rq.i]
        row == [seq |-> s.seq]
    IN  /\ rq.pc = "stage"
        /\ IF Clash(stageRow, s.id, row) THEN Fail(e, "stage conflict")
           ELSE /\ stageRow' = [stageRow EXCEPT ![s.id] = row]
                /\ Continue(e, IF rq.i < Len(rq.g.stages) THEN [rq EXCEPT !.i = @ + 1]
                               ELSE [rq EXCEPT !.pc = "pipeline", !.i = 1])
                /\ UNCHANGED <<job, pipeRow, stepRow>>
        /\ UNCHANGED <<reader, requests, faults>>

WritePipeline(e) ==
    LET rq == editor[e]
        p == rq.g.pipes[rq.i]
        row == [stage |-> p.stage, seq |-> p.seq]
    IN  /\ rq.pc = "pipeline"
        /\ IF Clash(pipeRow, p.id, row) THEN Fail(e, "pipeline conflict")
           ELSE /\ pipeRow' = [pipeRow EXCEPT ![p.id] = row]
                /\ Continue(e, [rq EXCEPT !.pc = "purge"])
                /\ UNCHANGED <<job, stageRow, stepRow>>
        /\ UNCHANGED <<reader, requests, faults>>

(* Mutant: the rows of removed steps are not deleted.                      *)
KeepOrphans(e) ==
    LET rq == editor[e] IN
    /\ rq.pc = "purge"
    /\ Continue(e, [rq EXCEPT !.pc = "band", !.j = 1])
    /\ UNCHANGED <<tables, reader, requests, faults>>

DeleteOrphans(e) ==
    LET rq == editor[e]
        p == rq.g.pipes[rq.i].id
        wanted == {s.id : s \in StepsIn(rq.g, p)}
    IN  /\ rq.pc = "purge"
        /\ stepRow' = [x \in Steps |->
              IF x \in Present(stepRow) \ wanted /\ stepRow[x].pipe = p THEN Null
              ELSE stepRow[x]]
        /\ Continue(e, [rq EXCEPT !.pc = "band", !.j = 1])
        /\ UNCHANGED <<job, stageRow, pipeRow, reader, requests, faults>>

(* Mutant: one pipeline too many.                                          *)
AfterStepPastEnd(rq) ==
    LET p == rq.g.pipes[rq.i].id IN
    IF rq.j < Cardinality(StepsIn(rq.g, p)) THEN [rq EXCEPT !.j = @ + 1]
    ELSE IF rq.pc = "band" THEN [rq EXCEPT !.pc = "final", !.j = 1]
    ELSE [rq EXCEPT !.pc = "pipeline", !.i = @ + 1]

(* Where the last step of a pipeline leads: the next phase, the next       *)
(* pipeline, or the end of a save.                                         *)
AfterStep(rq) ==
    LET p == rq.g.pipes[rq.i].id IN
    IF rq.j < Cardinality(StepsIn(rq.g, p)) THEN [rq EXCEPT !.j = @ + 1]
    ELSE IF rq.pc = "band" THEN [rq EXCEPT !.pc = "final", !.j = 1]
    ELSE IF rq.i < Len(rq.g.pipes) THEN [rq EXCEPT !.pc = "pipeline", !.i = @ + 1]
    ELSE [rq EXCEPT !.pc = "idle", !.outcome = "saved"]

(* Mutant: the steps get their final numbers in both phases.               *)
OnePhaseSequence(rq) == rq.j

(* The number a step gets: in a band of its own first, then from 1.        *)
StepSequence(rq) == IF rq.pc = "band" THEN TempBase + rq.j - 1 ELSE rq.j

WriteStep(e) ==
    LET rq == editor[e]
        p == rq.g.pipes[rq.i].id
        s == NthStep(rq.g, p, rq.j)
        row == [pipe |-> p, seq |-> StepSequence(rq), reads |-> s.reads]
        next == AfterStep(rq)
    IN  /\ rq.pc \in {"band", "final"}
        /\ IF Clash(stepRow, s.id, row) THEN Fail(e, "step conflict")
           ELSE /\ stepRow' = [stepRow EXCEPT ![s.id] = row]
                /\ editor' = [editor EXCEPT ![e] = next]
                /\ settled' = IF next.outcome = "saved" /\ next.alone THEN rq.g ELSE settled
                /\ halfway' = IF next.outcome = "saved" /\ ~next.alone
                              THEN halfway \cup {rq.g} ELSE halfway
                /\ UNCHANGED <<job, stageRow, pipeRow>>
        /\ UNCHANGED <<reader, requests, faults>>

(* A statement raises, or the process stops.                               *)
StatementRaises(e) ==
    /\ Saving(e) /\ faults < MaxFaults
    /\ faults' = faults + 1
    /\ Fail(e, "error")
    /\ UNCHANGED <<reader, requests>>

(* DELETE: the job is archived, its rows stay.                             *)
Archive ==
    /\ job \in {"active", "disabled"} /\ requests < MaxRequests
    /\ job' = "archived"
    /\ requests' = requests + 1
    /\ UNCHANGED <<stageRow, pipeRow, stepRow, editor, reader, faults, history>>

(* PATCH status: the graph is read, then the status written.               *)
StartPatch(e, status) ==
    /\ editor[e].pc = "idle" /\ requests < MaxRequests
    /\ job \in {"active", "disabled"}
    /\ editor' = [editor EXCEPT ![e] = [NoRequest EXCEPT !.pc = "patch", !.to = status]]
    /\ requests' = requests + 1
    /\ UNCHANGED <<tables, reader, faults, history>>

WriteStatus(e) ==
    /\ editor[e].pc = "patch"
    /\ job' = editor[e].to
    /\ editor' = [editor EXCEPT ![e] = [NoRequest EXCEPT !.outcome = "saved"]]
    /\ UNCHANGED <<stageRow, pipeRow, stepRow, reader, requests, faults, history>>

-----------------------------------------------------------------------------
(* get_graph_by_id                                                         *)

NoRead == [pc |-> "idle", todo |-> <<>>, got |-> <<>>, base |-> Null]

(* The rows of a query, ORDER BY sequence: the n-th has n - 1 before it, for *)
(* no two children of one parent have the same sequence.                    *)
InSequence(ids, table) ==
    [n \in 1..Cardinality(ids) |->
        CHOOSE x \in ids : Cardinality({y \in ids : table[y].seq < table[x].seq}) = n - 1]

(* The job row; an archived job is not found.                              *)
ReadJob(r) ==
    /\ reader[r].pc = "idle"
    /\ job \in {"active", "disabled"}
    /\ reader' = [reader EXCEPT ![r] = [NoRead EXCEPT !.pc = "stages", !.base = settled]]
    /\ UNCHANGED <<tables, editor, requests, faults, history>>

(* One query for the stages; then for each stage its pipelines, and for     *)
(* each of those its steps, before the next stage.                          *)
ReadStages(r) ==
    /\ reader[r].pc = "stages"
    /\ reader' = [reader EXCEPT ![r].pc = "level",
           ![r].todo = [i \in 1..Cardinality(Present(stageRow)) |->
                           <<"stage", InSequence(Present(stageRow), stageRow)[i]>>]]
    /\ UNCHANGED <<tables, editor, requests, faults, history>>

ReadPipelines(r) ==
    LET s == Head(reader[r].todo)[2]
        found == InSequence({p \in Present(pipeRow) : pipeRow[p].stage = s}, pipeRow)
    IN  /\ reader[r].pc = "level" /\ reader[r].todo # <<>>
        /\ Head(reader[r].todo)[1] = "stage"
        /\ reader' = [reader EXCEPT ![r].todo =
               [i \in DOMAIN found |-> <<"pipeline", found[i], s>>] \o Tail(@)]
        /\ UNCHANGED <<tables, editor, requests, faults, history>>

ReadSteps(r) ==
    LET p == Head(reader[r].todo)[2]
        found == InSequence({x \in Present(stepRow) : stepRow[x].pipe = p}, stepRow)
    IN  /\ reader[r].pc = "level" /\ reader[r].todo # <<>>
        /\ Head(reader[r].todo)[1] = "pipeline"
        /\ reader' = [reader EXCEPT ![r].todo = Tail(@),
               ![r].got = Append(@, [pipe |-> p, stage |-> Head(reader[r].todo)[3],
                   steps |-> [i \in DOMAIN found |->
                                 [id |-> found[i], reads |-> stepRow[found[i]].reads]]])]
        /\ UNCHANGED <<tables, editor, requests, faults, history>>

(* The snapshot of resolve_for_run, or the payload for the editor.         *)
Resolved(r) ==
    /\ reader[r].pc = "level" /\ reader[r].todo = <<>>
    /\ reader' = [reader EXCEPT ![r].pc = "resolved"]
    /\ UNCHANGED <<tables, editor, requests, faults, history>>

Forget(r) ==
    /\ reader[r].pc = "resolved"
    /\ reader' = [reader EXCEPT ![r] = NoRead]
    /\ UNCHANGED <<tables, editor, requests, faults, history>>

-----------------------------------------------------------------------------
Init ==
    /\ job = "none"
    /\ stageRow = [s \in Stages |-> Null]
    /\ pipeRow = [p \in Pipelines |-> Null]
    /\ stepRow = [x \in Steps |-> Null]
    /\ editor = [e \in Editors |-> NoRequest]
    /\ reader = [r \in Readers |-> NoRead]
    /\ requests = 0 /\ faults = 0
    /\ settled = Null /\ halfway = {}

Save(e) == \/ WriteJob(e) \/ WriteStage(e) \/ WritePipeline(e)
           \/ DeleteOrphans(e) \/ WriteStep(e) \/ StatementRaises(e)

Read(r) == \/ ReadJob(r) \/ ReadStages(r) \/ ReadPipelines(r)
           \/ ReadSteps(r) \/ Resolved(r) \/ Forget(r)

Next ==
    \/ \E e \in Editors : \/ \E g \in Payloads : StartSave(e, g)
                          \/ Save(e)
                          \/ \E st \in {"active", "disabled"} : StartPatch(e, st)
                          \/ WriteStatus(e)
    \/ \E r \in Readers : Read(r)
    \/ Archive

Spec == Init /\ [][Next]_vars

-----------------------------------------------------------------------------
(* Properties.                                                             *)

TypeOK ==
    /\ job \in {"none", "active", "disabled", "archived"}
    /\ stageRow \in [Stages -> StageRecord \cup {Null}]
    /\ pipeRow \in [Pipelines -> PipeRecord \cup {Null}]
    /\ stepRow \in [Steps -> RowRecord \cup {Null}]
    /\ \A e \in Editors :
          /\ editor[e].pc \in {"idle", "job", "stage", "pipeline", "purge", "band",
                               "final", "patch"}
          /\ editor[e].g \in Payloads \cup {Null}
          /\ Saving(e) => /\ editor[e].g # Null
                          /\ editor[e].i \in 1..Len(editor[e].g.stages)
                                           \cup 1..Len(editor[e].g.pipes)
    /\ \A r \in Readers : reader[r].pc \in {"idle", "stages", "level", "resolved"}
    /\ settled \in Payloads \cup {Null} /\ halfway \subseteq Payloads
    /\ requests \in 0..MaxRequests /\ faults \in 0..MaxFaults

Differ(rows) == \A i, j \in DOMAIN rows : rows[i].id = rows[j].id => i = j
IdsDiffer(g) == Differ(g.stages) /\ Differ(g.pipes) /\ Differ(g.steps)

GotAt(got, p) == {k \in DOMAIN got : got[k].pipe = p.id}

SeqOfStage(g, p) ==
    (CHOOSE s \in {g.stages[i] : i \in DOMAIN g.stages} : s.id = p.stage).seq

StepsAsSaved(g, p, steps) ==
    /\ Len(steps) = Cardinality(StepsIn(g, p))
    /\ \A n \in DOMAIN steps :
          /\ steps[n].id = NthStep(g, p, n).id
          /\ steps[n].reads \subseteq {steps[m].id : m \in 1..(n - 1)}

PipeAsSaved(g, got, p) ==
    /\ Cardinality(GotAt(got, p)) = 1
    /\ \A k \in GotAt(got, p) :
          /\ got[k].stage = p.stage
          /\ StepsAsSaved(g, p.id, got[k].steps)
          /\ \A j \in DOMAIN g.pipes : \A l \in GotAt(got, g.pipes[j]) :
                \/ SeqOfStage(g, p) < SeqOfStage(g, g.pipes[j])
                \/ p.stage = g.pipes[j].stage /\ p.seq < g.pipes[j].seq
                => k < l

(* What was saved is what runs: a graph read while no save is under way,    *)
(* after a save that nobody overlapped, has every pipeline of that save     *)
(* once, in its stage, the stages and pipelines in their order, with        *)
(* exactly its steps in their order, whatever rows earlier saves (finished, *)
(* abandoned or overlapping) had left; and so no step reads one that comes  *)
(* after it (save_job_graph, get_graph_by_id, validate_job_graph).  A body  *)
(* that gives one id to two rows overwrites the first with the second.      *)
SavedIsRead ==
    \A r \in Readers :
        LET g == reader[r].base
        IN  reader[r].pc = "resolved" /\ g # Null /\ IdsDiffer(g) =>
              \A i \in DOMAIN g.pipes : PipeAsSaved(g, reader[r].got, g.pipes[i])

(* Steps can be reordered, inserted, removed and moved: a save never fails  *)
(* on the sequence of a step unless another save overlapped it, or the save *)
(* of another graph had been abandoned before; repeating a save that failed *)
(* halfway works (the two phases and the deletion before them).             *)
StepsNeverCollide ==
    \A e \in Editors :
        editor[e].outcome = "step conflict" /\ editor[e].alone =>
            ~ halfway \subseteq {editor[e].g}
=============================================================================
