--------------------------- MODULE TriggerDispatch ---------------------------
(***************************************************************************)
(* How runs come into being (app/routes/locations.py: invoke_trigger, and  *)
(* app/routes/management.py: enqueue_pipeline_live_test_run): one HTTP     *)
(* request fans out over the jobs linked to its trigger and, for each,     *)
(* inserts a job_runs row under the owner's run quota and sends a queue    *)
(* message.  The state is that of one owner; the quota's advisory lock and *)
(* all counts are per owner.                                               *)
(*                                                                         *)
(* Every await at which another request, an edit of the pipelines, or the  *)
(* clock can come in between ends an action.                               *)
(***************************************************************************)
EXTENDS Integers, FiniteSets

CONSTANTS Requests,      (* requests that invoke the trigger                     *)
          LiveTests,     (* live-test requests of the editor                     *)
          Jobs,          (* the job definitions linked to the trigger            *)
          NoJob,         (* the job of a request between two jobs                *)
          CapChoices,    (* the day and month caps app_limits may hold           *)
          NoCaps,        (* the owner has no app_limits row                      *)
          GlobalCaps,    (* the platform's app_limits row at the start            *)
          NewUserCaps,   (* app_limits_new_user_defaults                         *)
          DaysPerMonth,
          MaxDay,        (* bound: the clock stops at this day                   *)
          MaxEdits,      (* bound: edits of pipelines and of limits              *)
          MaxFaults      (* bound: failed calls and API restarts                 *)

ASSUME NamesAssumption ==
    Requests \cap LiveTests = {} /\ NoJob \notin Jobs /\ NoCaps \notin CapChoices
ASSUME FiniteAssumption ==
    IsFiniteSet(Requests) /\ IsFiniteSet(LiveTests) /\ IsFiniteSet(Jobs)
ASSUME CapsAssumption ==
    /\ CapChoices \subseteq [day: Nat \ {0}, month: Nat \ {0}]
    /\ {GlobalCaps, NewUserCaps} \subseteq CapChoices
ASSUME BoundsAssumption ==
    DaysPerMonth \in Nat \ {0} /\ MaxDay \in Nat \ {0} /\ MaxEdits \in Nat /\ MaxFaults \in Nat

VARIABLES today,     \* the current UTC day
          limits,    \* the two app_limits rows: the platform's and the owner's
          jobs,      \* job_definitions.status
          trigger,   \* whether the trigger still exists; its links go with it
          row,       \* job_runs: the day each run was inserted on, 0 if it was not
          queue,     \* the runs for which a message was sent
          req,       \* the state of each request's handler
          edits, faults

vars == <<today, limits, jobs, trigger, row, queue, req, edits, faults>>

Callers == Requests \cup LiveTests
Runs == Callers \X Jobs           \* each request draws a fresh run_id per job

Caps == [day: Nat \ {0}, month: Nat \ {0}]
Step == {"start", "seed", "plant", "find", "list", "next", "call", "commit", "send", "done"}
Reply == {"none", "200", "4xx", "429", "500", "503", "lost"}
Cause == {"none", "quota", "call"}

Handler == [pc: Step, caps: Caps \cup {NoCaps}, todo: SUBSET Jobs, job: Jobs \cup {NoJob},
            day: 0..MaxDay, accepted: SUBSET Jobs, reply: Reply, cause: Cause]

-----------------------------------------------------------------------------
(* The quota *)

Least(a, b) == IF a < b THEN a ELSE b

MonthOf(d) == (d - 1) \div DaysPerMonth

DayCount(d) == Cardinality({x \in Runs : row[x] = d})
MonthCount(d) == Cardinality({x \in Runs : row[x] # 0 /\ MonthOf(row[x]) = MonthOf(d)})

(* Variants with one plausible mistake each, here and below; only the       *)
(* mutation runs use them.                                                  *)
EffectiveCapsLeft ==
    [day   |-> limits.global.day - DayCount(today),
     month |-> limits.global.month]
WithinQuotaOffByOne(caps, d) == DayCount(d) <= caps.day /\ MonthCount(d) + 1 <= caps.month
WithinQuotaEarly(caps, d)    == DayCount(d) + 1 < caps.day /\ MonthCount(d) + 1 <= caps.month

(* resolve_effective_app_limits: min(global, coalesce(user, global)). *)
EffectiveCaps ==
    IF limits.user = NoCaps THEN limits.global
    ELSE [day   |-> Least(limits.global.day, limits.user.day),
          month |-> Least(limits.global.month, limits.user.month)]

(* Both windows count every row of the owner, live tests included. *)
WithinQuota(caps, d) == DayCount(d) + 1 <= caps.day /\ MonthCount(d) + 1 <= caps.month

(* The refusal travels as text.  PL/pgSQL's RAISE replaces each % of        *)
(* 'RUN_QUOTA_EXCEEDED|day|%s|%s' and leaves the s behind it, so a number n *)
(* arrives as "<n>s"; int() of that raises ValueError.                      *)
RaisedField(n) == [number |-> n, suffix |-> "s"]
IntParses(field) == field.suffix = ""

QuotaReply(caps, d) ==
    IF IntParses(RaisedField(caps.day)) /\ IntParses(RaisedField(DayCount(d)))
      THEN "429" ELSE "503"

-----------------------------------------------------------------------------
Init ==
    /\ today = 1
    /\ limits = [global |-> GlobalCaps, user |-> NoCaps]
    /\ jobs = [j \in Jobs |-> "active"]
    /\ trigger = "present"
    /\ row = [x \in Runs |-> 0]
    /\ queue = {}
    /\ req = [q \in Callers |->
                [pc |-> "start", caps |-> NoCaps, todo |-> {}, job |-> NoJob, day |-> 0,
                 accepted |-> {}, reply |-> "none", cause |-> "none"]]
    /\ edits = 0
    /\ faults = 0

Become(q, h) == req' = [req EXCEPT ![q] = h]

Answer(h, reply) ==
    [h EXCEPT !.pc = "done", !.reply = reply, !.todo = {}, !.job = NoJob]

Fault == faults < MaxFaults /\ faults' = faults + 1
Edit  == edits < MaxEdits /\ edits' = edits + 1

Dispatchable == {j \in Jobs : trigger = "present" /\ jobs[j] = "active"}

(* resolve_for_run: an archived job, or a trigger that is gone, gives None. *)
Resolves(j) == jobs[j] # "archived" /\ trigger = "present"

-----------------------------------------------------------------------------
(* invoke_trigger *)

(* get_by_owner reads the caps this request will be held to. *)
ReadLimits(q) ==
    /\ q \in Requests /\ req[q].pc = "start"
    /\ Become(q, [req[q] EXCEPT !.caps = EffectiveCaps, !.pc = "seed"])
    /\ UNCHANGED <<today, limits, jobs, trigger, row, queue, edits, faults>>

(* ensure_owner_starter_definitions: an owner without a row gets one; when  *)
(* a call raises, the request goes on without.                              *)
SeedOwner(q) ==
    /\ req[q].pc = "seed"
    /\ \/ /\ Become(q, [req[q] EXCEPT !.pc = IF limits.user = NoCaps THEN "plant" ELSE "find"])
          /\ UNCHANGED faults
       \/ Fault /\ Become(q, [req[q] EXCEPT !.pc = "find"])
    /\ UNCHANGED <<today, limits, jobs, trigger, row, queue, edits>>

(* The defaults, saved over whatever row has appeared meanwhile. *)
PlantCaps(q) ==
    /\ req[q].pc = "plant"
    /\ \/ limits' = [limits EXCEPT !.user = NewUserCaps] /\ UNCHANGED faults
       \/ Fault /\ UNCHANGED limits
    /\ Become(q, [req[q] EXCEPT !.pc = "find"])
    /\ UNCHANGED <<today, jobs, trigger, row, queue, edits>>

(* The trigger by path, its secret and the body against its schema. *)
FindTrigger(q) ==
    /\ req[q].pc = "find"
    /\ IF trigger # "present" THEN Become(q, Answer(req[q], "503"))
       ELSE \/ Become(q, [req[q] EXCEPT !.pc = "list"])
            \/ Become(q, Answer(req[q], "4xx"))
    /\ UNCHANGED <<today, limits, jobs, trigger, row, queue, edits, faults>>

ListJobs(q) ==
    /\ req[q].pc = "list"
    /\ Become(q, IF Dispatchable = {} THEN Answer(req[q], "4xx")
                 ELSE [req[q] EXCEPT !.todo = Dispatchable, !.pc = "next"])
    /\ UNCHANGED <<today, limits, jobs, trigger, row, queue, edits, faults>>

NextJobOnce(q, j) ==
    LET h == [req[q] EXCEPT !.todo = {}]
    IN  /\ req[q].pc = "next" /\ j \in req[q].todo
        /\ Become(q, IF Resolves(j) THEN [h EXCEPT !.job = j, !.pc = "call"] ELSE h)
        /\ UNCHANGED <<today, limits, jobs, trigger, row, queue, edits, faults>>

(* The next job of the fan-out, in the order of the link rows, which no     *)
(* ORDER BY fixes.  A job that does not resolve is skipped.                 *)
NextJob(q, j) ==
    LET h == [req[q] EXCEPT !.todo = @ \ {j}]
    IN  /\ req[q].pc = "next" /\ j \in req[q].todo
        /\ Become(q, IF Resolves(j) THEN [h EXCEPT !.job = j, !.pc = "call"] ELSE h)
        /\ UNCHANGED <<today, limits, jobs, trigger, row, queue, edits, faults>>

(* resolve_for_run raises, outside the try block. *)
ResolveFails(q) ==
    /\ req[q].pc = "next" /\ req[q].todo # {}
    /\ Fault
    /\ Become(q, Answer(req[q], "500"))
    /\ UNCHANGED <<today, limits, jobs, trigger, row, queue, edits>>

(* enqueue_job_run_with_quota_check: the transaction's now() is the day on  *)
(* which it begins (day, 0 outside the transaction); the advisory lock may  *)
(* make it wait past midnight.                                              *)
CallQuota(q) ==
    /\ req[q].pc = "call"
    /\ Become(q, [req[q] EXCEPT !.day = today, !.pc = "commit"])
    /\ UNCHANGED <<today, limits, jobs, trigger, row, queue, edits, faults>>

(* A triggered run is held to the caps the request read; a live test's      *)
(* insert is a plain upsert of one statement.                               *)
Admitted(q) == q \in Requests => WithinQuota(req[q].caps, req[q].day)
CreatedAt(q) == IF q \in Requests THEN req[q].day ELSE today

InsertRow(q) ==
    LET h == req[q]
    IN  /\ h.pc = "commit"
        /\ IF Admitted(q)
             THEN /\ row' = [row EXCEPT ![<<q, h.job>>] = CreatedAt(q)]
                  /\ Become(q, [h EXCEPT !.pc = "send", !.day = 0])
             ELSE /\ UNCHANGED row
                  /\ Become(q, [Answer(h, QuotaReply(h.caps, h.day)) EXCEPT !.cause = "quota"])
        /\ UNCHANGED <<today, limits, jobs, trigger, queue, edits, faults>>

(* The call raises; the row may have been committed before the reply was    *)
(* lost.                                                                    *)
InsertFails(q) ==
    LET h == req[q]
    IN  /\ h.pc = "commit"
        /\ Fault
        /\ \/ UNCHANGED row
           \/ /\ Admitted(q)
              /\ row' = [row EXCEPT ![<<q, h.job>>] = CreatedAt(q)]
        /\ Become(q, [Answer(h, "503") EXCEPT !.cause = "call", !.day = 0])
        /\ UNCHANGED <<today, limits, jobs, trigger, queue, edits>>

Send(q) ==
    LET h == req[q]
    IN  /\ h.pc = "send"
        /\ queue' = queue \cup {<<q, h.job>>}
        /\ Become(q, IF q \in LiveTests
                       THEN [Answer(h, "200") EXCEPT !.accepted = {h.job}]
                       ELSE [h EXCEPT !.accepted = @ \cup {h.job}, !.job = NoJob, !.pc = "next"])
        /\ UNCHANGED <<today, limits, jobs, trigger, row, edits, faults>>

SendFailsSwallowed(q) ==
    /\ req[q].pc = "send" /\ q \in Requests
    /\ Fault
    /\ Become(q, [req[q] EXCEPT !.job = NoJob, !.pc = "next"])
    /\ UNCHANGED <<today, limits, jobs, trigger, row, queue, edits>>

(* pgmq_send raises, before or after it took effect.  Nothing removes the   *)
(* row again.                                                               *)
SendFails(q) ==
    LET h == req[q]
    IN  /\ h.pc = "send"
        /\ Fault
        /\ \/ UNCHANGED queue
           \/ queue' = queue \cup {<<q, h.job>>}
        /\ Become(q, [Answer(h, "503") EXCEPT !.cause = "call"])
        /\ UNCHANGED <<today, limits, jobs, trigger, row, edits>>

FanOutEnds(q) ==
    /\ req[q].pc = "next" /\ req[q].todo = {}
    /\ Become(q, Answer(req[q], IF req[q].accepted = {} THEN "503" ELSE "200"))
    /\ UNCHANGED <<today, limits, jobs, trigger, row, queue, edits, faults>>

-----------------------------------------------------------------------------
(* enqueue_pipeline_live_test_run: one job, no quota; create_job upserts    *)
(* the row.                                                                 *)
ResolveLiveTest(q, j) ==
    /\ q \in LiveTests /\ req[q].pc = "start"
    /\ \/ Resolves(j) /\ Become(q, [req[q] EXCEPT !.job = j, !.pc = "commit"])
       \/ Become(q, Answer(req[q], "4xx"))
    /\ UNCHANGED <<today, limits, jobs, trigger, row, queue, edits, faults>>

-----------------------------------------------------------------------------
(* Around the requests *)

(* The API process stops under a request. *)
ApiRestart(q) ==
    /\ req[q].pc \notin {"start", "done"}
    /\ Fault
    /\ Become(q, Answer(req[q], "lost"))
    /\ UNCHANGED <<today, limits, jobs, trigger, row, queue, edits>>

Midnight ==
    /\ today < MaxDay
    /\ today' = today + 1
    /\ UNCHANGED <<limits, jobs, trigger, row, queue, req, edits, faults>>

(* An operator changes the platform's or the owner's app_limits row. *)
LimitsChange(caps) ==
    /\ Edit
    /\ \/ limits' = [limits EXCEPT !.global = caps]
       \/ limits' = [limits EXCEPT !.user = caps]
    /\ UNCHANGED <<today, jobs, trigger, row, queue, req, faults>>

(* patch_pipeline_status and delete_pipeline; an archived job is 404. *)
JobChanges(j, status) ==
    /\ jobs[j] \notin {"archived", status}
    /\ Edit
    /\ jobs' = [jobs EXCEPT ![j] = status]
    /\ UNCHANGED <<today, limits, trigger, row, queue, req, faults>>

DeleteTrigger ==
    /\ trigger = "present"
    /\ Edit
    /\ trigger' = "deleted"
    /\ UNCHANGED <<today, limits, jobs, row, queue, req, faults>>

-----------------------------------------------------------------------------
Proceed(q) ==
    \/ ReadLimits(q) \/ SeedOwner(q) \/ PlantCaps(q) \/ FindTrigger(q) \/ ListJobs(q)
    \/ ResolveFails(q) \/ CallQuota(q) \/ InsertRow(q) \/ InsertFails(q)
    \/ Send(q) \/ SendFails(q) \/ FanOutEnds(q)
    \/ \E j \in Jobs : NextJob(q, j) \/ ResolveLiveTest(q, j)

Next ==
    \/ \E q \in Callers : Proceed(q) \/ ApiRestart(q)
    \/ Midnight
    \/ \E caps \in CapChoices : LimitsChange(caps)
    \/ \E j \in Jobs, status \in {"active", "disabled", "archived"} : JobChanges(j, status)
    \/ DeleteTrigger

Spec == Init /\ [][Next]_vars

-----------------------------------------------------------------------------
(* Properties *)

TypeOK ==
    /\ today \in 1..MaxDay
    /\ limits \in [global: CapChoices, user: CapChoices \cup {NoCaps}]
    /\ jobs \in [Jobs -> {"active", "disabled", "archived"}]
    /\ trigger \in {"present", "deleted"}
    /\ row \in [Runs -> 0..MaxDay]
    /\ queue \subseteq Runs
    /\ req \in [Callers -> Handler]
    /\ edits \in 0..MaxEdits /\ faults \in 0..MaxFaults

HasRow(q, d) == \E j \in Jobs : row[<<q, j>>] = d

Production(d) == {x \in Requests \X Jobs : row[x] = d}
ProductionInMonth(m) == {x \in Requests \X Jobs : row[x] # 0 /\ MonthOf(row[x]) = m}

(* However many requests count and insert at once, whatever the clock and   *)
(* the limits do meanwhile, the triggered runs of a day, and of a month,    *)
(* never exceed the cap held by one of the requests that inserted them      *)
(* (the RPC counts and inserts under the owner's advisory lock).            *)
QuotaHolds ==
    /\ \A d \in 1..MaxDay : Production(d) # {} =>
          \E q \in Requests : HasRow(q, d) /\ Cardinality(Production(d)) <= req[q].caps.day
    /\ \A m \in 0..MonthOf(MaxDay) : ProductionInMonth(m) # {} =>
          \E q \in Requests, d \in 1..MaxDay :
              /\ MonthOf(d) = m /\ HasRow(q, d)
              /\ Cardinality(ProductionInMonth(m)) <= req[q].caps.month

(* The reply tells what happened.  A refusal for quota is never spurious:   *)
(* the window it names is full, and stays so, no row being removed          *)
(* (RUN_QUOTA_EXCEEDED).  A 200 names exactly the runs that were inserted   *)
(* and sent for it, and nothing else of the request is left in either       *)
(* store.                                                                   *)
RepliesAreTrue ==
    /\ \A q \in Requests : req[q].cause = "quota" =>
          \/ DayCount(req[q].day) >= req[q].caps.day
          \/ MonthCount(req[q].day) >= req[q].caps.month
    /\ \A q \in Callers : req[q].reply = "200" =>
          /\ req[q].accepted # {}
          /\ \A j \in Jobs : /\ j \in req[q].accepted <=> <<q, j>> \in queue
                             /\ j \in req[q].accepted <=> row[<<q, j>>] # 0

(* No message without its row, which the worker reads first; and a row      *)
(* without a message belongs to a request that is about to send it, or that *)
(* a failed call or a restart ended (the row is inserted before the send    *)
(* and never taken back).                                                   *)
RowsAndMessages ==
    \A q \in Callers, j \in Jobs :
        /\ <<q, j>> \in queue => row[<<q, j>>] # 0
        /\ row[<<q, j>>] # 0 /\ <<q, j>> \notin queue =>
              \/ req[q].pc = "send" /\ req[q].job = j
              \/ req[q].reply = "lost"
              \/ req[q].reply = "503" /\ req[q].cause = "call"

(* The fan-out reaches every dispatchable job: without an edit during the   *)
(* request, a 200 accounts for each of them.                                *)
FanOutComplete ==
    \A q \in Requests : req[q].reply = "200" /\ edits = 0 => req[q].accepted = Dispatchable

(* Claimed: a run quota that is exhausted is answered with 429.             *)
QuotaRefusalIs429 ==
    \A q \in Requests : req[q].cause = "quota" => req[q].reply = "429"

(* Claimed: live tests do not consume the owner's production run quota: a   *)
(* request is refused only when triggered runs alone fill a window.         *)
LiveTestsAreFree ==
    \A q \in Requests : req[q].cause = "quota" =>
        \/ Cardinality(Production(req[q].day)) >= req[q].caps.day
        \/ Cardinality(ProductionInMonth(MonthOf(req[q].day))) >= req[q].caps.month
=============================================================================
