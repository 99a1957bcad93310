----------------------------- MODULE Resources -----------------------------
(***************************************************************************)
(* What the requests of an owner do to the tables of OwnerTables: the      *)
(* Notion connection (routes/notion_oauth.py, NotionOAuthService), targets *)
(* and their schemas, triggers and pipelines (routes/management.py), the   *)
(* starter definitions (postgres_seed_service.py) and the templates.       *)
(***************************************************************************)
EXTENDS OwnerTables

CONSTANTS NameOf,   \* what the name of a source says: "places", "locations" or "other"
          Bodies,   \* sequences of sources the owner may select, repeated ones too
          Graphs,   \* the jobs the editor may save
          Starts,   \* the tables when the requests begin
          MaxJobs   \* max_jobs_per_owner

ASSUME ResourcesAssumption ==
    /\ Sources \cap Bootstrap = {} /\ Placeholder \notin Sources
    /\ NameOf \in [Sources -> Bootstrap \cup {"other"}]
    /\ Bodies \subseteq Seq(Sources) /\ Graphs \subseteq Job
    /\ MaxJobs \in Nat \ {0}

(* The rows of an owner whose requests have ended: the connector is shown   *)
(* as connected exactly while there is a token.                             *)
ASSUME StartsAssumption == \A s \in Starts :
    /\ s.instance \in {"none", "pending", "connected", "revoked"}
    /\ s.credential \in {"none", "live", "revoked"}
    /\ (s.instance = "connected") = (s.credential = "live")
    /\ s.state \in {"none", "open", "used", "late"}
    /\ s.known \subseteq Sources
    /\ DOMAIN s.targets \subseteq Targets
    /\ \A t \in DOMAIN s.targets : s.targets[t] \in Sources \cup {Placeholder}
    /\ s.starter \in {"none", "active", "archived"}

---------------------------------------------------------------------------
(* The Notion connection *)

StartOAuth(r) ==
    /\ rq[r] = Idle
    /\ state' = [state EXCEPT ![r] = "open"]
    /\ rq' = [rq EXCEPT ![r] = [Idle EXCEPT !.op = "oauth", !.at = "done"]]
    /\ UNCHANGED <<instance, credential, known>> /\ OnlyConnection

(* expires_at passes.                                                      *)
Expire(s) ==
    /\ state[s] = "open"
    /\ state' = [state EXCEPT ![s] = "late"]
    /\ UNCHANGED <<instance, credential, known, rq>> /\ OnlyConnection

(* GET /auth/callback/notion: exchange_code_and_connect                    *)
Callback(r) ==
    \E s \in {x \in States : state[x] # "none"} :
        Begin(r, [Idle EXCEPT !.op = "callback", !.at = "state", !.old = s])

FindState(r) ==
    /\ Reach(r, "callback", "state")
    /\ IF state[rq[r].old] = "open" THEN Goto(r, "consume") ELSE Answer(r)
    /\ ReadOnly

(* The update, whatever the row says by now; then Notion exchanges the     *)
(* code, or not.                                                           *)
ConsumeState(r) ==
    /\ Reach(r, "callback", "consume")
    /\ state' = [state EXCEPT ![rq[r].old] = "used"]
    /\ (Goto(r, "credential") \/ Answer(r))
    /\ UNCHANGED <<instance, credential, known>> /\ OnlyConnection

(* The row refers to that of the connector; an upsert makes a credential   *)
(* that was revoked usable again.                                          *)
PutCredential == instance # "none" /\ credential' = "live"

UpsertCredential(r) ==
    /\ Reach(r, "callback", "credential")
    /\ \/ PutCredential /\ Goto(r, "instance")
       \/ instance = "none" /\ Answer(r) /\ UNCHANGED credential
    /\ UNCHANGED <<instance, state, known>> /\ OnlyConnection

ReadInstance(r) ==
    /\ rq[r].at = "instance"
    /\ IF rq[r].op = "disconnect"
       THEN IF instance = "none" THEN Answer(r) ELSE Goto(r, "revoke")
       ELSE Keep(r, [rq[r] EXCEPT !.saw = instance], "save")
    /\ ReadOnly

(* The whole row: as connected, as revoked or, after a refresh of the      *)
(* sources, as it was read.                                                *)
SaveInstance(r) ==
    LET q == rq[r] IN
    /\ q.at = "save"
    /\ q.op \in {"callback", "disconnect", "refresh"}
    /\ PutInstance(CASE q.op = "callback" -> "connected"
                     [] q.op = "disconnect" -> "revoked"
                     [] OTHER -> IF q.saw = "none" THEN instance ELSE q.saw)
    /\ Answer(r)
    /\ UNCHANGED <<credential, state, known>> /\ OnlyConnection

Disconnect(r) == Begin(r, [Idle EXCEPT !.op = "disconnect", !.at = "instance"])

(* Mutant: the token stays usable.                                         *)
RevokeNothing(r) ==
    /\ Reach(r, "disconnect", "revoke")
    /\ Goto(r, "save")
    /\ ReadOnly

RevokeCredential(r) ==
    /\ Reach(r, "disconnect", "revoke")
    /\ credential' = IF credential = "none" THEN "none" ELSE "revoked"
    /\ Goto(r, "save")
    /\ UNCHANGED <<instance, state, known>> /\ OnlyConnection

RefreshSources(r) == Begin(r, [Idle EXCEPT !.op = "refresh", !.at = "search"])

SearchSources(r) ==
    /\ Reach(r, "refresh", "search")
    /\ IF Token THEN Goto(r, "upsert") ELSE Answer(r)
    /\ ReadOnly

(* upsert_batch, row by row: an exception leaves the rows before it.       *)
PutSources == \E S \in SUBSET Sources : known' = known \cup S

UpsertSources(r) ==
    /\ Reach(r, "refresh", "upsert")
    /\ PutSources
    /\ (Goto(r, "instance") \/ Answer(r))
    /\ UNCHANGED <<instance, credential, state>> /\ OnlyConnection

---------------------------------------------------------------------------
(* POST .../data-sources/select: a target for each source, then the two    *)
(* bundled targets, by the names of the sources or else by their order.    *)

SelectSources(r) ==
    \E b \in Bodies : Begin(r, [Idle EXCEPT !.op = "select", !.at = "sources", !.todo = b])

FirstOf(b, N) == IF N = {} THEN Null ELSE b[Min(N)]

(* Of the sources the owner has, the first with the name of the bundled     *)
(* target, or else the first for the places and the second for the          *)
(* locations.                                                               *)
ForBundled(b, listed, name) ==
    LET named == {n \in listed : NameOf[b[n]] = name}
        later == {n \in listed : \E m \in listed : m < n}
    IN  FirstOf(b, IF named # {} THEN named ELSE IF name = "places" THEN listed ELSE later)

ListSources(r) ==
    LET b      == rq[r].todo
        listed == {n \in DOMAIN b : b[n] \in known}
    IN  /\ Reach(r, "select", "sources")
        /\ Keep(r, [rq[r] EXCEPT !.todo =
                        [n \in DOMAIN b |-> <<b[n], IF n \in listed THEN b[n] ELSE Null>>]
                        \o <<<<"places", ForBundled(b, listed, "places")>>,
                             <<"locations", ForBundled(b, listed, "locations")>>>>],
                "pick")
        /\ ReadOnly

(* What has no source is passed over, and a target of its own that is there *)
(* already is left alone.                                                   *)
PickSource(r) ==
    LET q == rq[r] IN
    /\ Reach(r, "select", "pick")
    /\ IF q.todo = <<>> THEN Answer(r)
       ELSE LET t == q.todo[1][1]
                s == q.todo[1][2]
            IN  IF s = Null \/ (t \in Sources /\ Exists(target, t))
                THEN Keep(r, [q EXCEPT !.todo = Tail(q.todo)], "pick")
                ELSE Keep(r, [q EXCEPT !.todo = Tail(q.todo), !.t = t, !.src = s], "save")
    /\ ReadOnly

(* The new row has no schema, whatever the old one had.                    *)
SaveSelected(r) ==
    LET q == rq[r] IN
    /\ Reach(r, "select", "save")
    /\ PutTarget(q.t, [source |-> q.src, schema |-> Null])
    /\ Sync(r, [q EXCEPT !.src = Null], q.t, "pick")
    /\ UNCHANGED snap /\ OnlySchemas

(* POST /management/data-targets/{id}/schema/refresh                       *)
RefreshSchema(r) ==
    \E t \in Targets : Begin(r, [Idle EXCEPT !.op = "schema", !.at = "sync", !.t = t])

---------------------------------------------------------------------------
(* Rows that several requests make.                                        *)

Starter(op) == op \in {"fire", "reprovision"}
PathOf(op) == CASE Starter(op) -> "/locations"
                [] op = "template" -> "/hello-world"
                [] OTHER -> "/places"
IdOf(r) == IF Starter(rq[r].op) THEN "starter" ELSE r
NameFor(op) == IF Starter(op) THEN "starter" ELSE IF op = "create" THEN "plain" ELSE op

AfterJob(op) == CASE Starter(op) -> "mint"
                  [] op = "places" -> "trigger"
                  [] OTHER -> "links"
AfterTrigger(op) == IF op = "template" THEN "job" ELSE "links"

(* save_job_graph: an upsert, so an archived starter job comes back.       *)
SaveJob(r) ==
    LET q == rq[r] IN
    /\ q.at = "job"
    /\ job' = [job EXCEPT ![IdOf(r)] = [name |-> NameFor(q.op), active |-> TRUE,
                   target |-> IF Starter(q.op) THEN "places" ELSE q.t]]
    /\ Keep(r, [q EXCEPT !.job = IdOf(r)], AfterJob(q.op))
    /\ UNCHANGED <<trigger, links, limited>> /\ OnlyPipelines

FindTrigger(r) ==
    LET found == OfPath(PathOf(rq[r].op)) IN
    /\ rq[r].at = "trigger"
    /\ rq[r].op \in {"template", "places"}
    /\ IF found = {} THEN Goto(r, "mint")
       ELSE \E x \in found : Keep(r, [rq[r] EXCEPT !.trig = x], AfterTrigger(rq[r].op))
    /\ ReadOnly

(* The starter's id is fixed, and its row is replaced.                     *)
MintTrigger(r) ==
    LET q == rq[r]
        row == [path |-> PathOf(q.op), secret |-> r]
    IN  /\ q.at = "mint"
        /\ \/ PutTrigger(IdOf(r), row)
              /\ Keep(r, [q EXCEPT !.trig = IdOf(r)], AfterTrigger(q.op))
           \/ TriggerRefused(IdOf(r), row) /\ Answer(r)
        /\ UNCHANGED <<job, links, limited>> /\ OnlyPipelines

(* attach: validate_one_trigger_per_job_attach, then the upsert.           *)
ListLinks(r) ==
    /\ rq[r].at = "links"
    /\ IF {l \in links : l[2] = rq[r].job} \subseteq {<<rq[r].trig, rq[r].job>>}
       THEN Goto(r, "link") ELSE Answer(r)
    /\ ReadOnly

LinkTrigger(r) ==
    LET q == rq[r] IN
    /\ q.at = "link"
    /\ IF Exists(trigger, q.trig) /\ Exists(job, q.job)
       THEN links' = links \cup {<<q.trig, q.job>>} /\ Answer(r)
       ELSE Answer(r) /\ UNCHANGED links
    /\ UNCHANGED <<trigger, job, limited>> /\ OnlyPipelines

(* Mutant: the links do not go with the trigger.                           *)
DeleteTriggerRowOnly(x) ==
    /\ trigger' = [trigger EXCEPT ![x] = Null]
    /\ UNCHANGED links

DeleteTriggerRow(x) ==
    /\ trigger' = [trigger EXCEPT ![x] = Null]
    /\ links' = {l \in links : l[1] # x}

---------------------------------------------------------------------------
(* The starter definitions: ensured when a trigger of the owner is         *)
(* invoked, and provisioned afresh when the owner asks for it.             *)

Fire(r) == Begin(r, [Idle EXCEPT !.op = "fire", !.at = "limits"])

ReadLimits(r) ==
    /\ Reach(r, "fire", "limits")
    /\ Goto(r, IF limited THEN "starter" ELSE "seed")
    /\ ReadOnly

SeedLimits(r) ==
    /\ Reach(r, "fire", "seed")
    /\ limited' \in {limited, TRUE}   \* there may be no defaults, or the save fails
    /\ Goto(r, "starter")
    /\ UNCHANGED <<trigger, job, links>> /\ OnlyPipelines

Reprovision(r) == Begin(r, [Idle EXCEPT !.op = "reprovision", !.at = "starter"])

FindStarter(r) ==
    LET found == OfPath("/locations") IN
    /\ rq[r].at = "starter"
    /\ IF rq[r].op = "fire"
       THEN IF found = {} THEN Goto(r, "provision") ELSE Answer(r)
       ELSE IF found = {} THEN Goto(r, "starterjob")
            ELSE \E x \in found : Keep(r, [rq[r] EXCEPT !.trig = x], "droptrigger")
    /\ ReadOnly

DropStarterTrigger(r) ==
    /\ Reach(r, "reprovision", "droptrigger")
    /\ DeleteTriggerRow(rq[r].trig)
    /\ Goto(r, "starterjob")
    /\ UNCHANGED <<job, limited>> /\ OnlyPipelines

FindStarterJob(r) ==
    /\ Reach(r, "reprovision", "starterjob")
    /\ Goto(r, IF "starter" \in ActiveJobs THEN "dropjob" ELSE "provision")
    /\ ReadOnly

(* Mutant: what was dropped is left to the next invocation to ensure.      *)
DropStarterJobOnly(r) ==
    /\ Reach(r, "reprovision", "dropjob")
    /\ job' = [job EXCEPT !["starter"] = Null]
    /\ links' = {l \in links : l[2] # "starter"}
    /\ Answer(r)
    /\ UNCHANGED <<trigger, limited>> /\ OnlyPipelines

DropStarterJob(r) ==
    /\ Reach(r, "reprovision", "dropjob")
    /\ job' = [job EXCEPT !["starter"] = Null]
    /\ links' = {l \in links : l[2] # "starter"}
    /\ Goto(r, "provision")
    /\ UNCHANGED <<trigger, limited>> /\ OnlyPipelines

ProvisionConnector(r) ==
    LET q == [rq[r] EXCEPT !.todo = <<"places", "locations">>] IN
    /\ rq[r].at = "provision"
    /\ Keep(r, q, IF instance = "none" THEN "newconnector" ELSE "bundled")
    /\ ReadOnly

NewConnector(r) ==
    /\ rq[r].at = "newconnector"
    /\ PutInstance("pending")
    /\ Goto(r, "bundled")
    /\ UNCHANGED <<credential, state, known>> /\ OnlyConnection

ProvisionTarget(r) ==
    LET q == rq[r] IN
    /\ q.at = "bundled"
    /\ IF q.todo = <<>> THEN Goto(r, "job")
       ELSE IF Exists(target, q.todo[1]) THEN Keep(r, [q EXCEPT !.todo = Tail(q.todo)], "bundled")
       ELSE Goto(r, "newbundled")
    /\ ReadOnly

NewBundledTarget(r) ==
    LET q == rq[r] IN
    /\ q.at = "newbundled"
    /\ PutTarget(q.todo[1], [source |-> Placeholder, schema |-> Null])
    /\ Keep(r, [q EXCEPT !.todo = Tail(q.todo)], "bundled")
    /\ UNCHANGED snap /\ OnlySchemas

---------------------------------------------------------------------------
(* POST /management/bootstrap/create-from-template and                     *)
(* /create-places-insertion-from-template                                  *)

FromTemplate(r) ==
    \E op \in {"template", "places"} : Begin(r, [Idle EXCEPT !.op = op, !.at = "jobs"])

FindTemplateJob(r) ==
    LET q == rq[r] IN
    /\ q.at = "jobs"
    /\ IF \E x \in ActiveJobs : job[x].name = q.op THEN Answer(r) ELSE Goto(r, "notion")
    /\ ReadOnly

(* The template looks for its database in the workspace.                   *)
NeedToken(r) ==
    LET q == rq[r] IN
    /\ q.at = "notion"
    /\ IF ~Token THEN Answer(r)
       ELSE IF q.op = "places" THEN Keep(r, [q EXCEPT !.t = "places"], "target")
       ELSE (\E s \in Sources : Keep(r, [q EXCEPT !.t = s], "target")) \/ Answer(r)
    /\ ReadOnly

AfterSync(op) == IF op = "places" THEN "job" ELSE "trigger"

FindTarget(r) ==
    LET q == rq[r] IN
    /\ q.at = "target"
    /\ q.op \in {"template", "places"}
    /\ IF Exists(target, q.t) THEN Sync(r, q, q.t, AfterSync(q.op))
       ELSE IF q.op = "places" THEN Answer(r) ELSE Goto(r, "newtarget")
    /\ ReadOnly

NewTarget(r) ==
    LET q == rq[r] IN
    /\ q.at = "newtarget"
    /\ PutTarget(q.t, [source |-> q.t, schema |-> Null])
    /\ Sync(r, q, q.t, AfterSync(q.op))
    /\ UNCHANGED snap /\ OnlySchemas

---------------------------------------------------------------------------
(* Pipelines *)

CreatePipeline(r) ==
    \E x \in Minted, t \in Bootstrap :
        Begin(r, [Idle EXCEPT !.op = "create", !.at = "trigger", !.trig = x, !.t = t])

CheckTrigger(r) ==
    /\ Reach(r, "create", "trigger")
    /\ IF Exists(trigger, rq[r].trig) THEN Goto(r, "target") ELSE Answer(r)
    /\ ReadOnly

CheckTarget(r) ==
    /\ Reach(r, "create", "target")
    /\ IF Exists(target, rq[r].t) THEN Goto(r, "count") ELSE Answer(r)
    /\ ReadOnly

(* Mutant: one more than the limit.                                        *)
CheckLimitLate(r) ==
    /\ Reach(r, "create", "count")
    /\ IF Cardinality(ActiveJobs) > MaxJobs THEN Answer(r) ELSE Goto(r, "job")
    /\ ReadOnly

CheckLimit(r) ==
    /\ Reach(r, "create", "count")
    /\ IF Cardinality(ActiveJobs) >= MaxJobs THEN Answer(r) ELSE Goto(r, "job")
    /\ ReadOnly

(* PUT /management/pipelines/{id}: a pipeline there is, or a new one.  The  *)
(* row of the job is the first that is written; its target must be there.   *)
SavePipeline(r) ==
    \E x \in {r} \cup {y \in Minted : Exists(job, y)} :
        Begin(r, [Idle EXCEPT !.op = "put", !.at = "graph", !.job = x])

SaveGraph(r) ==
    /\ Reach(r, "put", "graph")
    /\ \/ \E row \in Graphs :
              Exists(target, row.target) /\ job' = [job EXCEPT ![rq[r].job] = row]
       \/ UNCHANGED job
    /\ Answer(r)
    /\ UNCHANGED <<trigger, links, limited>> /\ OnlyPipelines

(* DELETE archives a pipeline; PATCH .../status makes it active or          *)
(* disabled, which is both not archived.  Each updates the row that it      *)
(* found to be there, whatever its status is by now.                        *)
ChangePipeline(r) ==
    \E x \in Minted, op \in {"archive", "status"} :
        Begin(r, [Idle EXCEPT !.op = op, !.at = "find", !.job = x])

FindJob(r) ==
    /\ rq[r].at = "find"
    /\ IF rq[r].job \in ActiveJobs THEN Goto(r, "update") ELSE Answer(r)
    /\ ReadOnly

UpdateJob(r) ==
    LET x == rq[r].job IN
    /\ rq[r].at = "update"
    /\ job' = IF Exists(job, x) THEN [job EXCEPT ![x].active = (rq[r].op = "status")] ELSE job
    /\ Answer(r)
    /\ UNCHANGED <<trigger, links, limited>> /\ OnlyPipelines

---------------------------------------------------------------------------
(* Triggers.  POST /management/triggers makes none: the number of triggers *)
(* is taken of a coroutine, and the answer is a 500 (or a 409 before).     *)

CreateTrigger(r) ==
    /\ rq[r] = Idle
    /\ rq' = [rq EXCEPT ![r] = [Idle EXCEPT !.op = "trigger", !.at = "done"]]
    /\ ReadOnly

EditTrigger(r) ==
    \E x \in Minted, op \in {"patch", "rotate", "remove"} :
        Begin(r, [Idle EXCEPT !.op = op, !.at = "read", !.trig = x])

ReadTrigger(r) ==
    LET q == rq[r] IN
    /\ q.at = "read"
    /\ q.op \in {"patch", "rotate", "remove"}
    /\ IF Exists(trigger, q.trig) THEN Keep(r, [q EXCEPT !.trow = trigger[q.trig]], "write")
       ELSE Answer(r)
    /\ ReadOnly

(* An edit upserts the row as it read it, also when it was deleted since.  *)
SaveTrigger(r) ==
    LET q == rq[r]
        row == IF q.op = "rotate" THEN [q.trow EXCEPT !.secret = r] ELSE q.trow
    IN  /\ q.at = "write"
        /\ q.op \in {"patch", "rotate"}
        /\ (PutTrigger(q.trig, row) \/ TriggerRefused(q.trig, row))
        /\ Answer(r)
        /\ UNCHANGED <<job, links, limited>> /\ OnlyPipelines

RemoveTrigger(r) ==
    /\ Reach(r, "remove", "write")
    /\ DeleteTriggerRow(rq[r].trig)
    /\ Answer(r)
    /\ UNCHANGED <<job, limited>> /\ OnlyPipelines

---------------------------------------------------------------------------

(* A target that points at a source was synced; a starter job may have     *)
(* been archived since it was provisioned.                                 *)
Init ==
    /\ \E s \in Starts :
          LET synced == {t \in DOMAIN s.targets : s.targets[t] \in Sources}
              starter == {x \in {"starter"} : s.starter # "none"}
          IN  /\ instance = s.instance /\ credential = s.credential
              /\ state = [x \in States |-> IF x = "earlier" THEN s.state ELSE "none"]
              /\ known = s.known
              /\ target = [t \in Targets |-> IF t \notin DOMAIN s.targets THEN Null
                    ELSE [source |-> s.targets[t],
                          schema |-> IF t \in synced THEN <<t, "earlier">> ELSE Null]]
              /\ snap = [x \in Snaps |-> IF x \notin synced \X {"earlier"} THEN Null
                    ELSE [source |-> s.targets[x[1]], by |-> "token", active |-> TRUE]]
              /\ trigger = [x \in Minted |-> IF x \notin starter THEN Null
                    ELSE [path |-> "/locations", secret |-> "starter"]]
              /\ job = [x \in Minted |-> IF x \notin starter THEN Null
                    ELSE [name |-> "starter", target |-> "places",
                          active |-> s.starter = "active"]]
              /\ links = starter \X starter
              /\ limited = (starter # {})
    /\ rq = [r \in Requests |-> Idle]
    /\ met = [r \in Requests |-> {}]
    /\ faults = 0

Arrive(r) ==
    \/ StartOAuth(r) \/ Callback(r) \/ Disconnect(r) \/ RefreshSources(r)
    \/ SelectSources(r) \/ RefreshSchema(r) \/ Fire(r) \/ Reprovision(r)
    \/ FromTemplate(r) \/ CreatePipeline(r) \/ SavePipeline(r) \/ ChangePipeline(r)
    \/ CreateTrigger(r) \/ EditTrigger(r)

Handle(r) ==
    \/ FindState(r) \/ ConsumeState(r) \/ UpsertCredential(r) \/ ReadInstance(r)
    \/ SaveInstance(r) \/ RevokeCredential(r) \/ SearchSources(r) \/ UpsertSources(r)
    \/ ListSources(r) \/ PickSource(r) \/ SaveSelected(r) \/ SaveJob(r)
    \/ FindTrigger(r) \/ MintTrigger(r) \/ ListLinks(r) \/ LinkTrigger(r)
    \/ ReadLimits(r) \/ SeedLimits(r) \/ FindStarter(r) \/ DropStarterTrigger(r)
    \/ FindStarterJob(r) \/ DropStarterJob(r) \/ ProvisionConnector(r) \/ NewConnector(r)
    \/ ProvisionTarget(r) \/ NewBundledTarget(r) \/ FindTemplateJob(r) \/ NeedToken(r)
    \/ FindTarget(r) \/ NewTarget(r) \/ CheckTrigger(r) \/ CheckTarget(r) \/ CheckLimit(r)
    \/ SaveGraph(r) \/ FindJob(r) \/ UpdateJob(r) \/ ReadTrigger(r) \/ SaveTrigger(r) \/ RemoveTrigger(r)

Next == \/ \E r \in Requests : Arrive(r) \/ Handle(r) \/ SchemaSync(r) \/ Fault(r)
        \/ \E s \in States : Expire(s)

Spec == Init /\ [][Next]_ownerVars

---------------------------------------------------------------------------
(* Properties *)

TypeOK ==
    /\ instance \in {"none", "pending", "connected", "revoked"}
    /\ credential \in {"none", "live", "revoked"}
    /\ state \in [States -> {"none", "open", "used", "late"}]
    /\ known \subseteq Sources
    /\ target \in [Targets -> Or(Target)]
    /\ snap \in [Snaps -> Or(Snapshot)]
    /\ trigger \in [Minted -> Or(Trigger)]
    /\ job \in [Minted -> Or(Job)]
    /\ links \subseteq {l \in Minted \X Minted : Exists(trigger, l[1]) /\ Exists(job, l[2])}
    /\ limited \in BOOLEAN
    /\ faults \in 0..MaxFaults

(* A target's schema is that of the data source it points at, whatever     *)
(* selections and syncs of the same target overlap or fail half way,       *)
(* because both write the whole row (schema_sync_service.py,               *)
(* select_data_sources).  A schema fetched by name is the exception: it is *)
(* that of whatever database has the target's name.                        *)
SchemaOfItsSource ==
    \A t \in Targets : Exists(target, t) =>
        LET x == target[t].schema
        IN  x # Null /\ snap[x].by = "token" => snap[x].source = target[t].source

Busy(ops) == \E r \in Open : rq[r].op \in ops
MetBy(ops, others) == \E r \in Requests : rq[r].op \in ops /\ \E x \in met[r] : rq[x].op \in others

(* However the provisionings of the starter definitions overlap, with each *)
(* other and with the owner's edits, a starter trigger that is left behind *)
(* is linked to the starter job: the existence of the trigger is what      *)
(* ensure_owner_starter_definitions takes for a provisioned owner.  Not so *)
(* after a call that failed, or an edit that brought back a trigger which  *)
(* was deleted meanwhile.                                                  *)
StarterLinked ==
    Exists(trigger, "starter") =>
        \/ <<"starter", "starter">> \in links
        \/ Busy({"fire", "reprovision"})
        \/ faults > 0
        \/ MetBy({"patch", "rotate"}, {"remove", "reprovision"})

(* The connection the owner is shown as connected is one with a token, and *)
(* the other way round, once its requests have ended (NotionOAuthService). *)
(* Not so after a call that failed, nor when a disconnect overlapped a     *)
(* callback or a refresh of the sources, or a callback the first           *)
(* provisioning of the connector (which takes three requests).             *)
ConnectionAgrees ==
    (instance = "connected") = (credential = "live")
        \/ Busy({"callback", "disconnect"})
        \/ faults > 0
        \/ MetBy({"disconnect"}, {"callback", "refresh"})
        \/ MetBy({"callback"}, {"fire", "reprovision", "refresh"})

(* The creations that overlapped another one.                              *)
Together == {r \in Requests : /\ rq[r].op = "create"
                              /\ \E x \in met[r] : rq[x].op = "create"}

(* The limit on pipelines (create_pipeline counts, then inserts) is passed  *)
(* by no more than the creations that overlapped each other, less one: a    *)
(* creation by itself never passes it, whatever is archived in between.     *)
(* Not so for the requests that are not counted: the starter, the templates *)
(* and PUT, and a change of status that overlapped the archiving of the     *)
(* pipeline, and so brought it back.                                        *)
LimitKept ==
    \/ Cardinality(ActiveJobs) <=
          MaxJobs + (IF Together = {} THEN 0 ELSE Cardinality(Together) - 1)
    \/ \E r \in Requests : rq[r].op \in {"fire", "reprovision", "template", "places", "put"}
    \/ MetBy({"status"}, {"archive"})
=============================================================================
