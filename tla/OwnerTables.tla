---------------------------- MODULE OwnerTables ----------------------------
(***************************************************************************)
(* The tables of one owner (connector_instances, connector_credentials,    *)
(* oauth_connection_states, connector_external_sources, data_targets,      *)
(* target_schema_snapshots, trigger_definitions, job_definitions,          *)
(* trigger_job_links and app_limits), the requests that work on them, and  *)
(* the schema sync that several of them share.  A request is a sequence of *)
(* awaited calls; calls of other requests fall between any two of them.    *)
(* The levels below a job are in JobGraph.                                 *)
(***************************************************************************)
EXTENDS Naturals, FiniteSets, SequencesExt

CONSTANTS Requests,    \* handler executions, each serves one HTTP request; bounds them
          Sources,     \* data sources of the owner's Notion workspace
          Null,
          MaxFaults    \* bound: calls that raise

Bootstrap == {"places", "locations"}
Placeholder == "placeholder"      \* the data source of the bundled targets
Targets == Sources \cup Bootstrap \* a selected source has a target of its own
Minted == Requests \cup {"starter"}  \* ids: fresh ones are named after their request
States == Requests \cup {"earlier"}
Paths == {"/locations", "/hello-world", "/places"}
Snaps == Targets \X States        \* a request syncs a target at most once

Or(S) == S \cup {Null}

Target == [source : Sources \cup {Placeholder}, schema : Or(Snaps)]
Snapshot == [source : Sources, by : {"token", "name"}, active : BOOLEAN]
Trigger == [path : Paths, secret : Minted]
Job == [name : {"starter", "template", "places", "plain"}, target : Targets, active : BOOLEAN]

ASSUME OwnerAssumption ==
    /\ IsFiniteSet(Requests) /\ Requests # {}
    /\ "starter" \notin Requests /\ "earlier" \notin Requests
    /\ Null \notin Targets \cup Minted \cup Snaps
    /\ Null \notin Target /\ Null \notin Snapshot /\ Null \notin Trigger /\ Null \notin Job
    /\ MaxFaults \in Nat

VARIABLES instance,   \* auth_status of the Notion connector: "none" is no row
          credential, \* "none", "live" or "revoked"
          state,      \* OAuth states: "none", "open", "used" or "late"
          known,      \* external sources
          target, snap, trigger, job,   \* the tables, by id
          links,      \* trigger_job_links
          limited,    \* the owner has a row in app_limits
          rq,         \* the requests
          met,        \* history: the requests that were open together with this one
          faults      \* calls that have raised so far

connection == <<instance, credential, state, known>>
schemas == <<target, snap>>
pipelines == <<trigger, job, links, limited>>
ownerVars == <<connection, schemas, pipelines, rq, met, faults>>

Idle == [op |-> "none", at |-> "idle", back |-> "idle", todo |-> <<>>, t |-> Null,
         row |-> Null, old |-> Null, src |-> Null, by |-> "token", trig |-> Null,
         trow |-> Null, job |-> Null, saw |-> "none"]

Exists(table, x) == table[x] # Null

Token == credential = "live"

OfPath(p) == {x \in Minted : Exists(trigger, x) /\ trigger[x].path = p}

ActiveJobs == {x \in Minted : Exists(job, x) /\ job[x].active}

ActiveOf(t) == {x \in Snaps : x[1] = t /\ Exists(snap, x) /\ snap[x].active}

(* save: every repository writes the whole row, and inserts it where the    *)
(* row that was read is gone by now.                                        *)
PutInstance(status) == instance' = status
PutTarget(t, row) == target' = [target EXCEPT ![t] = row]
PutSnapshot(x, row) == snap' = [snap EXCEPT ![x] = row]
PutTrigger(x, row) ==
    /\ OfPath(row.path) \subseteq {x}
    /\ trigger' = [trigger EXCEPT ![x] = row]

(* The upsert conflicts on the id alone: a row of another id with the path  *)
(* makes it raise.                                                          *)
TriggerRefused(x, row) ==
    /\ ~ (OfPath(row.path) \subseteq {x})
    /\ UNCHANGED trigger

---------------------------------------------------------------------------
(* Requests *)

Open == {r \in Requests : rq[r].at \notin {"idle", "done"}}

Begin(r, q) ==
    /\ rq[r] = Idle
    /\ rq' = [rq EXCEPT ![r] = q]
    /\ met' = [x \in Requests |-> IF x = r THEN Open
                                  ELSE IF x \in Open THEN met[x] \cup {r} ELSE met[x]]
    /\ UNCHANGED <<connection, schemas, pipelines, faults>>

Reach(r, op, at) == rq[r].op = op /\ rq[r].at = at

Goto(r, at) == rq' = [rq EXCEPT ![r].at = at]
Keep(r, q, at) == rq' = [rq EXCEPT ![r] = [q EXCEPT !.at = at]]

(* What the answer says is left out.                                       *)
Answer(r) == rq' = [rq EXCEPT ![r] = [Idle EXCEPT !.op = rq[r].op, !.at = "done"]]

(* A step that only reads, and one that writes to some tables.             *)
ReadOnly == UNCHANGED <<connection, schemas, pipelines, met, faults>>
OnlyConnection == UNCHANGED <<schemas, pipelines, met, faults>>
OnlySchemas == UNCHANGED <<connection, pipelines, met, faults>>
OnlyPipelines == UNCHANGED <<connection, schemas, met, faults>>

---------------------------------------------------------------------------
(* SchemaSyncService.sync_for_target: of target rq[r].t; where the caller  *)
(* swallows the errors of a sync it goes on at rq[r].back either way.      *)

Syncing(r) == rq[r].at \in {"sync", "connector", "token", "fetch", "list", "deactivate",
                            "insert", "attach"}

Sync(r, q, t, back) == Keep(r, [q EXCEPT !.t = t, !.back = back], "sync")

SyncEnds(r) ==
    IF rq[r].op = "schema" THEN Answer(r)
    ELSE Keep(r, [rq[r] EXCEPT !.row = Null, !.old = Null, !.src = Null, !.by = "token"],
              rq[r].back)

SyncTarget(r) ==
    LET q == rq[r] IN
    /\ q.at = "sync"
    /\ IF Exists(target, q.t) THEN Keep(r, [q EXCEPT !.row = target[q.t]], "connector")
       ELSE SyncEnds(r)
    /\ ReadOnly

(* Without the owner's token, the service's own looks the database up by   *)
(* the name of the target.                                                 *)
FetchByName(r) ==
    \/ \E s \in Sources : Keep(r, [rq[r] EXCEPT !.src = s, !.by = "name"], "list")
    \/ SyncEnds(r)

SyncConnector(r) ==
    /\ rq[r].at = "connector"
    /\ CASE instance = "none"      -> SyncEnds(r)
         [] instance = "connected" -> Goto(r, "token")
         [] OTHER                  -> FetchByName(r)
    /\ ReadOnly

SyncToken(r) ==
    /\ rq[r].at = "token"
    /\ IF Token THEN Goto(r, "fetch") ELSE FetchByName(r)
    /\ ReadOnly

SyncFetch(r) ==
    LET s == rq[r].row.source IN
    /\ rq[r].at = "fetch"
    /\ \/ Token /\ s \in Sources /\ Keep(r, [rq[r] EXCEPT !.src = s], "list")
       \/ SyncEnds(r)
    /\ ReadOnly

(* The first active snapshot of the target that the query returns.         *)
SyncList(r) ==
    LET active == ActiveOf(rq[r].t)
    IN  /\ rq[r].at = "list"
        /\ IF active = {} THEN Goto(r, "insert")
           ELSE \E x \in active : Keep(r, [rq[r] EXCEPT !.old = x], "deactivate")
        /\ ReadOnly

SyncDeactivate(r) ==
    /\ rq[r].at = "deactivate"
    /\ PutSnapshot(rq[r].old, [snap[rq[r].old] EXCEPT !.active = FALSE])
    /\ Goto(r, "insert")
    /\ UNCHANGED target /\ OnlySchemas

SyncInsert(r) ==
    /\ rq[r].at = "insert"
    /\ PutSnapshot(<<rq[r].t, r>>, [source |-> rq[r].src, by |-> rq[r].by, active |-> TRUE])
    /\ Goto(r, "attach")
    /\ UNCHANGED target /\ OnlySchemas

(* Mutant: only the column is written, beside what the row holds by now.   *)
SyncAttachColumn(r) ==
    /\ rq[r].at = "attach"
    /\ target' = [target EXCEPT ![rq[r].t].schema = <<rq[r].t, r>>]
    /\ SyncEnds(r)
    /\ UNCHANGED snap /\ OnlySchemas

(* The whole row is written as it was read, with its new schema.           *)
SyncAttach(r) ==
    LET q == rq[r] IN
    /\ q.at = "attach"
    /\ PutTarget(q.t, [q.row EXCEPT !.schema = <<q.t, r>>])
    /\ SyncEnds(r)
    /\ UNCHANGED snap /\ OnlySchemas

SchemaSync(r) ==
    \/ SyncTarget(r) \/ SyncConnector(r) \/ SyncToken(r) \/ SyncFetch(r)
    \/ SyncList(r) \/ SyncDeactivate(r) \/ SyncInsert(r) \/ SyncAttach(r)

(* A call raises, or the process stops between two calls.                  *)
Fault(r) ==
    /\ r \in Open
    /\ faults < MaxFaults
    /\ faults' = faults + 1
    /\ IF Syncing(r) THEN SyncEnds(r) ELSE Answer(r)
    /\ UNCHANGED <<connection, schemas, pipelines, met>>
=============================================================================
