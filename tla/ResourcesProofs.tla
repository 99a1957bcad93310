-------------------------- MODULE ResourcesProofs --------------------------
(* Theorems about Resources, for any number of requests that overlap, any   *)
(* workspace, any starting point and any number of failed calls.            *)
EXTENDS Resources, TLAPS, FiniteSetTheorems, SequenceTheorems, WellFoundedInduction

(* The record of a request. *)
Ops == {"none", "oauth", "callback", "disconnect", "refresh", "select", "schema", "fire",
        "reprovision", "template", "places", "create", "put", "archive", "status", "trigger",
        "patch", "rotate", "remove"}
Labels == {"idle", "done", "state", "consume", "credential", "instance", "save", "revoke",
           "search", "upsert", "sources", "pick", "sync", "connector", "token", "fetch", "list",
           "deactivate", "insert", "attach", "job", "trigger", "mint", "links", "link",
           "limits", "seed", "starter", "droptrigger", "starterjob", "dropjob", "provision",
           "newconnector", "bundled", "newbundled", "jobs", "notion", "target", "newtarget",
           "count", "graph", "find", "read", "update", "write"}
Auth == {"none", "pending", "connected", "revoked"}

Picks == Seq(Targets \X Or(Sources))
Todos == Seq(Sources) \cup Seq(Bootstrap) \cup Picks

Request == [op: Ops, at: Labels, back: Labels, todo: Todos, t: Or(Targets), row: Or(Target),
            old: Or(Snaps \cup States), src: Or(Sources), by: {"token", "name"},
            trig: Or(Minted), trow: Or(Trigger), job: Or(Minted), saw: Auth]

InSync    == {"sync", "connector", "token", "fetch", "list", "deactivate", "insert", "attach"}
WithRow   == InSync \ {"sync"}
WithSource == {"list", "deactivate", "insert", "attach"}
Provisioning == {"starter", "provision", "newconnector", "bundled", "newbundled"}
Linking   == {"links", "link"}

MakesJob == {"fire", "reprovision", "template", "places", "create"}

(* What a request holds when it stands at a label: the kinds of request     *)
(* that get there, and the fields the next steps rely on.                   *)
Fits(q, at) ==
    /\ at = "instance" => q.op \in {"callback", "disconnect", "refresh"}
    /\ at \in {"state", "consume", "credential"} => q.op = "callback"
    /\ at \in {"state", "consume"} => q.old \in States
    /\ at \in Provisioning => Starter(q.op)
    /\ at \in {"newconnector", "bundled", "newbundled"} => q.todo \in Seq(Bootstrap)
    /\ at = "newbundled" => q.todo # <<>>
    /\ at = "sources" => q.op = "select" /\ q.todo \in Bodies
    /\ at \in {"pick", "save"} \cup InSync /\ q.op = "select" => q.todo \in Picks
    /\ at = "pick" => q.op = "select"
    /\ at = "save" /\ q.op = "select" => q.t \in Targets /\ q.src \in Sources
    /\ at \in InSync =>
          /\ q.t \in Targets
          /\ \/ q.op = "schema"
             \/ q.op = "select" /\ q.back = "pick"
             \/ q.op = "template" /\ q.back = "trigger"
             \/ q.op = "places" /\ q.back = "job"
    /\ at \in WithRow => q.row \in Target
    /\ at \in WithSource => q.src \in Sources
    /\ at = "deactivate" => q.old \in Snaps
    /\ at \in {"jobs", "notion"} => q.op \in {"template", "places"}
    /\ at = "newtarget" => q.op = "template"
    /\ at \in {"target", "newtarget"} /\ q.op = "template" => q.t \in Sources
    /\ at = "target" => q.op \in {"template", "places", "create"}
    /\ at \in {"target", "trigger", "mint", "count", "job"} /\ ~Starter(q.op) => q.t \in Targets
    /\ at = "trigger" => q.op \in {"template", "places", "create"}
    /\ at \in {"job", "mint"} \cup Linking => q.op \in MakesJob
    /\ at = "mint" => q.op # "create"
    /\ at \in {"mint", "trigger"} /\ q.op = "places" => q.job \in Requests
    /\ at \in Linking /\ ~Starter(q.op) => q.job \in Requests /\ q.trig \in Minted
    /\ at \in {"trigger", "target", "count", "job"} /\ q.op = "create" => q.trig \in Minted
    /\ at = "job" /\ q.op = "template" => q.trig \in Minted
    /\ at \in {"mint"} \cup Linking /\ Starter(q.op) => q.job = "starter"
    /\ at \in Linking /\ Starter(q.op) => q.trig = "starter"
    /\ at = "droptrigger" => q.op = "reprovision" /\ q.trig \in Minted
    /\ at = "graph" => q.op = "put" /\ q.job \in Minted
    /\ at \in {"find", "update"} => q.op \in {"archive", "status"} /\ q.job \in Minted
    /\ at = "read" => q.op \in {"patch", "rotate", "remove"}
    /\ at \in {"read", "write"} => q.trig \in Minted
    /\ at = "write" => q.op \in {"patch", "rotate", "remove"} /\ q.trow \in Trigger

RequestInv ==
    /\ rq \in [Requests -> Request]
    /\ \A r \in Requests : Fits(rq[r], rq[r].at)
    /\ \A r \in Requests : rq[r].at = "deactivate" => Exists(snap, rq[r].old)

TypeInv == TypeOK /\ RequestInv

(* The steps of Handle, by what they work on. *)
ConnectionStep(r) ==
    \/ FindState(r) \/ ConsumeState(r) \/ UpsertCredential(r) \/ ReadInstance(r)
    \/ SaveInstance(r) \/ RevokeCredential(r) \/ SearchSources(r) \/ UpsertSources(r)
SelectStep(r) == ListSources(r) \/ PickSource(r) \/ SaveSelected(r)
LinkStep(r) == SaveJob(r) \/ FindTrigger(r) \/ MintTrigger(r) \/ ListLinks(r) \/ LinkTrigger(r)
StarterStep(r) ==
    \/ ReadLimits(r) \/ SeedLimits(r) \/ FindStarter(r) \/ DropStarterTrigger(r)
    \/ FindStarterJob(r) \/ DropStarterJob(r) \/ ProvisionConnector(r) \/ NewConnector(r)
    \/ ProvisionTarget(r) \/ NewBundledTarget(r)
TemplateStep(r) == FindTemplateJob(r) \/ NeedToken(r) \/ FindTarget(r) \/ NewTarget(r)
PipelineStep(r) ==
    \/ CheckTrigger(r) \/ CheckTarget(r) \/ CheckLimit(r) \/ SaveGraph(r)
    \/ FindJob(r) \/ UpdateJob(r) \/ ReadTrigger(r) \/ SaveTrigger(r) \/ RemoveTrigger(r)

-----------------------------------------------------------------------------
(* Lemmas about the operators of OwnerTables. *)

LEMMA NullIsNoRow ==
    /\ Null \notin Targets /\ Null \notin Minted /\ Null \notin Snaps /\ Null \notin Sources
    /\ Null \notin Target /\ Null \notin Snapshot /\ Null \notin Trigger /\ Null \notin Job
BY OwnerAssumption DEF Targets

(* No snapshot goes away. *)
SnapsStay == \A x \in Snaps : Exists(snap, x) => Exists(snap, x)'

(* One request becomes a record that fits where it stands. *)
LEMMA OneBecomes ==
    ASSUME RequestInv, SnapsStay, NEW r \in Requests, NEW v \in Request, Fits(v, v.at),
           v.at = "deactivate" => Exists(snap, v.old),
           rq' = [rq EXCEPT ![r] = v]
    PROVE  RequestInv'
<1>1. /\ rq \in [Requests -> Request] /\ \A s \in Requests : Fits(rq[s], rq[s].at)
      /\ \A s \in Requests : rq[s].at = "deactivate" =>
            rq[s].old \in Snaps /\ Exists(snap, rq[s].old)
  BY DEF RequestInv, Fits
<1>2. rq' \in [Requests -> Request] /\ rq'[r] = v /\ \A s \in Requests : s # r => rq'[s] = rq[s]
  BY <1>1
<1>3. ASSUME NEW s \in Requests, rq'[s].at = "deactivate" PROVE Exists(snap, rq[s].old)'
  <2>1. CASE s = r
    <3>1. v.old \in Snaps /\ Exists(snap, v.old) /\ rq'[s].old = v.old
      BY <1>2, <1>3, <2>1 DEF Fits
    <3>2. QED
      BY <3>1 DEF Exists, SnapsStay
  <2>2. CASE s # r
    BY <1>1, <1>2, <1>3, <2>2 DEF Exists, SnapsStay
  <2>3. QED
    BY <2>1, <2>2
<1>4. QED
  BY <1>1, <1>2, <1>3 DEF RequestInv

LEMMA OneMoves ==
    ASSUME RequestInv, SnapsStay, NEW r \in Requests, NEW q \in Request, NEW at \in Labels,
           Fits(q, at), at = "deactivate" => Exists(snap, q.old),
           Keep(r, q, at)
    PROVE  RequestInv'
<1> DEFINE v == [q EXCEPT !.at = at]
<1>1. /\ v \in Request
      /\ v.at = at /\ v.op = q.op /\ v.back = q.back /\ v.todo = q.todo /\ v.t = q.t
      /\ v.row = q.row /\ v.old = q.old /\ v.src = q.src /\ v.by = q.by /\ v.trig = q.trig
      /\ v.trow = q.trow /\ v.job = q.job /\ v.saw = q.saw
  BY DEF Request
<1>2. rq' = [rq EXCEPT ![r] = v]
  BY DEF Keep
<1> HIDE DEF v
<1>3. Fits(v, v.at)
  BY <1>1 DEF Fits
<1>4. QED
  BY <1>1, <1>2, <1>3, OneBecomes

LEMMA OneGoes ==
    ASSUME RequestInv, SnapsStay, NEW r \in Requests, NEW at \in Labels, Fits(rq[r], at),
           Goto(r, at), at # "deactivate"
    PROVE  RequestInv'
<1>1. rq[r] \in Request
  BY DEF RequestInv
<1>2. Keep(r, rq[r], at)
  BY DEF Keep, Goto
<1>3. QED
  BY <1>1, <1>2, OneMoves

LEMMA IdleTyped == Idle \in Request
<1>1. <<>> \in Todos
  BY DEF Todos, Picks
<1>2. QED
  <2>1. /\ "none" \in Ops /\ "none" \in Auth /\ "token" \in {"token", "name"}
        /\ \A S : Null \in Or(S)
    BY DEF Ops, Auth, Or
  <2>2. "idle" \in Labels
    BY DEF Labels
  <2>3. QED
    BY <1>1, <2>1, <2>2 DEF Idle, Request

(* An answer leaves nothing to rely on. *)
LEMMA OneAnswers ==
    ASSUME RequestInv, SnapsStay, NEW r \in Requests, Answer(r)
    PROVE  RequestInv'
<1> DEFINE q == [Idle EXCEPT !.op = rq[r].op]
<1>1. rq[r].op \in Ops
  BY DEF RequestInv, Request
<1>2. q \in Request
  BY <1>1, IdleTyped DEF Request
<1>3. Keep(r, q, "done")
  BY DEF Answer, Keep
<1>4. Fits(q, "done")
  BY DEF Fits, InSync, WithRow, WithSource, Provisioning, Linking
<1>5. "done" \in Labels /\ "done" # "deactivate"
  BY DEF Labels
<1> HIDE DEF q
<1>6. QED
  BY <1>2, <1>3, <1>4, <1>5, OneMoves

(* The end of a sync, with or without a new schema. *)
LEMMA OneEndsSync ==
    ASSUME RequestInv, SnapsStay, NEW r \in Requests, rq[r].at \in InSync, SyncEnds(r)
    PROVE  RequestInv'
<1>q. rq[r] \in Request /\ Fits(rq[r], rq[r].at)
  BY DEF RequestInv
<1>1. CASE rq[r].op = "schema"
  BY <1>1, OneAnswers DEF SyncEnds
<1>2. CASE rq[r].op # "schema"
  <2> DEFINE q == [rq[r] EXCEPT !.row = Null, !.old = Null, !.src = Null, !.by = "token"]
  <2>1. /\ q \in Request /\ q.op = rq[r].op /\ q.back = rq[r].back /\ q.todo = rq[r].todo
        /\ q.t = rq[r].t /\ q.trig = rq[r].trig /\ q.trow = rq[r].trow /\ q.job = rq[r].job
    BY <1>q DEF Request, Or
  <2>2. Keep(r, q, rq[r].back)
    BY <1>2 DEF SyncEnds
  <2> HIDE DEF q
  <2>3. /\ rq[r].t \in Targets
        /\ \/ q.op = "select" /\ rq[r].back = "pick" /\ q.todo \in Picks
           \/ q.op = "template" /\ rq[r].back = "trigger"
           \/ q.op = "places" /\ rq[r].back = "job"
    BY <1>q, <1>2, <2>1 DEF Fits
  <2>4. Fits(q, rq[r].back) /\ rq[r].back # "deactivate" /\ rq[r].back \in Labels
    <3>1. rq[r].back \in Labels
      BY <1>q DEF Request
    <3>2. CASE q.op = "select" /\ rq[r].back = "pick" /\ q.todo \in Picks
      BY <3>1, <3>2 DEF Fits, InSync, WithRow, WithSource, Provisioning, Linking
    <3>3. CASE q.op = "template" /\ rq[r].back = "trigger"
      BY <2>1, <2>3, <3>1, <3>3
         DEF Fits, InSync, WithRow, WithSource, Provisioning, Linking, Starter
    <3>4. CASE q.op = "places" /\ rq[r].back = "job"
      BY <2>1, <2>3, <3>1, <3>4
         DEF Fits, InSync, WithRow, WithSource, Provisioning, Linking, Starter, MakesJob
    <3>5. QED
      BY <2>3, <3>2, <3>3, <3>4
  <2>5. QED
    BY <2>1, <2>2, <2>4, OneMoves
<1>3. QED
  BY <1>1, <1>2

-----------------------------------------------------------------------------
(* Type correctness, action by action. *)

(* A step that leaves the tables alone. *)
LEMMA TablesStay ==
    ASSUME TypeOK, UNCHANGED <<connection, schemas, pipelines, faults>>
    PROVE  TypeOK' /\ SnapsStay
BY DEF TypeOK, SnapsStay, connection, schemas, pipelines, Exists

LEMMA InstanceTyped ==
    ASSUME TypeOK, OnlyConnection, instance' \in Auth, UNCHANGED <<credential, state, known>>
    PROVE  TypeOK' /\ SnapsStay
BY DEF TypeOK, SnapsStay, OnlyConnection, schemas, pipelines, Exists, Auth

LEMMA ConnectionSteps ==
    ASSUME TypeInv, NEW r \in Requests, ConnectionStep(r)
    PROVE  TypeInv'
<1> USE DEF InSync, WithRow, WithSource, Provisioning, Linking, MakesJob
<1>q. TypeOK /\ RequestInv /\ rq[r] \in Request /\ Fits(rq[r], rq[r].at)
  BY DEF TypeInv, RequestInv
<1>a. {"consume", "credential", "instance", "revoke", "save", "upsert"} \subseteq Labels
  BY DEF Labels
<1>1. CASE FindState(r)
  <2>1. TypeOK' /\ SnapsStay
    BY <1>q, <1>1, TablesStay DEF FindState, ReadOnly
  <2>2. CASE Goto(r, "consume")
    <3>1. Fits(rq[r], "consume")
      BY <1>q, <1>1 DEF FindState, Reach, Fits
    <3>2. QED
      BY <1>q, <1>a, <2>1, <2>2, <3>1, OneGoes DEF TypeInv
  <2>3. CASE Answer(r)
    BY <1>q, <2>1, <2>3, OneAnswers DEF TypeInv
  <2>4. QED
    BY <1>1, <2>2, <2>3 DEF FindState
<1>2. CASE ConsumeState(r)
  <2>1. TypeOK' /\ SnapsStay
    BY <1>q, <1>2 DEF ConsumeState, OnlyConnection, TypeOK, SnapsStay, schemas, pipelines, Exists
  <2>2. CASE Goto(r, "credential")
    <3>1. Fits(rq[r], "credential")
      BY <1>q, <1>2 DEF ConsumeState, Reach, Fits
    <3>2. QED
      BY <1>q, <1>a, <2>1, <2>2, <3>1, OneGoes DEF TypeInv
  <2>3. CASE Answer(r)
    BY <1>q, <2>1, <2>3, OneAnswers DEF TypeInv
  <2>4. QED
    BY <1>2, <2>2, <2>3 DEF ConsumeState
<1>3. CASE UpsertCredential(r)
  <2>1. TypeOK' /\ SnapsStay
    BY <1>q, <1>3
       DEF UpsertCredential, PutCredential, OnlyConnection, TypeOK, SnapsStay, schemas, pipelines,
           Exists
  <2>2. CASE Goto(r, "instance")
    <3>1. Fits(rq[r], "instance")
      BY <1>q, <1>3 DEF UpsertCredential, Reach, Fits
    <3>2. QED
      BY <1>q, <1>a, <2>1, <2>2, <3>1, OneGoes DEF TypeInv
  <2>3. CASE Answer(r)
    BY <1>q, <2>1, <2>3, OneAnswers DEF TypeInv
  <2>4. QED
    BY <1>3, <2>2, <2>3 DEF UpsertCredential
<1>4. CASE ReadInstance(r)
  <2>1. TypeOK' /\ SnapsStay
    BY <1>q, <1>4, TablesStay DEF ReadInstance, ReadOnly
  <2>0. rq[r].op \in {"callback", "disconnect", "refresh"}
    BY <1>q, <1>4 DEF ReadInstance, Fits
  <2>2. CASE Goto(r, "revoke")
    <3>1. Fits(rq[r], "revoke")
      BY <1>q, <2>0 DEF Fits
    <3>2. QED
      BY <1>q, <1>a, <2>1, <2>2, <3>1, OneGoes DEF TypeInv
  <2>3. CASE Answer(r)
    BY <1>q, <2>1, <2>3, OneAnswers DEF TypeInv
  <2>4. CASE Keep(r, [rq[r] EXCEPT !.saw = instance], "save")
    <3> DEFINE q == [rq[r] EXCEPT !.saw = instance]
    <3>1. q \in Request /\ q.op = rq[r].op
      BY <1>q DEF Request, TypeOK, Auth
    <3> HIDE DEF q
    <3>2. Fits(q, "save")
      BY <2>0, <3>1 DEF Fits
    <3>3. Keep(r, q, "save")
      BY <2>4 DEF q
    <3>4. QED
      BY <1>q, <1>a, <2>1, <3>1, <3>2, <3>3, OneMoves DEF TypeInv
  <2>5. QED
    BY <1>4, <2>2, <2>3, <2>4 DEF ReadInstance
<1>5. CASE SaveInstance(r)
  <2>1. instance' \in Auth
    <3>1. rq[r].saw \in Auth /\ instance \in Auth
      BY <1>q DEF Request, TypeOK, Auth
    <3>2. QED
      BY <1>5, <3>1 DEF SaveInstance, PutInstance, Auth
  <2>2. TypeOK' /\ SnapsStay
    BY <1>q, <1>5, <2>1, InstanceTyped DEF SaveInstance
  <2>3. QED
    BY <1>q, <1>5, <2>2, OneAnswers DEF SaveInstance, TypeInv
<1>6. CASE RevokeCredential(r)
  <2>1. TypeOK' /\ SnapsStay
    BY <1>q, <1>6
       DEF RevokeCredential, OnlyConnection, TypeOK, SnapsStay, schemas, pipelines, Exists
  <2>2. Fits(rq[r], "save")
    BY <1>q, <1>6 DEF RevokeCredential, Reach, Fits
  <2>3. QED
    BY <1>q, <1>a, <1>6, <2>1, <2>2, OneGoes DEF RevokeCredential, TypeInv
<1>7. CASE SearchSources(r)
  <2>1. TypeOK' /\ SnapsStay
    BY <1>q, <1>7, TablesStay DEF SearchSources, ReadOnly
  <2>2. CASE Goto(r, "upsert")
    <3>1. Fits(rq[r], "upsert")
      BY <1>q, <1>7 DEF SearchSources, Reach, Fits
    <3>2. QED
      BY <1>q, <1>a, <2>1, <2>2, <3>1, OneGoes DEF TypeInv
  <2>3. CASE Answer(r)
    BY <1>q, <2>1, <2>3, OneAnswers DEF TypeInv
  <2>4. QED
    BY <1>7, <2>2, <2>3 DEF SearchSources
<1>8. CASE UpsertSources(r)
  <2>1. TypeOK' /\ SnapsStay
    BY <1>q, <1>8
       DEF UpsertSources, PutSources, OnlyConnection, TypeOK, SnapsStay, schemas, pipelines, Exists
  <2>2. CASE Goto(r, "instance")
    <3>1. Fits(rq[r], "instance")
      BY <1>q, <1>8 DEF UpsertSources, Reach, Fits
    <3>2. QED
      BY <1>q, <1>a, <2>1, <2>2, <3>1, OneGoes DEF TypeInv
  <2>3. CASE Answer(r)
    BY <1>q, <2>1, <2>3, OneAnswers DEF TypeInv
  <2>4. QED
    BY <1>8, <2>2, <2>3 DEF UpsertSources
<1>9. QED
  BY <1>1, <1>2, <1>3, <1>4, <1>5, <1>6, <1>7, <1>8 DEF ConnectionStep

LEMMA FetchTyped ==
    ASSUME TypeInv, SnapsStay, NEW r \in Requests, rq[r].at \in {"connector", "token"},
           FetchByName(r)
    PROVE  RequestInv'
<1> USE DEF InSync, WithRow, WithSource, Provisioning, Linking, MakesJob
<1>q. RequestInv /\ rq[r] \in Request /\ Fits(rq[r], rq[r].at)
  BY DEF TypeInv, RequestInv
<1>1. CASE SyncEnds(r)
  BY <1>q, <1>1, OneEndsSync
<1>2. ASSUME NEW s \in Sources, Keep(r, [rq[r] EXCEPT !.src = s, !.by = "name"], "list")
      PROVE  RequestInv'
  <2>q. PICK q : q = [rq[r] EXCEPT !.src = s, !.by = "name"]
    OBVIOUS
  <2>1. /\ q \in Request /\ q.op = rq[r].op /\ q.back = rq[r].back /\ q.todo = rq[r].todo
        /\ q.t = rq[r].t /\ q.row = rq[r].row /\ q.src = s
    BY <1>q, <2>q DEF Request, Or
  <2>2. Fits(q, "list")
    BY <1>q, <2>1 DEF Fits
  <2>3. Keep(r, q, "list") /\ "list" \in Labels
    BY <1>2, <2>q DEF Labels
  <2>4. QED
    BY <1>q, <2>1, <2>2, <2>3, OneMoves
<1>3. QED
  BY <1>1, <1>2 DEF FetchByName

LEMMA SyncSteps ==
    ASSUME TypeInv, NEW r \in Requests, SchemaSync(r)
    PROVE  TypeInv'
<1> USE DEF InSync, WithRow, WithSource, Provisioning, Linking, MakesJob
<1>q. TypeOK /\ RequestInv /\ rq[r] \in Request /\ Fits(rq[r], rq[r].at)
  BY DEF TypeInv, RequestInv
<1>t. target \in [Targets -> Or(Target)] /\ snap \in [Snaps -> Or(Snapshot)]
  BY <1>q DEF TypeOK
<1>a. InSync \subseteq Labels
  BY DEF Labels
<1>1. CASE SyncTarget(r)
  <2>1. TypeOK' /\ SnapsStay
    BY <1>q, <1>1, TablesStay DEF SyncTarget, ReadOnly
  <2>2. CASE Exists(target, rq[r].t)
    <3>q. PICK q : q = [rq[r] EXCEPT !.row = target[rq[r].t]]
      OBVIOUS
    <3>0. rq[r].at = "sync" /\ rq[r].t \in Targets
      BY <1>q, <1>1 DEF SyncTarget, Fits
    <3>r. target[rq[r].t] \in Target
      BY <1>t, <2>2, <3>0 DEF Exists, Or
    <3>1. /\ q \in Request /\ q.op = rq[r].op /\ q.back = rq[r].back /\ q.todo = rq[r].todo
          /\ q.t = rq[r].t /\ q.row \in Target
      BY <1>q, <3>q, <3>r DEF Request, Or
    <3>2. Fits(q, "connector")
      BY <1>q, <3>0, <3>1 DEF Fits
    <3>3. Keep(r, q, "connector")
      BY <1>1, <2>2, <3>q DEF SyncTarget
    <3>4. QED
      BY <1>q, <1>a, <2>1, <3>1, <3>2, <3>3, OneMoves DEF TypeInv
  <2>3. CASE SyncEnds(r)
    BY <1>q, <1>1, <2>1, <2>3, OneEndsSync DEF SyncTarget, TypeInv
  <2>4. QED
    BY <1>1, <2>2, <2>3 DEF SyncTarget
<1>2. CASE SyncConnector(r)
  <2>1. TypeOK' /\ SnapsStay
    BY <1>q, <1>2, TablesStay DEF SyncConnector, ReadOnly
  <2>0. rq[r].at = "connector"
    BY <1>2 DEF SyncConnector
  <2>2. CASE Goto(r, "token")
    <3>1. Fits(rq[r], "token")
      BY <1>q, <2>0 DEF Fits
    <3>2. QED
      BY <1>q, <1>a, <2>1, <2>2, <3>1, OneGoes DEF TypeInv
  <2>3. CASE SyncEnds(r)
    BY <1>q, <2>0, <2>1, <2>3, OneEndsSync DEF TypeInv
  <2>4. CASE FetchByName(r)
    BY <1>q, <2>0, <2>1, <2>4, FetchTyped DEF TypeInv
  <2>5. QED
    BY <1>2, <2>2, <2>3, <2>4 DEF SyncConnector
<1>3. CASE SyncToken(r)
  <2>1. TypeOK' /\ SnapsStay
    BY <1>q, <1>3, TablesStay DEF SyncToken, ReadOnly
  <2>0. rq[r].at = "token"
    BY <1>3 DEF SyncToken
  <2>2. CASE Goto(r, "fetch")
    <3>1. Fits(rq[r], "fetch")
      BY <1>q, <2>0 DEF Fits
    <3>2. QED
      BY <1>q, <1>a, <2>1, <2>2, <3>1, OneGoes DEF TypeInv
  <2>3. CASE FetchByName(r)
    BY <1>q, <2>0, <2>1, <2>3, FetchTyped DEF TypeInv
  <2>4. QED
    BY <1>3, <2>2, <2>3 DEF SyncToken
<1>4. CASE SyncFetch(r)
  <2>1. TypeOK' /\ SnapsStay
    BY <1>q, <1>4, TablesStay DEF SyncFetch, ReadOnly
  <2>0. rq[r].at = "fetch"
    BY <1>4 DEF SyncFetch
  <2>2. ASSUME NEW s \in Sources, Keep(r, [rq[r] EXCEPT !.src = s], "list")
        PROVE  RequestInv'
    <3>q. PICK q : q = [rq[r] EXCEPT !.src = s]
      OBVIOUS
    <3>1. /\ q \in Request /\ q.op = rq[r].op /\ q.back = rq[r].back /\ q.todo = rq[r].todo
          /\ q.t = rq[r].t /\ q.row = rq[r].row /\ q.src = s
      BY <1>q, <3>q DEF Request, Or
    <3>2. Fits(q, "list")
      BY <1>q, <2>0, <3>1 DEF Fits
    <3>3. Keep(r, q, "list")
      BY <2>2, <3>q
    <3>4. QED
      BY <1>q, <1>a, <2>1, <3>1, <3>2, <3>3, OneMoves
  <2>3. CASE SyncEnds(r)
    BY <1>q, <2>0, <2>1, <2>3, OneEndsSync DEF TypeInv
  <2>4. QED
    BY <1>4, <2>1, <2>2, <2>3 DEF SyncFetch, TypeInv
<1>5. CASE SyncList(r)
  <2>1. TypeOK' /\ SnapsStay
    BY <1>q, <1>5, TablesStay DEF SyncList, ReadOnly
  <2>0. rq[r].at = "list"
    BY <1>5 DEF SyncList
  <2>2. CASE Goto(r, "insert")
    <3>1. Fits(rq[r], "insert")
      BY <1>q, <2>0 DEF Fits
    <3>2. QED
      BY <1>q, <1>a, <2>1, <2>2, <3>1, OneGoes DEF TypeInv
  <2>3. ASSUME NEW x \in ActiveOf(rq[r].t), Keep(r, [rq[r] EXCEPT !.old = x], "deactivate")
        PROVE  RequestInv'
    <3>x. x \in Snaps /\ Exists(snap, x)
      BY <2>3 DEF ActiveOf
    <3>q. PICK q : q = [rq[r] EXCEPT !.old = x]
      OBVIOUS
    <3>1. /\ q \in Request /\ q.op = rq[r].op /\ q.back = rq[r].back /\ q.todo = rq[r].todo
          /\ q.t = rq[r].t /\ q.row = rq[r].row /\ q.src = rq[r].src /\ q.old = x
      BY <1>q, <3>q, <3>x DEF Request, Or
    <3>2. Fits(q, "deactivate")
      BY <1>q, <2>0, <3>x, <3>1 DEF Fits
    <3>3. Keep(r, q, "deactivate") /\ Exists(snap, q.old)
      BY <2>3, <3>x, <3>q, <3>1
    <3>4. QED
      BY <1>q, <1>a, <2>1, <3>1, <3>2, <3>3, OneMoves
  <2>4. QED
    BY <1>5, <2>1, <2>2, <2>3 DEF SyncList, TypeInv
<1>6. CASE SyncDeactivate(r)
  <2>0. rq[r].at = "deactivate" /\ rq[r].old \in Snaps /\ Exists(snap, rq[r].old)
    BY <1>q, <1>6 DEF SyncDeactivate, Fits, RequestInv
  <2>r. snap[rq[r].old] \in Snapshot
    BY <1>t, <2>0 DEF Exists, Or
  <2>v. [snap[rq[r].old] EXCEPT !.active = FALSE] \in Snapshot
    BY <2>r DEF Snapshot
  <2>s. PICK v \in Snapshot : snap' = [snap EXCEPT ![rq[r].old] = v]
    BY <1>6, <2>v DEF SyncDeactivate, PutSnapshot
  <2>1. snap' \in [Snaps -> Or(Snapshot)] /\ SnapsStay
    BY <1>t, <2>s, NullIsNoRow DEF Or, SnapsStay, Exists
  <2>2. TypeOK'
    BY <1>q, <1>6, <2>1 DEF SyncDeactivate, OnlySchemas, TypeOK, connection, pipelines, Exists
  <2>3. Fits(rq[r], "insert")
    BY <1>q, <2>0 DEF Fits
  <2>4. QED
    BY <1>q, <1>a, <1>6, <2>1, <2>2, <2>3, OneGoes DEF SyncDeactivate, TypeInv
<1>7. CASE SyncInsert(r)
  <2>0. rq[r].at = "insert" /\ rq[r].src \in Sources /\ rq[r].by \in {"token", "name"}
    BY <1>q, <1>7 DEF SyncInsert, Fits, Request
  <2>v. [source |-> rq[r].src, by |-> rq[r].by, active |-> TRUE] \in Snapshot
    BY <2>0 DEF Snapshot
  <2>s. PICK v \in Snapshot : snap' = [snap EXCEPT ![<<rq[r].t, r>>] = v]
    BY <1>7, <2>v DEF SyncInsert, PutSnapshot
  <2>1. snap' \in [Snaps -> Or(Snapshot)] /\ SnapsStay
    BY <1>t, <2>s, NullIsNoRow DEF Or, SnapsStay, Exists
  <2>2. TypeOK'
    BY <1>q, <1>7, <2>1 DEF SyncInsert, OnlySchemas, TypeOK, connection, pipelines, Exists
  <2>3. Fits(rq[r], "attach")
    BY <1>q, <2>0 DEF Fits
  <2>4. QED
    BY <1>q, <1>a, <1>7, <2>1, <2>2, <2>3, OneGoes DEF SyncInsert, TypeInv
<1>8. CASE SyncAttach(r)
  <2>0. rq[r].at = "attach" /\ rq[r].row \in Target /\ <<rq[r].t, r>> \in Snaps
    BY <1>q, <1>8 DEF SyncAttach, Fits, Snaps, States
  <2>v. [rq[r].row EXCEPT !.schema = <<rq[r].t, r>>] \in Target
    BY <2>0 DEF Target, Or
  <2>s. PICK v \in Target : target' = [target EXCEPT ![rq[r].t] = v]
    BY <1>8, <2>v DEF SyncAttach, PutTarget
  <2>1. target' \in [Targets -> Or(Target)] /\ SnapsStay
    BY <1>t, <1>8, <2>s DEF SyncAttach, Or, SnapsStay, Exists
  <2>2. TypeOK'
    BY <1>q, <1>8, <2>1 DEF SyncAttach, OnlySchemas, TypeOK, connection, pipelines, Exists
  <2>3. QED
    BY <1>q, <1>8, <2>0, <2>1, <2>2, OneEndsSync DEF SyncAttach, TypeInv
<1>9. QED
  BY <1>1, <1>2, <1>3, <1>4, <1>5, <1>6, <1>7, <1>8 DEF SchemaSync

-----------------------------------------------------------------------------
(* The targets a selection writes. *)

LEMMA LeastOf ==
    ASSUME NEW N, N \subseteq Nat, N # {}
    PROVE  Min(N) \in N
<1>1. \E x \in N : \A y \in N : ~ (<<y, x>> \in OpToRel(<, Nat))
  BY NatLessThanWellFounded, WFMin
<1>2. PICK x \in N : \A y \in N : ~ (<<y, x>> \in OpToRel(<, Nat))
  BY <1>1
<1>3. \A y \in N : ~ (y < x)
  BY <1>2 DEF OpToRel
<1>4. \A y \in N : x =< y
  BY <1>3
<1>5. QED
  BY <1>4 DEF Min

LEMMA BundledTyped ==
    ASSUME NEW b \in Seq(Sources), NEW listed, listed \subseteq DOMAIN b, NEW name
    PROVE  ForBundled(b, listed, name) \in Or(Sources)
<1>0. DOMAIN b = 1..Len(b) /\ Len(b) \in Nat /\ \A n \in DOMAIN b : b[n] \in Sources
  BY LenProperties, ElementOfSeq
<1>1. ASSUME NEW N, N \subseteq DOMAIN b PROVE FirstOf(b, N) \in Or(Sources)
  <2>1. CASE N = {}
    BY <2>1 DEF FirstOf, Or
  <2>2. CASE N # {}
    <3>1. N \subseteq Nat
      BY <1>0, <1>1
    <3>2. Min(N) \in N
      BY <2>2, <3>1, LeastOf
    <3>3. QED
      BY <1>0, <1>1, <2>2, <3>2 DEF FirstOf, Or
  <2>3. QED
    BY <2>1, <2>2
<1>2. QED
  BY <1>1 DEF ForBundled

(* Each bundled target occurs once. *)
Once(todo) ==
    \A m, n \in 1..Len(todo) : todo[m][1] = todo[n][1] => m = n \/ todo[m][1] \in Sources

LEMMA SelectionTyped ==
    ASSUME NEW b \in Bodies, NEW listed, listed \subseteq DOMAIN b
    PROVE  LET own     == [n \in DOMAIN b |-> <<b[n], IF n \in listed THEN b[n] ELSE Null>>]
               bundled == <<<<"places", ForBundled(b, listed, "places")>>,
                            <<"locations", ForBundled(b, listed, "locations")>>>>
           IN  own \o bundled \in Picks /\ Once(own \o bundled)
<1> DEFINE own     == [n \in DOMAIN b |-> <<b[n], IF n \in listed THEN b[n] ELSE Null>>]
           bundled == <<<<"places", ForBundled(b, listed, "places")>>,
                        <<"locations", ForBundled(b, listed, "locations")>>>>
           S       == Targets \X Or(Sources)
<1>b. b \in Seq(Sources)
  BY ResourcesAssumption
<1>0. DOMAIN b = 1..Len(b) /\ Len(b) \in Nat /\ \A n \in DOMAIN b : b[n] \in Sources
  BY <1>b, LenProperties, ElementOfSeq
<1>1. own \in Seq(S) /\ Len(own) = Len(b) /\ \A n \in 1..Len(own) : own[n][1] = b[n]
  <2>1. \A n \in 1..Len(b) : <<b[n], IF n \in listed THEN b[n] ELSE Null>> \in S
    BY <1>0 DEF Targets, Or
  <2>2. own \in [1..Len(b) -> S]
    BY <1>0, <2>1
  <2>3. own \in Seq(S)
    BY <1>0, <2>2, SeqDef
  <2>4. QED
    BY <1>0, <2>3, LenProperties
<1>2. /\ bundled \in Seq(S) /\ Len(bundled) = 2
      /\ bundled[1][1] = "places" /\ bundled[2][1] = "locations"
  <2> DEFINE p == ForBundled(b, listed, "places")
             l == ForBundled(b, listed, "locations")
  <2>1. p \in Or(Sources) /\ l \in Or(Sources)
    BY <1>b, BundledTyped
  <2> HIDE DEF p, l
  <2>2. <<"places", p>> \in S /\ <<"locations", l>> \in S
    BY <2>1 DEF Targets, Bootstrap
  <2>3. <<<<"places", p>>, <<"locations", l>>>> \in Seq(S)
    BY <2>2
  <2>4. QED
    BY <2>3 DEF p, l
<1> HIDE DEF own, bundled, S
<1>3. /\ own \o bundled \in Seq(S) /\ Len(own \o bundled) = Len(b) + 2
      /\ \A n \in 1..(Len(b) + 2) :
            (own \o bundled)[n] = IF n <= Len(b) THEN own[n] ELSE bundled[n - Len(b)]
  <2>1. /\ own \o bundled \in Seq(S) /\ Len(own \o bundled) = Len(own) + Len(bundled)
        /\ \A n \in 1..(Len(own) + Len(bundled)) :
              (own \o bundled)[n] = IF n <= Len(own) THEN own[n] ELSE bundled[n - Len(own)]
    <3>1. own \in Seq(S) /\ bundled \in Seq(S)
      BY <1>1, <1>2
    <3>2. QED
      BY <3>1, ConcatProperties, Zenon
  <2>2. Len(own) = Len(b) /\ Len(bundled) = 2
    BY <1>1, <1>2
  <2>3. QED
    BY <2>1, <2>2
<1>4. ASSUME NEW m \in 1..(Len(b) + 2), NEW n \in 1..(Len(b) + 2),
             (own \o bundled)[m][1] = (own \o bundled)[n][1]
      PROVE  m = n \/ (own \o bundled)[m][1] \in Sources
  <2>1. \A k \in 1..(Len(b) + 2) :
           \/ k \in 1..Len(b) /\ (own \o bundled)[k][1] = b[k]
           \/ k = Len(b) + 1 /\ (own \o bundled)[k][1] = "places"
           \/ k = Len(b) + 2 /\ (own \o bundled)[k][1] = "locations"
    <3>1. ASSUME NEW k \in 1..(Len(b) + 2), k <= Len(b)
          PROVE  k \in 1..Len(b) /\ (own \o bundled)[k][1] = b[k]
      BY <1>0, <1>1, <1>3, <3>1
    <3>n. PICK l \in Nat : l = Len(b)
      BY <1>0
    <3>2. (own \o bundled)[Len(b) + 1] = bundled[1]
      <4>1. l + 1 - l = 1 /\ l + 1 \in 1..(l + 2) /\ ~(l + 1 <= l)
        OBVIOUS
      <4>2. QED
        BY <1>3, <3>n, <4>1
    <3>3. (own \o bundled)[Len(b) + 2] = bundled[2]
      <4>1. l + 2 - l = 2 /\ l + 2 \in 1..(l + 2) /\ ~(l + 2 <= l)
        OBVIOUS
      <4>2. QED
        BY <1>3, <3>n, <4>1
    <3>4. \A k \in 1..(Len(b) + 2) : k <= Len(b) \/ k = Len(b) + 1 \/ k = Len(b) + 2
      BY <1>0
    <3>5. QED
      BY <1>2, <3>1, <3>2, <3>3, <3>4
  <2>2. \A k \in 1..Len(b) : b[k] # "places" /\ b[k] # "locations" /\ b[k] \in Sources
    BY <1>0, ResourcesAssumption DEF Bootstrap
  <2> DEFINE f(k) == (own \o bundled)[k][1]
  <2>4. f(m) = f(n) /\ "places" # "locations"
    BY <1>4
  <2> HIDE DEF f
  <2>5. \A k \in 1..(Len(b) + 2) :
           \/ k \in 1..Len(b) /\ f(k) = b[k]
           \/ k = Len(b) + 1 /\ f(k) = "places"
           \/ k = Len(b) + 2 /\ f(k) = "locations"
    BY <2>1 DEF f
  <2>6. CASE m \in 1..Len(b) /\ f(m) = b[m]
    BY <2>2, <2>6 DEF f
  <2>7. CASE m = Len(b) + 1 /\ f(m) = "places"
    BY <2>2, <2>4, <2>5, <2>7
  <2>8. CASE m = Len(b) + 2 /\ f(m) = "locations"
    BY <2>2, <2>4, <2>5, <2>8
  <2>9. QED
    BY <2>5, <2>6, <2>7, <2>8 DEF f
<1>5. QED
  BY <1>3, <1>4 DEF Picks, Once, own, bundled, S

-----------------------------------------------------------------------------
(* Rows of targets. *)

LEMMA TargetTyped ==
    ASSUME TypeOK, OnlySchemas, snap' = snap, NEW t, NEW row \in Target, PutTarget(t, row)
    PROVE  TypeOK' /\ SnapsStay
<1>1. target' \in [Targets -> Or(Target)]
  BY DEF TypeOK, PutTarget, Or
<1>2. QED
  BY <1>1 DEF TypeOK, OnlySchemas, SnapsStay, connection, pipelines, Exists

LEMMA SelectSteps ==
    ASSUME TypeInv, NEW r \in Requests, SelectStep(r)
    PROVE  TypeInv'
<1> USE DEF InSync, WithRow, WithSource, Provisioning, Linking, MakesJob
<1>q. TypeOK /\ RequestInv /\ rq[r] \in Request /\ Fits(rq[r], rq[r].at)
  BY DEF TypeInv, RequestInv
<1>a. {"pick", "save", "sync"} \subseteq Labels
  BY DEF Labels
<1>1. CASE ListSources(r)
  <2>1. TypeOK' /\ SnapsStay
    BY <1>q, <1>1, TablesStay DEF ListSources, ReadOnly
  <2>0. rq[r].op = "select" /\ rq[r].todo \in Bodies
    BY <1>q, <1>1 DEF ListSources, Reach, Fits
  <2>b. PICK b \in Bodies : b = rq[r].todo
    BY <2>0
  <2>l. PICK listed : listed = {n \in DOMAIN b : b[n] \in known}
    OBVIOUS
  <2>t. PICK todo : todo = [n \in DOMAIN b |-> <<b[n], IF n \in listed THEN b[n] ELSE Null>>]
                              \o <<<<"places", ForBundled(b, listed, "places")>>,
                                   <<"locations", ForBundled(b, listed, "locations")>>>>
    OBVIOUS
  <2>2. todo \in Picks
    BY <2>l, <2>t, SelectionTyped
  <2>q. PICK q : q = [rq[r] EXCEPT !.todo = todo]
    OBVIOUS
  <2>3. q \in Request /\ q.op = "select" /\ q.todo \in Picks
    BY <1>q, <2>0, <2>2, <2>q DEF Request, Todos
  <2>4. Fits(q, "pick")
    BY <2>3 DEF Fits
  <2>5. Keep(r, q, "pick")
    BY <1>1, <2>b, <2>l, <2>t, <2>q DEF ListSources
  <2>6. QED
    BY <1>q, <1>a, <2>1, <2>3, <2>4, <2>5, OneMoves DEF TypeInv
<1>2. CASE PickSource(r)
  <2>1. TypeOK' /\ SnapsStay
    BY <1>q, <1>2, TablesStay DEF PickSource, ReadOnly
  <2>0. rq[r].op = "select" /\ rq[r].todo \in Picks
    BY <1>q, <1>2 DEF PickSource, Reach, Fits
  <2>2. CASE rq[r].todo = <<>>
    BY <1>q, <1>2, <2>1, <2>2, OneAnswers DEF PickSource, TypeInv
  <2>3. CASE rq[r].todo # <<>>
    <3>1. rq[r].todo[1] \in Targets \X Or(Sources) /\ Tail(rq[r].todo) \in Picks
      <4>1. Len(rq[r].todo) \in Nat \ {0} /\ Tail(rq[r].todo) \in Picks
        BY <2>0, <2>3, EmptySeq, HeadTailProperties DEF Picks
      <4>2. QED
        BY <2>0, <4>1, ElementOfSeq DEF Picks
    <3>2. CASE Keep(r, [rq[r] EXCEPT !.todo = Tail(rq[r].todo)], "pick")
      <4>q. PICK q : q = [rq[r] EXCEPT !.todo = Tail(rq[r].todo)]
        OBVIOUS
      <4>1. q \in Request /\ q.op = "select" /\ q.todo \in Picks
        BY <1>q, <2>0, <3>1, <4>q DEF Request, Todos
      <4>2. Fits(q, "pick")
        BY <4>1 DEF Fits
      <4>3. Keep(r, q, "pick")
        BY <3>2, <4>q
      <4>4. QED
        BY <1>q, <1>a, <2>1, <4>1, <4>2, <4>3, OneMoves DEF TypeInv
    <3>3. CASE ~ Keep(r, [rq[r] EXCEPT !.todo = Tail(rq[r].todo)], "pick")
      <4>t. PICK t \in Targets, s \in Or(Sources) : t = rq[r].todo[1][1] /\ s = rq[r].todo[1][2]
        BY <3>1
      <4>0. /\ s # Null
            /\ Keep(r, [rq[r] EXCEPT !.todo = Tail(rq[r].todo), !.t = t, !.src = s], "save")
        BY <1>2, <2>3, <3>3, <4>t DEF PickSource
      <4>q. PICK q : q = [rq[r] EXCEPT !.todo = Tail(rq[r].todo), !.t = t, !.src = s]
        OBVIOUS
      <4>1. /\ q \in Request /\ q.op = "select" /\ q.todo \in Picks
            /\ q.t \in Targets /\ q.src \in Sources
        BY <1>q, <2>0, <3>1, <4>0, <4>q DEF Request, Todos, Or
      <4>2. Fits(q, "save")
        BY <4>1 DEF Fits
      <4>3. Keep(r, q, "save")
        BY <4>0, <4>q
      <4>4. QED
        BY <1>q, <1>a, <2>1, <4>1, <4>2, <4>3, OneMoves DEF TypeInv
    <3>4. QED
      BY <3>2, <3>3
  <2>4. QED
    BY <2>2, <2>3
<1>3. CASE SaveSelected(r)
  <2>0. /\ rq[r].op = "select" /\ rq[r].todo \in Picks
        /\ rq[r].t \in Targets /\ rq[r].src \in Sources
    BY <1>q, <1>3 DEF SaveSelected, Reach, Fits
  <2>v. PICK v \in Target : v = [source |-> rq[r].src, schema |-> Null]
    BY <2>0 DEF Target, Or
  <2>1. TypeOK' /\ SnapsStay
    BY <1>q, <1>3, <2>v, TargetTyped DEF SaveSelected
  <2>q. PICK q : q = [[rq[r] EXCEPT !.src = Null] EXCEPT !.t = rq[r].t, !.back = "pick"]
    OBVIOUS
  <2>2. /\ q \in Request /\ q.op = "select" /\ q.todo \in Picks /\ q.t \in Targets
        /\ q.back = "pick"
    BY <1>q, <1>a, <2>0, <2>q DEF Request, Or
  <2>3. Fits(q, "sync")
    BY <2>2 DEF Fits
  <2>4. Keep(r, q, "sync")
    BY <1>3, <2>q DEF SaveSelected, Sync
  <2>5. QED
    BY <1>q, <1>a, <2>1, <2>2, <2>3, <2>4, OneMoves DEF TypeInv
<1>4. QED
  BY <1>1, <1>2, <1>3 DEF SelectStep

-----------------------------------------------------------------------------
(* Rows of triggers, jobs and links. *)

Linkable == {l \in Minted \X Minted : Exists(trigger, l[1]) /\ Exists(job, l[2])}

LEMMA PipelinesTyped ==
    ASSUME TypeOK, OnlyPipelines, trigger' \in [Minted -> Or(Trigger)],
           job' \in [Minted -> Or(Job)], links' \subseteq Linkable', limited' \in BOOLEAN
    PROVE  TypeOK' /\ SnapsStay
BY DEF TypeOK, OnlyPipelines, SnapsStay, connection, schemas, Exists, Linkable

(* A row that is written is there; a row that is deleted takes its links    *)
(* with it.                                                                 *)
LEMMA TriggerTyped ==
    ASSUME TypeOK, job' = job
    PROVE  /\ \A x \in Minted, row \in Trigger : PutTrigger(x, row) /\ links' = links =>
                 trigger' \in [Minted -> Or(Trigger)] /\ links' \subseteq Linkable'
           /\ \A x \in Minted : DeleteTriggerRow(x) =>
                 trigger' \in [Minted -> Or(Trigger)] /\ links' \subseteq Linkable'
<1>0. trigger \in [Minted -> Or(Trigger)] /\ links \subseteq Linkable
  BY DEF TypeOK, Linkable
<1>1. ASSUME NEW x \in Minted, NEW row \in Trigger, PutTrigger(x, row), links' = links
      PROVE  trigger' \in [Minted -> Or(Trigger)] /\ links' \subseteq Linkable'
  <2>1. /\ trigger' \in [Minted -> Or(Trigger)]
        /\ \A y \in Minted : Exists(trigger, y) => trigger'[y] # Null
    BY <1>0, <1>1, NullIsNoRow DEF PutTrigger, Or, Exists
  <2>2. QED
    BY <1>0, <1>1, <2>1 DEF Linkable, Exists
<1>2. ASSUME NEW x \in Minted, DeleteTriggerRow(x)
      PROVE  trigger' \in [Minted -> Or(Trigger)] /\ links' \subseteq Linkable'
  <2>1. /\ trigger' \in [Minted -> Or(Trigger)]
        /\ \A y \in Minted : y # x => trigger'[y] = trigger[y]
    BY <1>0, <1>2 DEF DeleteTriggerRow, Or
  <2>2. QED
    BY <1>0, <1>2, <2>1 DEF DeleteTriggerRow, Linkable, Exists
<1>3. QED
  BY <1>1, <1>2

LEMMA JobTyped ==
    ASSUME TypeOK, trigger' = trigger
    PROVE  /\ \A x \in Minted, row \in Job : job' = [job EXCEPT ![x] = row] /\ links' = links =>
                 job' \in [Minted -> Or(Job)] /\ links' \subseteq Linkable'
           /\ \A x \in Minted :
                 job' = [job EXCEPT ![x] = Null] /\ links' = {l \in links : l[2] # x} =>
                    job' \in [Minted -> Or(Job)] /\ links' \subseteq Linkable'
<1>0. job \in [Minted -> Or(Job)] /\ links \subseteq Linkable
  BY DEF TypeOK, Linkable
<1>1. ASSUME NEW x \in Minted, NEW row \in Job, job' = [job EXCEPT ![x] = row], links' = links
      PROVE  job' \in [Minted -> Or(Job)] /\ links' \subseteq Linkable'
  <2>1. /\ job' \in [Minted -> Or(Job)]
        /\ \A y \in Minted : Exists(job, y) => job'[y] # Null
    BY <1>0, <1>1, NullIsNoRow DEF Or, Exists
  <2>2. QED
    BY <1>0, <1>1, <2>1 DEF Linkable, Exists
<1>2. ASSUME NEW x \in Minted, job' = [job EXCEPT ![x] = Null], links' = {l \in links : l[2] # x}
      PROVE  job' \in [Minted -> Or(Job)] /\ links' \subseteq Linkable'
  <2>1. /\ job' \in [Minted -> Or(Job)]
        /\ \A y \in Minted : y # x => job'[y] = job[y]
    BY <1>0, <1>2 DEF Or
  <2>2. QED
    BY <1>0, <1>2, <2>1 DEF Linkable, Exists
<1>3. QED
  BY <1>1, <1>2

LEMMA LinkSteps ==
    ASSUME TypeInv, NEW r \in Requests, LinkStep(r)
    PROVE  TypeInv'
<1> USE DEF InSync, WithRow, WithSource, Provisioning, Linking, MakesJob
<1>q. TypeOK /\ RequestInv /\ rq[r] \in Request /\ Fits(rq[r], rq[r].at)
  BY DEF TypeInv, RequestInv
<1>t. /\ trigger \in [Minted -> Or(Trigger)] /\ job \in [Minted -> Or(Job)]
      /\ links \subseteq Linkable /\ limited \in BOOLEAN
  BY <1>q DEF TypeOK, Linkable
<1>a. {"mint", "trigger", "links", "link", "job"} \subseteq Labels
  BY DEF Labels
<1>m. "starter" \in Minted /\ Requests \subseteq Minted /\ IdOf(r) \in Minted
  BY DEF Minted, IdOf
<1>1. CASE SaveJob(r)
  <2>0. rq[r].at = "job" /\ rq[r].op \in MakesJob
    BY <1>q, <1>1 DEF SaveJob, Fits
  <2>v. PICK v : v = [name |-> NameFor(rq[r].op), active |-> TRUE,
                      target |-> IF Starter(rq[r].op) THEN "places" ELSE rq[r].t]
    OBVIOUS
  <2>1. v \in Job
    <3>1. NameFor(rq[r].op) \in {"starter", "template", "places", "plain"}
      BY <2>0 DEF NameFor, Starter
    <3>2. (IF Starter(rq[r].op) THEN "places" ELSE rq[r].t) \in Targets
      BY <1>q, <2>0 DEF Fits, Targets, Bootstrap
    <3>3. QED
      BY <2>v, <3>1, <3>2 DEF Job
  <2>2. job' = [job EXCEPT ![IdOf(r)] = v] /\ UNCHANGED <<trigger, links, limited>> /\ OnlyPipelines
    BY <1>1, <2>v DEF SaveJob
  <2>3. TypeOK' /\ SnapsStay
    BY <1>q, <1>t, <1>m, <2>1, <2>2, JobTyped, PipelinesTyped
  <2>q. PICK q : q = [rq[r] EXCEPT !.job = IdOf(r)]
    OBVIOUS
  <2>4. /\ q \in Request /\ q.op = rq[r].op /\ q.t = rq[r].t /\ q.trig = rq[r].trig
        /\ q.job = IdOf(r)
    BY <1>q, <1>m, <2>q DEF Request, Or
  <2>5. Fits(q, AfterJob(q.op)) /\ AfterJob(q.op) \in Labels /\ AfterJob(q.op) # "deactivate"
    <3>1. CASE Starter(q.op)
      BY <1>a, <2>0, <2>4, <3>1 DEF AfterJob, Fits, IdOf, Starter
    <3>2. CASE q.op = "places"
      BY <1>q, <1>a, <2>0, <2>4, <3>2 DEF AfterJob, Fits, IdOf, Starter
    <3>3. CASE q.op \in {"template", "create"}
      BY <1>q, <1>a, <2>0, <2>4, <3>3 DEF AfterJob, Fits, IdOf, Starter
    <3>4. QED
      BY <2>0, <2>4, <3>1, <3>2, <3>3 DEF Starter
  <2>6. Keep(r, q, AfterJob(q.op))
    BY <1>1, <2>q, <2>4 DEF SaveJob
  <2>7. QED
    BY <1>q, <2>3, <2>4, <2>5, <2>6, OneMoves DEF TypeInv
<1>2. CASE FindTrigger(r)
  <2>1. TypeOK' /\ SnapsStay
    BY <1>q, <1>2, TablesStay DEF FindTrigger, ReadOnly
  <2>0. rq[r].at = "trigger" /\ rq[r].op \in {"template", "places"}
    BY <1>2 DEF FindTrigger
  <2>2. CASE Goto(r, "mint")
    <3>1. Fits(rq[r], "mint")
      BY <1>q, <2>0 DEF Fits, Starter
    <3>2. QED
      BY <1>q, <1>a, <2>1, <2>2, <3>1, OneGoes DEF TypeInv
  <2>3. ASSUME NEW x \in Minted, Keep(r, [rq[r] EXCEPT !.trig = x], AfterTrigger(rq[r].op))
        PROVE  RequestInv'
    <3>q. PICK q : q = [rq[r] EXCEPT !.trig = x]
      OBVIOUS
    <3>1. /\ q \in Request /\ q.op = rq[r].op /\ q.t = rq[r].t /\ q.trig = x
          /\ q.job = rq[r].job
      BY <1>q, <3>q DEF Request, Or
    <3>2. Fits(q, AfterTrigger(q.op)) /\ AfterTrigger(q.op) \in {"job", "links"}
      BY <1>q, <2>0, <3>1 DEF AfterTrigger, Fits, Starter
    <3>3. Keep(r, q, AfterTrigger(q.op))
      BY <2>3, <3>q, <3>1
    <3>4. QED
      BY <1>q, <1>a, <2>1, <3>1, <3>2, <3>3, OneMoves
  <2>4. QED
    BY <1>2, <2>1, <2>2, <2>3 DEF FindTrigger, OfPath, TypeInv
<1>3. CASE MintTrigger(r)
  <2>0. rq[r].at = "mint" /\ rq[r].op \in MakesJob /\ rq[r].op # "create"
    BY <1>q, <1>3 DEF MintTrigger, Fits
  <2>v. PICK v : v = [path |-> PathOf(rq[r].op), secret |-> r]
    OBVIOUS
  <2>1. v \in Trigger
    BY <1>m, <2>0, <2>v DEF Trigger, PathOf, Paths, Starter
  <2>2. /\ PutTrigger(IdOf(r), v) \/ trigger' = trigger
        /\ UNCHANGED <<job, links, limited>> /\ OnlyPipelines
    BY <1>3, <2>v DEF MintTrigger, TriggerRefused
  <2>3. TypeOK' /\ SnapsStay
    <3>1. CASE PutTrigger(IdOf(r), v)
      BY <1>q, <1>t, <1>m, <2>1, <2>2, <3>1, TriggerTyped, PipelinesTyped
    <3>2. CASE trigger' = trigger
      BY <1>q, <1>t, <2>2, <3>2, PipelinesTyped DEF Linkable, Exists
    <3>3. QED
      BY <2>2, <3>1, <3>2
  <2>4. CASE Answer(r)
    BY <1>q, <2>3, <2>4, OneAnswers DEF TypeInv
  <2>5. CASE Keep(r, [rq[r] EXCEPT !.trig = IdOf(r)], AfterTrigger(rq[r].op))
    <3>q. PICK q : q = [rq[r] EXCEPT !.trig = IdOf(r)]
      OBVIOUS
    <3>1. /\ q \in Request /\ q.op = rq[r].op /\ q.t = rq[r].t /\ q.trig = IdOf(r)
          /\ q.job = rq[r].job
      BY <1>q, <1>m, <3>q DEF Request, Or
    <3>2. Fits(q, AfterTrigger(q.op)) /\ AfterTrigger(q.op) \in {"job", "links"}
      <4>1. CASE Starter(q.op)
        BY <1>q, <2>0, <3>1, <4>1 DEF AfterTrigger, Fits, Starter, IdOf
      <4>2. CASE ~Starter(q.op)
        BY <1>q, <1>m, <2>0, <3>1, <4>2 DEF AfterTrigger, Fits, Starter
      <4>3. QED
        BY <4>1, <4>2
    <3>3. Keep(r, q, AfterTrigger(q.op))
      BY <2>5, <3>q, <3>1
    <3>4. QED
      BY <1>q, <1>a, <2>3, <3>1, <3>2, <3>3, OneMoves DEF TypeInv
  <2>6. QED
    BY <1>3, <2>4, <2>5 DEF MintTrigger
<1>4. CASE ListLinks(r)
  <2>1. TypeOK' /\ SnapsStay
    BY <1>q, <1>4, TablesStay DEF ListLinks, ReadOnly
  <2>2. CASE Goto(r, "link")
    <3>1. Fits(rq[r], "link")
      BY <1>q, <1>4 DEF ListLinks, Fits
    <3>2. QED
      BY <1>q, <1>a, <2>1, <2>2, <3>1, OneGoes DEF TypeInv
  <2>3. CASE Answer(r)
    BY <1>q, <2>1, <2>3, OneAnswers DEF TypeInv
  <2>4. QED
    BY <1>4, <2>2, <2>3 DEF ListLinks
<1>5. CASE LinkTrigger(r)
  <2>0. rq[r].trig \in Minted /\ rq[r].job \in Minted /\ Answer(r)
    BY <1>q, <1>m, <1>5 DEF LinkTrigger, Fits
  <2>1. links' \subseteq Linkable /\ Linkable' = Linkable
    BY <1>t, <1>5, <2>0 DEF LinkTrigger, Linkable, Exists
  <2>2. TypeOK' /\ SnapsStay
    BY <1>q, <1>t, <1>5, <2>1, PipelinesTyped DEF LinkTrigger
  <2>3. QED
    BY <1>q, <2>0, <2>2, OneAnswers DEF TypeInv
<1>6. QED
  BY <1>1, <1>2, <1>3, <1>4, <1>5 DEF LinkStep

-----------------------------------------------------------------------------
(* The starter definitions *)

LEMMA StarterSteps ==
    ASSUME TypeInv, NEW r \in Requests, StarterStep(r)
    PROVE  TypeInv'
<1> USE DEF InSync, WithRow, WithSource, Provisioning, Linking, MakesJob, Starter
<1>q. TypeOK /\ RequestInv /\ rq[r] \in Request /\ Fits(rq[r], rq[r].at)
  BY DEF TypeInv, RequestInv
<1>t. /\ trigger \in [Minted -> Or(Trigger)] /\ job \in [Minted -> Or(Job)]
      /\ links \subseteq Linkable /\ limited \in BOOLEAN
  BY <1>q DEF TypeOK, Linkable
<1>a. {"starter", "seed", "provision", "starterjob", "droptrigger", "dropjob", "newconnector",
       "bundled", "newbundled", "job"} \subseteq Labels
  BY DEF Labels
<1>1. CASE ReadLimits(r)
  <2>1. TypeOK' /\ SnapsStay
    BY <1>q, <1>1, TablesStay DEF ReadLimits, ReadOnly
  <2>2. PICK at \in {"starter", "seed"} : Goto(r, at)
    BY <1>1 DEF ReadLimits
  <2>3. Fits(rq[r], at)
    BY <1>q, <1>1 DEF ReadLimits, Reach, Fits
  <2>4. QED
    BY <1>q, <1>a, <2>1, <2>2, <2>3, OneGoes DEF TypeInv
<1>2. CASE SeedLimits(r)
  <2>1. TypeOK' /\ SnapsStay
    <3>1. limited' \in BOOLEAN /\ UNCHANGED <<trigger, job, links>> /\ OnlyPipelines
      BY <1>t, <1>2 DEF SeedLimits
    <3>2. QED
      BY <1>q, <1>t, <3>1, PipelinesTyped DEF Linkable, Exists
  <2>2. Fits(rq[r], "starter")
    BY <1>q, <1>2 DEF SeedLimits, Reach, Fits
  <2>3. QED
    BY <1>q, <1>a, <1>2, <2>1, <2>2, OneGoes DEF SeedLimits, TypeInv
<1>3. CASE FindStarter(r)
  <2>1. TypeOK' /\ SnapsStay
    BY <1>q, <1>3, TablesStay DEF FindStarter, ReadOnly
  <2>0. rq[r].at = "starter" /\ rq[r].op \in {"fire", "reprovision"}
    BY <1>q, <1>3 DEF FindStarter, Fits
  <2>2. ASSUME NEW at \in {"provision", "starterjob"}, Goto(r, at) PROVE RequestInv'
    <3>1. Fits(rq[r], at)
      BY <1>q, <2>0 DEF Fits
    <3>2. QED
      BY <1>q, <1>a, <2>1, <2>2, <3>1, OneGoes
  <2>3. CASE Answer(r)
    BY <1>q, <2>1, <2>3, OneAnswers DEF TypeInv
  <2>4. ASSUME NEW x \in Minted, rq[r].op # "fire",
               Keep(r, [rq[r] EXCEPT !.trig = x], "droptrigger")
        PROVE  RequestInv'
    <3>q. PICK q : q = [rq[r] EXCEPT !.trig = x]
      OBVIOUS
    <3>1. q \in Request /\ q.op = rq[r].op /\ q.trig = x
      BY <1>q, <3>q DEF Request, Or
    <3>2. Fits(q, "droptrigger")
      BY <2>0, <2>4, <3>1 DEF Fits
    <3>3. Keep(r, q, "droptrigger")
      BY <2>4, <3>q
    <3>4. QED
      BY <1>q, <1>a, <2>1, <3>1, <3>2, <3>3, OneMoves
  <2>5. QED
    BY <1>3, <2>1, <2>2, <2>3, <2>4 DEF FindStarter, OfPath, TypeInv
<1>4. CASE DropStarterTrigger(r)
  <2>0. rq[r].trig \in Minted
    BY <1>q, <1>4 DEF DropStarterTrigger, Reach, Fits
  <2>1. TypeOK' /\ SnapsStay
    BY <1>q, <1>t, <1>4, <2>0, TriggerTyped, PipelinesTyped DEF DropStarterTrigger
  <2>2. Fits(rq[r], "starterjob")
    BY <1>q, <1>4 DEF DropStarterTrigger, Reach, Fits
  <2>3. QED
    BY <1>q, <1>a, <1>4, <2>1, <2>2, OneGoes DEF DropStarterTrigger, TypeInv
<1>5. CASE FindStarterJob(r)
  <2>1. TypeOK' /\ SnapsStay
    BY <1>q, <1>5, TablesStay DEF FindStarterJob, ReadOnly
  <2>2. PICK at \in {"dropjob", "provision"} : Goto(r, at)
    BY <1>5 DEF FindStarterJob
  <2>3. Fits(rq[r], at)
    BY <1>q, <1>5 DEF FindStarterJob, Reach, Fits
  <2>4. QED
    BY <1>q, <1>a, <2>1, <2>2, <2>3, OneGoes DEF TypeInv
<1>6. CASE DropStarterJob(r)
  <2>1. TypeOK' /\ SnapsStay
    <3>1. "starter" \in Minted
      BY DEF Minted
    <3>2. QED
      BY <1>q, <1>t, <1>6, <3>1, JobTyped, PipelinesTyped DEF DropStarterJob
  <2>2. Fits(rq[r], "provision")
    BY <1>q, <1>6 DEF DropStarterJob, Reach, Fits
  <2>3. QED
    BY <1>q, <1>a, <1>6, <2>1, <2>2, OneGoes DEF DropStarterJob, TypeInv
<1>7. CASE ProvisionConnector(r)
  <2>1. TypeOK' /\ SnapsStay
    BY <1>q, <1>7, TablesStay DEF ProvisionConnector, ReadOnly
  <2>0. Starter(rq[r].op)
    BY <1>q, <1>7 DEF ProvisionConnector, Fits
  <2>p. "places" \in Bootstrap /\ "locations" \in Bootstrap
    BY DEF Bootstrap
  <2>s. <<"places", "locations">> \in Seq(Bootstrap)
    BY <2>p
  <2>t. PICK todo \in Seq(Bootstrap) : todo = <<"places", "locations">>
    BY <2>s
  <2>q. PICK q : q = [rq[r] EXCEPT !.todo = todo]
    OBVIOUS
  <2>2. q \in Request /\ q.op = rq[r].op /\ q.todo \in Seq(Bootstrap)
    BY <1>q, <2>q DEF Request, Todos
  <2>3. PICK at \in {"newconnector", "bundled"} : Keep(r, q, at)
    BY <1>7, <2>t, <2>q DEF ProvisionConnector
  <2>4. Fits(q, at)
    BY <2>0, <2>2 DEF Fits
  <2>5. QED
    BY <1>q, <1>a, <2>1, <2>2, <2>3, <2>4, OneMoves DEF TypeInv
<1>8. CASE NewConnector(r)
  <2>1. TypeOK' /\ SnapsStay
    BY <1>q, <1>8, InstanceTyped DEF NewConnector, PutInstance, Auth
  <2>2. Fits(rq[r], "bundled")
    BY <1>q, <1>8 DEF NewConnector, Fits
  <2>3. QED
    BY <1>q, <1>a, <1>8, <2>1, <2>2, OneGoes DEF NewConnector, TypeInv
<1>9. CASE ProvisionTarget(r)
  <2>1. TypeOK' /\ SnapsStay
    BY <1>q, <1>9, TablesStay DEF ProvisionTarget, ReadOnly
  <2>0. /\ rq[r].at = "bundled" /\ rq[r].op \in {"fire", "reprovision"}
        /\ rq[r].todo \in Seq(Bootstrap)
    BY <1>q, <1>9 DEF ProvisionTarget, Fits
  <2>2. CASE Goto(r, "job")
    <3>1. Fits(rq[r], "job")
      BY <1>q, <2>0 DEF Fits
    <3>2. QED
      BY <1>q, <1>a, <2>1, <2>2, <3>1, OneGoes DEF TypeInv
  <2>3. CASE rq[r].todo # <<>> /\ Keep(r, [rq[r] EXCEPT !.todo = Tail(rq[r].todo)], "bundled")
    <3>q. PICK q : q = [rq[r] EXCEPT !.todo = Tail(rq[r].todo)]
      OBVIOUS
    <3>1. Tail(rq[r].todo) \in Seq(Bootstrap)
      BY <2>0, <2>3, HeadTailProperties
    <3>2. q \in Request /\ q.op = rq[r].op /\ q.todo \in Seq(Bootstrap)
      BY <1>q, <3>q, <3>1 DEF Request, Todos
    <3>3. Fits(q, "bundled")
      BY <2>0, <3>2 DEF Fits
    <3>4. Keep(r, q, "bundled")
      BY <2>3, <3>q
    <3>5. QED
      BY <1>q, <1>a, <2>1, <3>2, <3>3, <3>4, OneMoves DEF TypeInv
  <2>4. CASE rq[r].todo # <<>> /\ Goto(r, "newbundled")
    <3>1. Fits(rq[r], "newbundled")
      BY <2>0, <2>4 DEF Fits
    <3>2. QED
      BY <1>q, <1>a, <2>1, <2>4, <3>1, OneGoes DEF TypeInv
  <2>5. QED
    BY <1>9, <2>2, <2>3, <2>4 DEF ProvisionTarget
<1>10. CASE NewBundledTarget(r)
  <2>0. rq[r].op \in {"fire", "reprovision"} /\ rq[r].todo \in Seq(Bootstrap) /\ rq[r].todo # <<>>
    BY <1>q, <1>10 DEF NewBundledTarget, Fits
  <2>v. PICK v \in Target : v = [source |-> Placeholder, schema |-> Null]
    BY DEF Target, Or
  <2>1. TypeOK' /\ SnapsStay
    BY <1>q, <1>10, <2>v, TargetTyped DEF NewBundledTarget
  <2>q. PICK q : q = [rq[r] EXCEPT !.todo = Tail(rq[r].todo)]
    OBVIOUS
  <2>2. Tail(rq[r].todo) \in Seq(Bootstrap)
    BY <2>0, HeadTailProperties
  <2>3. q \in Request /\ q.op = rq[r].op /\ q.todo \in Seq(Bootstrap)
    BY <1>q, <2>q, <2>2 DEF Request, Todos
  <2>4. Fits(q, "bundled")
    BY <2>0, <2>3 DEF Fits
  <2>5. Keep(r, q, "bundled")
    BY <1>10, <2>q DEF NewBundledTarget
  <2>6. QED
    BY <1>q, <1>a, <2>1, <2>3, <2>4, <2>5, OneMoves DEF TypeInv
<1>11. QED
  BY <1>1, <1>2, <1>3, <1>4, <1>5, <1>6, <1>7, <1>8, <1>9, <1>10 DEF StarterStep

-----------------------------------------------------------------------------
(* Templates, pipelines and triggers *)

LEMMA TemplateSteps ==
    ASSUME TypeInv, NEW r \in Requests, TemplateStep(r)
    PROVE  TypeInv'
<1> USE DEF InSync, WithRow, WithSource, Provisioning, Linking, MakesJob, Starter
<1>q. TypeOK /\ RequestInv /\ rq[r] \in Request /\ Fits(rq[r], rq[r].at)
  BY DEF TypeInv, RequestInv
<1>a. {"notion", "target", "newtarget", "sync", "job", "trigger"} \subseteq Labels
  BY DEF Labels
<1>s. Sources \subseteq Targets /\ "places" \in Targets
  BY DEF Targets, Bootstrap
<1>1. CASE FindTemplateJob(r)
  <2>1. TypeOK' /\ SnapsStay
    BY <1>q, <1>1, TablesStay DEF FindTemplateJob, ReadOnly
  <2>2. CASE Goto(r, "notion")
    <3>1. Fits(rq[r], "notion")
      BY <1>q, <1>1 DEF FindTemplateJob, Fits
    <3>2. QED
      BY <1>q, <1>a, <2>1, <2>2, <3>1, OneGoes DEF TypeInv
  <2>3. CASE Answer(r)
    BY <1>q, <2>1, <2>3, OneAnswers DEF TypeInv
  <2>4. QED
    BY <1>1, <2>2, <2>3 DEF FindTemplateJob
<1>2. CASE NeedToken(r)
  <2>1. TypeOK' /\ SnapsStay
    BY <1>q, <1>2, TablesStay DEF NeedToken, ReadOnly
  <2>0. rq[r].op \in {"template", "places"}
    BY <1>q, <1>2 DEF NeedToken, Fits
  <2>2. CASE Answer(r)
    BY <1>q, <2>1, <2>2, OneAnswers DEF TypeInv
  <2>3. ASSUME NEW t \in Targets, rq[r].op # "places" => t \in Sources,
               Keep(r, [rq[r] EXCEPT !.t = t], "target")
        PROVE  RequestInv'
    <3>q. PICK q : q = [rq[r] EXCEPT !.t = t]
      OBVIOUS
    <3>1. q \in Request /\ q.op = rq[r].op /\ q.t = t
      BY <1>q, <3>q DEF Request, Or
    <3>2. Fits(q, "target")
      BY <2>0, <2>3, <3>1 DEF Fits
    <3>3. Keep(r, q, "target")
      BY <2>3, <3>q
    <3>4. QED
      BY <1>q, <1>a, <2>1, <3>1, <3>2, <3>3, OneMoves
  <2>4. QED
    BY <1>2, <1>s, <2>1, <2>2, <2>3 DEF NeedToken, TypeInv
<1>3. ASSUME SnapsStay, rq[r].at \in {"target", "newtarget"}, rq[r].op \in {"template", "places"},
             Sync(r, rq[r], rq[r].t, AfterSync(rq[r].op))
      PROVE  RequestInv'
  <2>0. rq[r].t \in Targets
    BY <1>q, <1>s, <1>3 DEF Fits
  <2>1. AfterSync(rq[r].op) \in {"job", "trigger"}
        /\ (rq[r].op = "template" => AfterSync(rq[r].op) = "trigger")
        /\ (rq[r].op = "places" => AfterSync(rq[r].op) = "job")
    BY <1>3 DEF AfterSync
  <2>q. PICK q : q = [rq[r] EXCEPT !.t = rq[r].t, !.back = AfterSync(rq[r].op)]
    OBVIOUS
  <2>2. q \in Request /\ q.op = rq[r].op /\ q.t = rq[r].t /\ q.back = AfterSync(rq[r].op)
    BY <1>q, <1>a, <2>1, <2>q DEF Request
  <2>3. Fits(q, "sync")
    BY <1>3, <2>0, <2>1, <2>2 DEF Fits
  <2>4. Keep(r, q, "sync")
    BY <1>3, <2>q DEF Sync
  <2>5. QED
    BY <1>q, <1>a, <1>3, <2>2, <2>3, <2>4, OneMoves
<1>4. CASE FindTarget(r)
  <2>1. TypeOK' /\ SnapsStay
    BY <1>q, <1>4, TablesStay DEF FindTarget, ReadOnly
  <2>0. rq[r].at = "target" /\ rq[r].op \in {"template", "places"}
    BY <1>4 DEF FindTarget
  <2>2. CASE Sync(r, rq[r], rq[r].t, AfterSync(rq[r].op))
    BY <1>3, <2>0, <2>1, <2>2 DEF TypeInv
  <2>3. CASE Answer(r)
    BY <1>q, <2>1, <2>3, OneAnswers DEF TypeInv
  <2>4. CASE rq[r].op # "places" /\ Goto(r, "newtarget")
    <3>1. Fits(rq[r], "newtarget")
      BY <1>q, <2>0, <2>4 DEF Fits
    <3>2. QED
      BY <1>q, <1>a, <2>1, <2>4, <3>1, OneGoes DEF TypeInv
  <2>5. QED
    BY <1>4, <2>2, <2>3, <2>4 DEF FindTarget
<1>5. CASE NewTarget(r)
  <2>0. rq[r].at = "newtarget" /\ rq[r].op = "template" /\ rq[r].t \in Sources
    BY <1>q, <1>5 DEF NewTarget, Fits
  <2>v. PICK v \in Target : v = [source |-> rq[r].t, schema |-> Null]
    BY <2>0 DEF Target, Or
  <2>1. TypeOK' /\ SnapsStay
    BY <1>q, <1>5, <2>v, TargetTyped DEF NewTarget
  <2>2. QED
    BY <1>3, <1>5, <2>0, <2>1 DEF NewTarget, TypeInv
<1>6. QED
  BY <1>1, <1>2, <1>4, <1>5 DEF TemplateStep

LEMMA PipelineSteps ==
    ASSUME TypeInv, NEW r \in Requests, PipelineStep(r)
    PROVE  TypeInv'
<1> USE DEF InSync, WithRow, WithSource, Provisioning, Linking, MakesJob, Starter
<1>q. TypeOK /\ RequestInv /\ rq[r] \in Request /\ Fits(rq[r], rq[r].at)
  BY DEF TypeInv, RequestInv
<1>t. /\ trigger \in [Minted -> Or(Trigger)] /\ job \in [Minted -> Or(Job)]
      /\ links \subseteq Linkable /\ limited \in BOOLEAN
  BY <1>q DEF TypeOK, Linkable
<1>a. {"target", "count", "job", "update", "write"} \subseteq Labels
  BY DEF Labels
<1>1. CASE CheckTrigger(r) \/ CheckTarget(r) \/ CheckLimit(r) \/ FindJob(r)
  <2>1. TypeOK' /\ SnapsStay
    BY <1>q, <1>1, TablesStay DEF CheckTrigger, CheckTarget, CheckLimit, FindJob, ReadOnly
  <2>2. \/ Answer(r)
        \/ Reach(r, "create", "trigger") /\ Goto(r, "target")
        \/ Reach(r, "create", "target") /\ Goto(r, "count")
        \/ Reach(r, "create", "count") /\ Goto(r, "job")
        \/ rq[r].at = "find" /\ Goto(r, "update")
    BY <1>1 DEF CheckTrigger, CheckTarget, CheckLimit, FindJob
  <2>3. CASE Answer(r)
    BY <1>q, <2>1, <2>3, OneAnswers DEF TypeInv
  <2>4. CASE Reach(r, "create", "trigger") /\ Goto(r, "target")
    <3>1. Fits(rq[r], "target")
      BY <1>q, <2>4 DEF Reach, Fits
    <3>2. QED
      BY <1>q, <1>a, <2>1, <2>4, <3>1, OneGoes DEF TypeInv
  <2>5. CASE Reach(r, "create", "target") /\ Goto(r, "count")
    <3>1. Fits(rq[r], "count")
      BY <1>q, <2>5 DEF Reach, Fits
    <3>2. QED
      BY <1>q, <1>a, <2>1, <2>5, <3>1, OneGoes DEF TypeInv
  <2>6. CASE Reach(r, "create", "count") /\ Goto(r, "job")
    <3>1. Fits(rq[r], "job")
      BY <1>q, <2>6 DEF Reach, Fits
    <3>2. QED
      BY <1>q, <1>a, <2>1, <2>6, <3>1, OneGoes DEF TypeInv
  <2>7. CASE rq[r].at = "find" /\ Goto(r, "update")
    <3>1. Fits(rq[r], "update")
      BY <1>q, <2>7 DEF Fits
    <3>2. QED
      BY <1>q, <1>a, <2>1, <2>7, <3>1, OneGoes DEF TypeInv
  <2>8. QED
    BY <2>2, <2>3, <2>4, <2>5, <2>6, <2>7
<1>2. CASE UpdateJob(r)
  <2>0. rq[r].job \in Minted
    BY <1>q, <1>2 DEF UpdateJob, Fits
  <2>x. PICK x \in Minted : x = rq[r].job
    BY <2>0
  <2>1. TypeOK' /\ SnapsStay
    <3>1. CASE Exists(job, x)
      <4>1. job[x] \in Job
        BY <1>t, <3>1 DEF Exists, Or
      <4>v. PICK v \in Job : v = [job[x] EXCEPT !.active = (rq[r].op = "status")]
        BY <4>1 DEF Job
      <4>2. job' = [job EXCEPT ![x] = v] /\ UNCHANGED <<trigger, links, limited>> /\ OnlyPipelines
        BY <1>2, <2>x, <3>1, <4>v DEF UpdateJob
      <4>3. QED
        BY <1>q, <1>t, <4>2, JobTyped, PipelinesTyped
    <3>2. CASE ~Exists(job, x)
      <4>1. UNCHANGED <<trigger, job, links, limited>> /\ OnlyPipelines
        BY <1>2, <2>x, <3>2 DEF UpdateJob
      <4>2. QED
        BY <1>q, <1>t, <4>1, PipelinesTyped DEF Linkable, Exists
    <3>3. QED
      BY <3>1, <3>2
  <2>2. QED
    BY <1>q, <1>2, <2>1, OneAnswers DEF UpdateJob, TypeInv
<1>3. CASE ReadTrigger(r)
  <2>1. TypeOK' /\ SnapsStay
    BY <1>q, <1>3, TablesStay DEF ReadTrigger, ReadOnly
  <2>0. rq[r].op \in {"patch", "rotate", "remove"} /\ rq[r].trig \in Minted
    BY <1>q, <1>3 DEF ReadTrigger, Fits
  <2>2. CASE Answer(r)
    BY <1>q, <2>1, <2>2, OneAnswers DEF TypeInv
  <2>3. CASE Exists(trigger, rq[r].trig)
    <3>q. PICK q : q = [rq[r] EXCEPT !.trow = trigger[rq[r].trig]]
      OBVIOUS
    <3>r. trigger[rq[r].trig] \in Trigger
      BY <1>t, <2>0, <2>3 DEF Exists, Or
    <3>1. q \in Request /\ q.op = rq[r].op /\ q.trig = rq[r].trig /\ q.trow \in Trigger
      BY <1>q, <3>q, <3>r DEF Request, Or
    <3>2. Fits(q, "write")
      BY <2>0, <3>1 DEF Fits
    <3>3. Keep(r, q, "write")
      BY <1>3, <2>3, <3>q DEF ReadTrigger
    <3>4. QED
      BY <1>q, <1>a, <2>1, <3>1, <3>2, <3>3, OneMoves DEF TypeInv
  <2>4. QED
    BY <1>3, <2>2, <2>3 DEF ReadTrigger
<1>4. CASE SaveTrigger(r)
  <2>0. rq[r].trig \in Minted /\ rq[r].trow \in Trigger
    BY <1>q, <1>4 DEF SaveTrigger, Fits
  <2>v. PICK v : v = IF rq[r].op = "rotate" THEN [rq[r].trow EXCEPT !.secret = r] ELSE rq[r].trow
    OBVIOUS
  <2>1. v \in Trigger
    BY <2>0, <2>v DEF Trigger, Minted
  <2>2. /\ PutTrigger(rq[r].trig, v) \/ trigger' = trigger
        /\ UNCHANGED <<job, links, limited>> /\ OnlyPipelines
    BY <1>4, <2>v DEF SaveTrigger, TriggerRefused
  <2>3. TypeOK' /\ SnapsStay
    <3>1. CASE PutTrigger(rq[r].trig, v)
      BY <1>q, <1>t, <2>0, <2>1, <2>2, <3>1, TriggerTyped, PipelinesTyped
    <3>2. CASE trigger' = trigger
      BY <1>q, <1>t, <2>2, <3>2, PipelinesTyped DEF Linkable, Exists
    <3>3. QED
      BY <2>2, <3>1, <3>2
  <2>4. QED
    BY <1>q, <1>4, <2>3, OneAnswers DEF SaveTrigger, TypeInv
<1>5. CASE RemoveTrigger(r)
  <2>0. rq[r].trig \in Minted
    BY <1>q, <1>5 DEF RemoveTrigger, Reach, Fits
  <2>1. TypeOK' /\ SnapsStay
    BY <1>q, <1>t, <1>5, <2>0, TriggerTyped, PipelinesTyped DEF RemoveTrigger
  <2>2. QED
    BY <1>q, <1>5, <2>1, OneAnswers DEF RemoveTrigger, TypeInv
<1>6. CASE SaveGraph(r)
  <2>0. rq[r].job \in Minted
    BY <1>q, <1>6 DEF SaveGraph, Reach, Fits
  <2>1. TypeOK' /\ SnapsStay
    <3>1. CASE job' = job
      BY <1>q, <1>t, <1>6, <3>1, PipelinesTyped DEF SaveGraph, Linkable, Exists
    <3>2. CASE job' # job
      <4>1. PICK row \in Graphs : job' = [job EXCEPT ![rq[r].job] = row]
        BY <1>6, <3>2 DEF SaveGraph
      <4>2. row \in Job
        BY ResourcesAssumption
      <4>3. UNCHANGED <<trigger, links, limited>> /\ OnlyPipelines
        BY <1>6 DEF SaveGraph
      <4>4. QED
        BY <1>q, <1>t, <2>0, <4>1, <4>2, <4>3, JobTyped, PipelinesTyped
    <3>3. QED
      BY <3>1, <3>2
  <2>2. QED
    BY <1>q, <1>6, <2>1, OneAnswers DEF SaveGraph, TypeInv
<1>7. QED
  BY <1>1, <1>2, <1>3, <1>4, <1>5, <1>6 DEF PipelineStep

-----------------------------------------------------------------------------
(* A request begins. *)

(* What the record of a new request adds to that of an idle one. *)
LEMMA OneBegins ==
    ASSUME TypeInv, NEW r \in Requests, NEW q \in Request, Fits(q, q.at), Begin(r, q),
           q.at # "deactivate"
    PROVE  TypeInv'
<1>1. TypeOK' /\ SnapsStay
  BY TablesStay DEF TypeInv, Begin
<1>2. rq' = [rq EXCEPT ![r] = q]
  BY DEF Begin
<1>3. QED
  BY <1>1, <1>2, OneBecomes DEF TypeInv

LEMMA ArriveSteps ==
    ASSUME TypeInv, NEW r \in Requests, Arrive(r)
    PROVE  TypeInv'
<1> USE DEF InSync, WithRow, WithSource, Provisioning, Linking, MakesJob, Starter
<1>q. TypeOK /\ RequestInv
  BY DEF TypeInv
<1>i. /\ Idle \in Request /\ Idle.back = "idle" /\ Idle.todo = <<>>
  BY IdleTyped DEF Idle
<1>o. {"oauth", "callback", "disconnect", "refresh", "select", "schema", "fire", "reprovision",
       "template", "places", "create", "put", "archive", "status", "trigger", "patch",
       "rotate", "remove"} \subseteq Ops
  BY DEF Ops
<1>a. {"done", "state", "instance", "search", "sources", "sync", "limits", "starter", "jobs",
       "trigger", "graph", "find", "read"} \subseteq Labels
  BY DEF Labels
<1>1. CASE StartOAuth(r)
  <2>1. r \in States
    BY DEF States
  <2>2. TypeOK' /\ SnapsStay
    BY <1>q, <1>1, <2>1
       DEF StartOAuth, OnlyConnection, TypeOK, SnapsStay, schemas, pipelines, Exists
  <2>q. PICK q : q = [Idle EXCEPT !.op = "oauth", !.at = "done"]
    OBVIOUS
  <2>3. q \in Request /\ q.at = "done"
    BY <1>i, <1>o, <1>a, <2>q DEF Request
  <2>4. Fits(q, q.at)
    BY <2>3 DEF Fits
  <2>5. rq' = [rq EXCEPT ![r] = q]
    BY <1>1, <2>q DEF StartOAuth
  <2>6. QED
    BY <1>q, <2>2, <2>3, <2>4, <2>5, OneBecomes DEF TypeInv
<1>2. CASE CreateTrigger(r)
  <2>2. TypeOK' /\ SnapsStay
    BY <1>q, <1>2, TablesStay DEF CreateTrigger, ReadOnly
  <2>q. PICK q : q = [Idle EXCEPT !.op = "trigger", !.at = "done"]
    OBVIOUS
  <2>3. q \in Request /\ q.at = "done"
    BY <1>i, <1>o, <1>a, <2>q DEF Request
  <2>4. Fits(q, q.at)
    BY <2>3 DEF Fits
  <2>5. rq' = [rq EXCEPT ![r] = q]
    BY <1>2, <2>q DEF CreateTrigger
  <2>6. QED
    BY <1>q, <2>2, <2>3, <2>4, <2>5, OneBecomes DEF TypeInv
<1>3. CASE Callback(r)
  <2>1. PICK s \in States : Begin(r, [Idle EXCEPT !.op = "callback", !.at = "state", !.old = s])
    BY <1>3 DEF Callback
  <2>q. PICK q : q = [Idle EXCEPT !.op = "callback", !.at = "state", !.old = s]
    OBVIOUS
  <2>2. q \in Request /\ q.op = "callback" /\ q.at = "state" /\ q.old = s
    BY <1>i, <1>o, <1>a, <2>q DEF Request, Or
  <2>3. Fits(q, q.at)
    BY <2>2 DEF Fits
  <2>4. QED
    BY <2>1, <2>q, <2>2, <2>3, OneBegins
<1>4. CASE Disconnect(r)
  <2>q. PICK q : q = [Idle EXCEPT !.op = "disconnect", !.at = "instance"]
    OBVIOUS
  <2>2. q \in Request /\ q.op = "disconnect" /\ q.at = "instance"
    BY <1>i, <1>o, <1>a, <2>q DEF Request
  <2>3. Fits(q, q.at)
    BY <2>2 DEF Fits
  <2>4. QED
    BY <1>4, <2>q, <2>2, <2>3, OneBegins DEF Disconnect
<1>5. CASE RefreshSources(r)
  <2>q. PICK q : q = [Idle EXCEPT !.op = "refresh", !.at = "search"]
    OBVIOUS
  <2>2. q \in Request /\ q.op = "refresh" /\ q.at = "search"
    BY <1>i, <1>o, <1>a, <2>q DEF Request
  <2>3. Fits(q, q.at)
    BY <2>2 DEF Fits
  <2>4. QED
    BY <1>5, <2>q, <2>2, <2>3, OneBegins DEF RefreshSources
<1>6. CASE SelectSources(r)
  <2>1. PICK b \in Bodies : Begin(r, [Idle EXCEPT !.op = "select", !.at = "sources", !.todo = b])
    BY <1>6 DEF SelectSources
  <2>q. PICK q : q = [Idle EXCEPT !.op = "select", !.at = "sources", !.todo = b]
    OBVIOUS
  <2>b. b \in Todos
    BY ResourcesAssumption DEF Todos
  <2>2. q \in Request /\ q.op = "select" /\ q.at = "sources" /\ q.todo = b
    BY <1>i, <1>o, <1>a, <2>q, <2>b DEF Request
  <2>3. Fits(q, q.at)
    BY <2>2 DEF Fits
  <2>4. QED
    BY <2>1, <2>q, <2>2, <2>3, OneBegins
<1>7. CASE RefreshSchema(r)
  <2>1. PICK t \in Targets : Begin(r, [Idle EXCEPT !.op = "schema", !.at = "sync", !.t = t])
    BY <1>7 DEF RefreshSchema
  <2>q. PICK q : q = [Idle EXCEPT !.op = "schema", !.at = "sync", !.t = t]
    OBVIOUS
  <2>2. q \in Request /\ q.op = "schema" /\ q.at = "sync" /\ q.t = t
    BY <1>i, <1>o, <1>a, <2>q DEF Request, Or
  <2>3. Fits(q, q.at)
    BY <2>2 DEF Fits
  <2>4. QED
    BY <2>1, <2>q, <2>2, <2>3, OneBegins
<1>8. CASE Fire(r) \/ Reprovision(r)
  <2>1. PICK op \in {"fire", "reprovision"}, at \in {"limits", "starter"} :
            Begin(r, [Idle EXCEPT !.op = op, !.at = at])
    BY <1>8 DEF Fire, Reprovision
  <2>q. PICK q : q = [Idle EXCEPT !.op = op, !.at = at]
    OBVIOUS
  <2>2. q \in Request /\ q.op = op /\ q.at = at
    BY <1>i, <1>o, <1>a, <2>q DEF Request
  <2>3. Fits(q, q.at)
    BY <2>2 DEF Fits
  <2>4. QED
    BY <2>1, <2>q, <2>2, <2>3, OneBegins
<1>9. CASE FromTemplate(r)
  <2>1. PICK op \in {"template", "places"} : Begin(r, [Idle EXCEPT !.op = op, !.at = "jobs"])
    BY <1>9 DEF FromTemplate
  <2>q. PICK q : q = [Idle EXCEPT !.op = op, !.at = "jobs"]
    OBVIOUS
  <2>2. q \in Request /\ q.op = op /\ q.at = "jobs"
    BY <1>i, <1>o, <1>a, <2>q DEF Request
  <2>3. Fits(q, q.at)
    BY <2>2 DEF Fits
  <2>4. QED
    BY <2>1, <2>q, <2>2, <2>3, OneBegins
<1>10. CASE CreatePipeline(r)
  <2>1. PICK x \in Minted, t \in Bootstrap :
            Begin(r, [Idle EXCEPT !.op = "create", !.at = "trigger", !.trig = x, !.t = t])
    BY <1>10 DEF CreatePipeline
  <2>q. PICK q : q = [Idle EXCEPT !.op = "create", !.at = "trigger", !.trig = x, !.t = t]
    OBVIOUS
  <2>2. /\ q \in Request /\ q.op = "create" /\ q.at = "trigger" /\ q.trig = x /\ q.t = t
        /\ t \in Targets
    BY <1>i, <1>o, <1>a, <2>q DEF Request, Or, Targets
  <2>3. Fits(q, q.at)
    BY <2>2 DEF Fits
  <2>4. QED
    BY <2>1, <2>q, <2>2, <2>3, OneBegins
<1>11. CASE SavePipeline(r)
  <2>1. PICK x \in {r} \cup Minted :
            Begin(r, [Idle EXCEPT !.op = "put", !.at = "graph", !.job = x])
    BY <1>11 DEF SavePipeline
  <2>x. x \in Minted
    BY DEF Minted
  <2>q. PICK q : q = [Idle EXCEPT !.op = "put", !.at = "graph", !.job = x]
    OBVIOUS
  <2>2. q \in Request /\ q.op = "put" /\ q.at = "graph" /\ q.job = x
    BY <1>i, <1>o, <1>a, <2>x, <2>q DEF Request, Or
  <2>3. Fits(q, q.at)
    BY <2>x, <2>2 DEF Fits
  <2>4. QED
    BY <2>1, <2>q, <2>2, <2>3, OneBegins
<1>12. CASE ChangePipeline(r)
  <2>1. PICK x \in Minted, op \in {"archive", "status"} :
            Begin(r, [Idle EXCEPT !.op = op, !.at = "find", !.job = x])
    BY <1>12 DEF ChangePipeline
  <2>q. PICK q : q = [Idle EXCEPT !.op = op, !.at = "find", !.job = x]
    OBVIOUS
  <2>2. q \in Request /\ q.op = op /\ q.at = "find" /\ q.job = x
    BY <1>i, <1>o, <1>a, <2>q DEF Request, Or
  <2>3. Fits(q, q.at)
    BY <2>2 DEF Fits
  <2>4. QED
    BY <2>1, <2>q, <2>2, <2>3, OneBegins
<1>13. CASE EditTrigger(r)
  <2>1. PICK x \in Minted, op \in {"patch", "rotate", "remove"} :
            Begin(r, [Idle EXCEPT !.op = op, !.at = "read", !.trig = x])
    BY <1>13 DEF EditTrigger
  <2>q. PICK q : q = [Idle EXCEPT !.op = op, !.at = "read", !.trig = x]
    OBVIOUS
  <2>2. q \in Request /\ q.op = op /\ q.at = "read" /\ q.trig = x
    BY <1>i, <1>o, <1>a, <2>q DEF Request, Or
  <2>3. Fits(q, q.at)
    BY <2>2 DEF Fits
  <2>4. QED
    BY <2>1, <2>q, <2>2, <2>3, OneBegins
<1>14. QED
  BY <1>1, <1>2, <1>3, <1>4, <1>5, <1>6, <1>7, <1>8, <1>9, <1>10, <1>11, <1>12,
     <1>13 DEF Arrive

LEMMA FaultStep ==
    ASSUME TypeInv, NEW r \in Requests, Fault(r)
    PROVE  TypeInv'
<1>q. TypeOK /\ RequestInv
  BY DEF TypeInv
<1>1. faults' \in 0..MaxFaults
  BY <1>q, OwnerAssumption DEF Fault, TypeOK
<1>2. TypeOK' /\ SnapsStay
  BY <1>q, <1>1 DEF Fault, TypeOK, SnapsStay, connection, schemas, pipelines, Exists
<1>3. CASE Syncing(r) /\ SyncEnds(r)
  <2>1. rq[r].at \in InSync
    BY <1>3 DEF Syncing, InSync
  <2>2. QED
    BY <1>q, <1>2, <1>3, <2>1, OneEndsSync DEF TypeInv
<1>4. CASE Answer(r)
  BY <1>q, <1>2, <1>4, OneAnswers DEF TypeInv
<1>5. QED
  BY <1>3, <1>4 DEF Fault

LEMMA ExpireStep ==
    ASSUME TypeInv, NEW s \in States, Expire(s)
    PROVE  TypeInv'
BY DEF TypeInv, Expire, OnlyConnection, TypeOK, RequestInv, schemas, pipelines, Exists

LEMMA HandleIs ==
    ASSUME NEW r, Handle(r)
    PROVE  \/ ConnectionStep(r) \/ SelectStep(r) \/ LinkStep(r)
           \/ StarterStep(r) \/ TemplateStep(r) \/ PipelineStep(r)
BY Zenon DEF Handle, ConnectionStep, SelectStep, LinkStep, StarterStep, TemplateStep, PipelineStep

LEMMA HandleSteps ==
    ASSUME TypeInv, NEW r \in Requests, Handle(r)
    PROVE  TypeInv'
BY HandleIs, ConnectionSteps, SelectSteps, LinkSteps, StarterSteps, TemplateSteps, PipelineSteps

LEMMA NextTypeInv == TypeInv /\ [Next]_ownerVars => TypeInv'
<1> SUFFICES ASSUME TypeInv, [Next]_ownerVars PROVE TypeInv'
  OBVIOUS
<1>1. ASSUME NEW r \in Requests, Arrive(r) PROVE TypeInv'
  BY <1>1, ArriveSteps
<1>2. ASSUME NEW r \in Requests, Handle(r) PROVE TypeInv'
  BY <1>2, HandleSteps
<1>3. ASSUME NEW r \in Requests, SchemaSync(r) PROVE TypeInv'
  BY <1>3, SyncSteps
<1>4. ASSUME NEW r \in Requests, Fault(r) PROVE TypeInv'
  BY <1>4, FaultStep
<1>5. ASSUME NEW s \in States, Expire(s) PROVE TypeInv'
  BY <1>5, ExpireStep
<1>6. CASE UNCHANGED ownerVars
  BY <1>6 DEF ownerVars, TypeInv, TypeOK, RequestInv, connection, schemas, pipelines, Exists
<1>7. QED
  BY <1>1, <1>2, <1>3, <1>4, <1>5, <1>6 DEF Next

LEMMA InitTypeInv == Init => TypeInv
<1> SUFFICES ASSUME Init PROVE TypeInv
  OBVIOUS
<1>r. RequestInv
  <2>1. rq = [r \in Requests |-> Idle] /\ Idle \in Request /\ Idle.at = "idle"
    BY IdleTyped DEF Init, Idle
  <2>2. Fits(Idle, "idle")
    BY DEF Fits, InSync, WithRow, WithSource, Provisioning, Linking
  <2>3. QED
    BY <2>1, <2>2 DEF RequestInv
<1>s. PICK s \in Starts :
          LET synced == {t \in DOMAIN s.targets : s.targets[t] \in Sources}
              starter == {x \in {"starter"} : s.starter # "none"}
          IN  /\ instance = s.instance /\ credential = s.credential
              /\ state = [x \in States |-> IF x = "earlier" THEN s.state ELSE "none"]
              /\ known = s.known
              /\ target = [t \in Targets |-> IF t \notin DOMAIN s.targets THEN Null
                    ELSE [source |-> s.targets[t],
                          schema |-> IF t \in synced THEN <<t, "earlier">> ELSE Null]]
              /\ snap = [x \in Snaps |-> IF x \notin synced \X {"earlier"} THEN Null
                    ELSE [source |-> s.targets[x[1]], by |-> "token", active |-> TRUE]]
              /\ trigger = [x \in Minted |-> IF x \notin starter THEN Null
                    ELSE [path |-> "/locations", secret |-> "starter"]]
              /\ job = [x \in Minted |-> IF x \notin starter THEN Null
                    ELSE [name |-> "starter", target |-> "places",
                          active |-> s.starter = "active"]]
              /\ links = starter \X starter
              /\ limited = (starter # {})
  BY DEF Init
<1> DEFINE synced == {t \in DOMAIN s.targets : s.targets[t] \in Sources}
           starter == {x \in {"starter"} : s.starter # "none"}
<1>a. /\ s.instance \in Auth /\ s.credential \in {"none", "live", "revoked"}
      /\ s.state \in {"none", "open", "used", "late"} /\ s.known \subseteq Sources
      /\ DOMAIN s.targets \subseteq Targets
      /\ \A t \in DOMAIN s.targets : s.targets[t] \in Sources \cup {Placeholder}
  BY StartsAssumption DEF Auth
<1>1. /\ instance \in Auth /\ credential \in {"none", "live", "revoked"}
      /\ state \in [States -> {"none", "open", "used", "late"}] /\ known \subseteq Sources
  BY <1>s, <1>a
<1>2. target \in [Targets -> Or(Target)]
  <2>1. ASSUME NEW t \in Targets, t \in DOMAIN s.targets
        PROVE  [source |-> s.targets[t],
                schema |-> IF t \in synced THEN <<t, "earlier">> ELSE Null] \in Target
    BY <1>a, <2>1 DEF Target, Snaps, States, Or
  <2>2. target = [t \in Targets |-> IF t \notin DOMAIN s.targets THEN Null
                    ELSE [source |-> s.targets[t],
                          schema |-> IF t \in synced THEN <<t, "earlier">> ELSE Null]]
    BY <1>s
  <2> HIDE DEF synced
  <2>3. QED
    BY <2>1, <2>2 DEF Or
<1>3. snap \in [Snaps -> Or(Snapshot)]
  <2>1. ASSUME NEW x \in synced \X {"earlier"}
        PROVE  [source |-> s.targets[x[1]], by |-> "token", active |-> TRUE] \in Snapshot
    BY <2>1 DEF Snapshot
  <2>2. snap = [x \in Snaps |-> IF x \notin synced \X {"earlier"} THEN Null
                    ELSE [source |-> s.targets[x[1]], by |-> "token", active |-> TRUE]]
    BY <1>s
  <2> HIDE DEF synced
  <2>3. QED
    BY <2>1, <2>2 DEF Or
<1>4. /\ trigger \in [Minted -> Or(Trigger)] /\ job \in [Minted -> Or(Job)]
      /\ links \subseteq {l \in Minted \X Minted : Exists(trigger, l[1]) /\ Exists(job, l[2])}
  <2>1. "starter" \in Minted /\ "places" \in Targets
    BY DEF Minted, Targets, Bootstrap
  <2>v. PICK v \in Trigger : v = [path |-> "/locations", secret |-> "starter"]
    BY <2>1 DEF Trigger, Paths
  <2>b. PICK b \in BOOLEAN : b = (s.starter = "active")
    BY Zenon
  <2>j. PICK w \in Job : w = [name |-> "starter", target |-> "places", active |-> b]
    BY <2>1 DEF Job
  <2>w. w = [name |-> "starter", target |-> "places", active |-> s.starter = "active"]
    BY <2>b, <2>j
  <2>2. /\ trigger = [x \in Minted |-> IF x \notin starter THEN Null ELSE v]
        /\ job = [x \in Minted |-> IF x \notin starter THEN Null ELSE w]
        /\ links = starter \X starter
    BY <1>s, <2>v, <2>w
  <2>3. starter \subseteq Minted
    BY <2>1
  <2> HIDE DEF starter
  <2>4. trigger \in [Minted -> Or(Trigger)] /\ job \in [Minted -> Or(Job)]
    BY <2>2 DEF Or
  <2>5. v # Null /\ w # Null
    BY NullIsNoRow
  <2>6. QED
    BY <2>2, <2>3, <2>4, <2>5 DEF Exists
<1>5. limited \in BOOLEAN /\ faults \in 0..MaxFaults
  BY <1>s, OwnerAssumption DEF Init
<1>6. QED
  BY <1>r, <1>1, <1>2, <1>3, <1>4, <1>5 DEF TypeInv, TypeOK, Auth

LEMMA AlwaysTyped == Spec => []TypeInv
BY InitTypeInv, NextTypeInv, PTL DEF Spec

(* Whatever requests of an owner overlap and whichever of their calls fail,  *)
(* the rows are of their kinds and every link of a trigger to a job is       *)
(* between rows that exist: a job or a trigger is deleted with its links     *)
(* (delete_trigger_definition, the foreign keys of trigger_job_links).       *)
THEOREM OwnerTypeCorrect == Spec => []TypeOK
<1>1. TypeInv => TypeOK
  BY DEF TypeInv
<1>2. QED
  BY <1>1, AlwaysTyped, PTL

-----------------------------------------------------------------------------
(* The requests that were open together. *)

(* An operation is chosen once, and two requests that are open know of each  *)
(* other.                                                                    *)
HistoryInv ==
    /\ met \in [Requests -> SUBSET Requests]
    /\ \A r \in Requests : rq[r].op = "none" => rq[r].at = "idle"
    /\ \A r, x \in Open : r # x => x \in met[r]

(* A request that works on what it was asked. *)
Works(r) ==
    /\ r \in Open
    /\ rq'[r].op = rq[r].op
    /\ \A s \in Requests : s # r => rq'[s] = rq[s]

LEMMA WorksOn ==
    ASSUME TypeInv, NEW r \in Requests, rq[r].at \notin {"idle", "done"}
    PROVE  /\ \A at : Goto(r, at) => Works(r)
           /\ \A q, at : "op" \in DOMAIN q /\ q.op = rq[r].op /\ Keep(r, q, at) => Works(r)
           /\ Answer(r) => Works(r)
           /\ SyncEnds(r) => Works(r)
<1>q. rq \in [Requests -> Request] /\ rq[r] \in Request /\ r \in Open
  BY DEF TypeInv, RequestInv, Open
<1>1. ASSUME NEW at, Goto(r, at) PROVE Works(r)
  BY <1>q, <1>1 DEF Goto, Works, Request
<1>2. ASSUME NEW q, NEW at, "op" \in DOMAIN q, q.op = rq[r].op, Keep(r, q, at) PROVE Works(r)
  BY <1>q, <1>2 DEF Keep, Works
<1>3. ASSUME Answer(r) PROVE Works(r)
  <2>q. PICK q : q = [Idle EXCEPT !.op = rq[r].op, !.at = "done"]
    OBVIOUS
  <2>1. q.op = rq[r].op
    BY <2>q, IdleTyped DEF Request
  <2>2. rq' = [rq EXCEPT ![r] = q]
    BY <1>3, <2>q DEF Answer
  <2>3. QED
    BY <1>q, <2>1, <2>2 DEF Works
<1>4. ASSUME SyncEnds(r) PROVE Works(r)
  <2>q. PICK q : q = [rq[r] EXCEPT !.row = Null, !.old = Null, !.src = Null, !.by = "token"]
    OBVIOUS
  <2>1. "op" \in DOMAIN q /\ q.op = rq[r].op
    BY <1>q, <2>q DEF Request
  <2>2. CASE Keep(r, q, rq[r].back)
    BY <1>2, <2>1, <2>2
  <2>3. QED
    BY <1>3, <1>4, <2>q, <2>2 DEF SyncEnds
<1>5. QED
  BY <1>1, <1>2, <1>3, <1>4

(* What a request is after a step, and where it stands. *)
LEMMA Holds ==
    ASSUME TypeInv, NEW r \in Requests
    PROVE  /\ \A at : Goto(r, at) => rq'[r] = [rq[r] EXCEPT !.at = at]
           /\ \A q, at : Keep(r, q, at) => rq'[r] = [q EXCEPT !.at = at]
BY DEF TypeInv, RequestInv, Goto, Keep

LEMMA Lands ==
    ASSUME TypeInv, NEW r \in Requests
    PROVE  /\ Answer(r) => rq'[r].at = "done"
           /\ \A at : Goto(r, at) => rq'[r].at = at
           /\ \A q, at : "at" \in DOMAIN q /\ Keep(r, q, at) => rq'[r].at = at
<1>q. rq \in [Requests -> Request] /\ rq[r] \in Request /\ Idle \in Request
  BY IdleTyped DEF TypeInv, RequestInv
<1>1. ASSUME Answer(r) PROVE rq'[r].at = "done"
  <2>q. PICK q : q = [Idle EXCEPT !.op = rq[r].op, !.at = "done"]
    OBVIOUS
  <2>1. q.at = "done"
    BY <1>q, <2>q DEF Request
  <2>2. rq'[r] = q
    BY <1>q, <1>1, <2>q DEF Answer
  <2>3. QED
    BY <2>1, <2>2
<1>2. ASSUME NEW at, Goto(r, at) PROVE rq'[r].at = at
  BY <1>q, <1>2 DEF Goto, Request
<1>3. ASSUME NEW q, NEW at, "at" \in DOMAIN q, Keep(r, q, at) PROVE rq'[r].at = at
  BY <1>q, <1>3 DEF Keep
<1>4. QED
  BY <1>1, <1>2, <1>3

(* What the steps of a request leave alone. *)
LEMMA ConnectionWorks ==
    ASSUME TypeInv, NEW r \in Requests, ConnectionStep(r)
    PROVE  Works(r) /\ UNCHANGED <<schemas, pipelines, met, faults>>
<1> USE DEF ConnectionStep, FindState, ConsumeState, UpsertCredential, ReadInstance, SaveInstance,
            RevokeCredential, SearchSources, UpsertSources
<1>q. rq[r] \in Request /\ rq[r].at \notin {"idle", "done"}
  BY DEF TypeInv, RequestInv, Reach
<1>1. UNCHANGED <<schemas, pipelines, met, faults>>
  BY DEF ReadOnly, OnlyConnection
<1>2. Works(r)
  BY <1>q, WorksOn DEF Request
<1>3. QED
  BY <1>1, <1>2

LEMMA SyncWorks ==
    ASSUME TypeInv, NEW r \in Requests, SchemaSync(r)
    PROVE  Works(r) /\ UNCHANGED <<connection, pipelines, met, faults>>
<1> USE DEF SchemaSync, SyncTarget, SyncConnector, SyncToken, SyncFetch, SyncList,
            SyncDeactivate, SyncInsert, SyncAttach, FetchByName
<1>q. rq[r] \in Request /\ rq[r].at \notin {"idle", "done"}
  BY DEF TypeInv, RequestInv
<1>1. UNCHANGED <<connection, pipelines, met, faults>>
  BY DEF ReadOnly, OnlySchemas
<1>2. Works(r)
  BY <1>q, WorksOn DEF Request
<1>3. QED
  BY <1>1, <1>2

LEMMA SelectWorks ==
    ASSUME TypeInv, NEW r \in Requests, SelectStep(r)
    PROVE  Works(r) /\ UNCHANGED <<connection, pipelines, met, faults>>
<1> USE DEF SelectStep, ListSources, PickSource, SaveSelected, Reach
<1>q. rq[r] \in Request /\ rq[r].at \notin {"idle", "done"}
  BY DEF TypeInv, RequestInv
<1>1. UNCHANGED <<connection, pipelines, met, faults>>
  BY DEF ReadOnly, OnlySchemas
<1>2. Works(r)
  BY <1>q, WorksOn DEF Request, Sync
<1>3. QED
  BY <1>1, <1>2

LEMMA LinkWorks ==
    ASSUME TypeInv, NEW r \in Requests, LinkStep(r)
    PROVE  Works(r) /\ UNCHANGED <<connection, schemas, met, faults>>
<1> USE DEF LinkStep, SaveJob, FindTrigger, MintTrigger, ListLinks, LinkTrigger
<1>q. rq[r] \in Request /\ rq[r].at \notin {"idle", "done"}
  BY DEF TypeInv, RequestInv
<1>1. UNCHANGED <<connection, schemas, met, faults>>
  BY DEF ReadOnly, OnlyPipelines
<1>2. Works(r)
  <2>1. CASE SaveJob(r)
    <3>q. PICK q : q = [rq[r] EXCEPT !.job = IdOf(r)]
      OBVIOUS
    <3>1. "op" \in DOMAIN q /\ q.op = rq[r].op
      BY <1>q, <3>q DEF Request
    <3>2. Keep(r, q, AfterJob(rq[r].op))
      BY <2>1, <3>q
    <3>3. QED
      BY <1>q, <3>1, <3>2, WorksOn
  <2>2. CASE MintTrigger(r)
    <3>q. PICK q : q = [rq[r] EXCEPT !.trig = IdOf(r)]
      OBVIOUS
    <3>1. "op" \in DOMAIN q /\ q.op = rq[r].op
      BY <1>q, <3>q DEF Request
    <3>2. Keep(r, q, AfterTrigger(rq[r].op)) \/ Answer(r)
      BY <2>2, <3>q
    <3>3. QED
      BY <1>q, <3>1, <3>2, WorksOn
  <2>3. CASE FindTrigger(r)
    <3>1. ASSUME NEW x, Keep(r, [rq[r] EXCEPT !.trig = x], AfterTrigger(rq[r].op))
          PROVE  Works(r)
      <4>q. PICK q : q = [rq[r] EXCEPT !.trig = x]
        OBVIOUS
      <4>1. "op" \in DOMAIN q /\ q.op = rq[r].op
        BY <1>q, <4>q DEF Request
      <4>2. QED
        BY <1>q, <3>1, <4>q, <4>1, WorksOn
    <3>2. QED
      BY <1>q, <2>3, <3>1, WorksOn
  <2>4. CASE ListLinks(r) \/ LinkTrigger(r)
    BY <1>q, <2>4, WorksOn
  <2>5. QED
    BY <2>1, <2>2, <2>3, <2>4
<1>3. QED
  BY <1>1, <1>2

LEMMA StarterWorks ==
    ASSUME TypeInv, NEW r \in Requests, StarterStep(r)
    PROVE  Works(r) /\ UNCHANGED <<met, faults>>
<1> USE DEF StarterStep, ReadLimits, SeedLimits, FindStarter, DropStarterTrigger, FindStarterJob,
            DropStarterJob, ProvisionConnector, NewConnector, ProvisionTarget, NewBundledTarget
<1>q. rq[r] \in Request /\ rq[r].at \notin {"idle", "done"}
  BY DEF TypeInv, RequestInv, Reach
<1>1. UNCHANGED <<met, faults>>
  BY DEF ReadOnly, OnlyConnection, OnlySchemas, OnlyPipelines
<1>2. Works(r)
  BY <1>q, WorksOn DEF Request
<1>3. QED
  BY <1>1, <1>2

LEMMA TemplateWorks ==
    ASSUME TypeInv, NEW r \in Requests, TemplateStep(r)
    PROVE  Works(r) /\ UNCHANGED <<connection, pipelines, met, faults>>
<1> USE DEF TemplateStep, FindTemplateJob, NeedToken, FindTarget, NewTarget
<1>q. rq[r] \in Request /\ rq[r].at \notin {"idle", "done"}
  BY DEF TypeInv, RequestInv
<1>1. UNCHANGED <<connection, pipelines, met, faults>>
  BY DEF ReadOnly, OnlySchemas
<1>2. Works(r)
  BY <1>q, WorksOn DEF Request, Sync
<1>3. QED
  BY <1>1, <1>2

LEMMA PipelineWorks ==
    ASSUME TypeInv, NEW r \in Requests, PipelineStep(r)
    PROVE  Works(r) /\ UNCHANGED <<connection, schemas, met, faults>>
<1> USE DEF PipelineStep, CheckTrigger, CheckTarget, CheckLimit, SaveGraph, FindJob, UpdateJob,
            ReadTrigger, SaveTrigger, RemoveTrigger
<1>q. rq[r] \in Request /\ rq[r].at \notin {"idle", "done"}
  BY DEF TypeInv, RequestInv, Reach
<1>1. UNCHANGED <<connection, schemas, met, faults>>
  BY DEF ReadOnly, OnlyPipelines
<1>2. Works(r)
  BY <1>q, WorksOn DEF Request
<1>3. QED
  BY <1>1, <1>2

LEMMA FaultWorks ==
    ASSUME TypeInv, NEW r \in Requests, Fault(r)
    PROVE  Works(r) /\ UNCHANGED <<connection, schemas, pipelines, met>> /\ faults' > 0
<1>1. rq[r].at \notin {"idle", "done"}
  BY DEF Fault, Open
<1>2. Works(r)
  BY <1>1, WorksOn DEF Fault
<1>3. faults \in Nat
  BY OwnerAssumption DEF TypeInv, TypeOK
<1>4. QED
  BY <1>2, <1>3 DEF Fault

LEMMA HandleWorks ==
    ASSUME TypeInv, NEW r \in Requests, Handle(r)
    PROVE  Works(r) /\ UNCHANGED <<met, faults>>
BY HandleIs, ConnectionWorks, SelectWorks, LinkWorks, StarterWorks, TemplateWorks, PipelineWorks

(* A request that has just come. *)
Begins(r) ==
    /\ rq[r] = Idle
    /\ rq'[r].op # "none"
    /\ \A s \in Requests : s # r => rq'[s] = rq[s]
    /\ UNCHANGED <<schemas, pipelines, faults, instance, credential>>
    /\ \/ rq'[r].at = "done" /\ met' = met
       \/ /\ met' = [x \in Requests |-> IF x = r THEN Open
                                         ELSE IF x \in Open THEN met[x] \cup {r} ELSE met[x]]
          /\ \/ rq'[r].op = "callback" /\ rq'[r].at = "state"
             \/ rq'[r].op = "disconnect" /\ rq'[r].at = "instance"
             \/ rq'[r].op = "refresh" /\ rq'[r].at = "search"
             \/ rq'[r].op = "select" /\ rq'[r].at = "sources" /\ rq'[r].todo \in Bodies
             \/ rq'[r].op = "schema" /\ rq'[r].at = "sync" /\ rq'[r].t \in Targets
                /\ rq'[r].by = "token"
             \/ rq'[r].op = "fire" /\ rq'[r].at = "limits"
             \/ rq'[r].op = "reprovision" /\ rq'[r].at = "starter"
             \/ rq'[r].op \in {"template", "places"} /\ rq'[r].at = "jobs"
             \/ rq'[r].op = "create" /\ rq'[r].at = "trigger"
             \/ rq'[r].op = "put" /\ rq'[r].at = "graph"
             \/ rq'[r].op \in {"archive", "status"} /\ rq'[r].at = "find"
             \/ rq'[r].op \in {"patch", "rotate", "remove"} /\ rq'[r].at = "read"

LEMMA ArriveBegins ==
    ASSUME TypeInv, NEW r \in Requests, Arrive(r)
    PROVE  Begins(r)
<1>i. rq \in [Requests -> Request] /\ Idle \in Request
  BY IdleTyped DEF TypeInv, RequestInv
<1>1. ASSUME NEW q, Begin(r, q), q.op # "none",
             \/ q.op = "callback" /\ q.at = "state"
             \/ q.op = "disconnect" /\ q.at = "instance"
             \/ q.op = "refresh" /\ q.at = "search"
             \/ q.op = "select" /\ q.at = "sources" /\ q.todo \in Bodies
             \/ q.op = "schema" /\ q.at = "sync" /\ q.t \in Targets /\ q.by = "token"
             \/ q.op = "fire" /\ q.at = "limits"
             \/ q.op = "reprovision" /\ q.at = "starter"
             \/ q.op \in {"template", "places"} /\ q.at = "jobs"
             \/ q.op = "create" /\ q.at = "trigger"
             \/ q.op = "put" /\ q.at = "graph"
             \/ q.op \in {"archive", "status"} /\ q.at = "find"
             \/ q.op \in {"patch", "rotate", "remove"} /\ q.at = "read"
      PROVE  Begins(r)
  <2>1. rq'[r] = q /\ \A s \in Requests : s # r => rq'[s] = rq[s]
    BY <1>i, <1>1 DEF Begin
  <2>2. QED
    BY <1>1, <2>1 DEF Begin, Begins, connection
<1>2. CASE StartOAuth(r) \/ CreateTrigger(r)
  <2>1. PICK op \in {"oauth", "trigger"} :
            rq[r] = Idle /\ rq' = [rq EXCEPT ![r] = [Idle EXCEPT !.op = op, !.at = "done"]]
    BY <1>2 DEF StartOAuth, CreateTrigger
  <2>q. PICK q : q = [Idle EXCEPT !.op = op, !.at = "done"]
    OBVIOUS
  <2>2. q.op = op /\ q.at = "done"
    BY <1>i, <2>q DEF Request
  <2>3. rq'[r] = q /\ \A s \in Requests : s # r => rq'[s] = rq[s]
    BY <1>i, <2>1, <2>q
  <2>4. UNCHANGED <<schemas, pipelines, met, faults, instance, credential>>
    BY <1>2 DEF StartOAuth, CreateTrigger, ReadOnly, OnlyConnection, connection
  <2>5. QED
    BY <2>1, <2>2, <2>3, <2>4 DEF Begins
<1>3. CASE Callback(r)
  <2>q. PICK s \in States : Begin(r, [Idle EXCEPT !.op = "callback", !.at = "state", !.old = s])
    BY <1>3 DEF Callback
  <2>p. PICK q : q = [Idle EXCEPT !.op = "callback", !.at = "state", !.old = s]
    OBVIOUS
  <2>1. q.op = "callback" /\ q.at = "state"
    BY <1>i, <2>p DEF Request
  <2>2. QED
    BY <1>1, <2>q, <2>p, <2>1
<1>4. CASE Disconnect(r) \/ RefreshSources(r) \/ Fire(r) \/ Reprovision(r) \/ FromTemplate(r)
  <2>1. PICK op, at : /\ Begin(r, [Idle EXCEPT !.op = op, !.at = at])
                      /\ \/ op = "disconnect" /\ at = "instance"
                         \/ op = "refresh" /\ at = "search"
                         \/ op = "fire" /\ at = "limits"
                         \/ op = "reprovision" /\ at = "starter"
                         \/ op \in {"template", "places"} /\ at = "jobs"
    BY <1>4 DEF Disconnect, RefreshSources, Fire, Reprovision, FromTemplate
  <2>q. PICK q : q = [Idle EXCEPT !.op = op, !.at = at]
    OBVIOUS
  <2>2. q.op = op /\ q.at = at
    BY <1>i, <2>q DEF Request
  <2>3. QED
    BY <1>1, <2>1, <2>q, <2>2
<1>5. CASE SelectSources(r)
  <2>1. PICK b \in Bodies : Begin(r, [Idle EXCEPT !.op = "select", !.at = "sources", !.todo = b])
    BY <1>5 DEF SelectSources
  <2>q. PICK q : q = [Idle EXCEPT !.op = "select", !.at = "sources", !.todo = b]
    OBVIOUS
  <2>2. q.op = "select" /\ q.at = "sources" /\ q.todo = b
    BY <1>i, <2>q DEF Request
  <2>3. QED
    BY <1>1, <2>1, <2>q, <2>2
<1>6. CASE RefreshSchema(r)
  <2>1. PICK t \in Targets : Begin(r, [Idle EXCEPT !.op = "schema", !.at = "sync", !.t = t])
    BY <1>6 DEF RefreshSchema
  <2>q. PICK q : q = [Idle EXCEPT !.op = "schema", !.at = "sync", !.t = t]
    OBVIOUS
  <2>2. q.op = "schema" /\ q.at = "sync" /\ q.t = t /\ q.by = "token"
    BY <1>i, <2>q DEF Request, Idle
  <2>3. QED
    BY <1>1, <2>1, <2>q, <2>2
<1>7. CASE CreatePipeline(r)
  <2>1. PICK x \in Minted, t \in Bootstrap :
            Begin(r, [Idle EXCEPT !.op = "create", !.at = "trigger", !.trig = x, !.t = t])
    BY <1>7 DEF CreatePipeline
  <2>q. PICK q : q = [Idle EXCEPT !.op = "create", !.at = "trigger", !.trig = x, !.t = t]
    OBVIOUS
  <2>2. q.op = "create" /\ q.at = "trigger"
    BY <1>i, <2>q DEF Request
  <2>3. QED
    BY <1>1, <2>1, <2>q, <2>2
<1>8. CASE SavePipeline(r) \/ ChangePipeline(r)
  <2>1. PICK x, op, at : /\ Begin(r, [Idle EXCEPT !.op = op, !.at = at, !.job = x])
                         /\ \/ op = "put" /\ at = "graph"
                            \/ op \in {"archive", "status"} /\ at = "find"
    BY <1>8 DEF SavePipeline, ChangePipeline
  <2>q. PICK q : q = [Idle EXCEPT !.op = op, !.at = at, !.job = x]
    OBVIOUS
  <2>2. q.op = op /\ q.at = at
    BY <1>i, <2>q DEF Request
  <2>3. QED
    BY <1>1, <2>1, <2>q, <2>2
<1>9. CASE EditTrigger(r)
  <2>1. PICK x \in Minted, op \in {"patch", "rotate", "remove"} :
            Begin(r, [Idle EXCEPT !.op = op, !.at = "read", !.trig = x])
    BY <1>9 DEF EditTrigger
  <2>q. PICK q : q = [Idle EXCEPT !.op = op, !.at = "read", !.trig = x]
    OBVIOUS
  <2>2. q.op = op /\ q.at = "read"
    BY <1>i, <2>q DEF Request
  <2>3. QED
    BY <1>1, <2>1, <2>q, <2>2
<1>10. QED
  BY <1>2, <1>3, <1>4, <1>5, <1>6, <1>7, <1>8, <1>9 DEF Arrive

LEMMA NextHistoryInv == TypeInv /\ HistoryInv /\ [Next]_ownerVars => HistoryInv'
<1> SUFFICES ASSUME TypeInv, HistoryInv, [Next]_ownerVars PROVE HistoryInv'
  OBVIOUS
<1>h. /\ met \in [Requests -> SUBSET Requests]
      /\ \A r \in Requests : rq[r].op = "none" => rq[r].at = "idle"
      /\ \A r, x \in Open : r # x => x \in met[r]
  BY DEF HistoryInv
<1>1. ASSUME NEW r \in Requests, Works(r), met' = met PROVE HistoryInv'
  <2>1. r \in Open /\ Open' \subseteq Open
    BY <1>1 DEF Works, Open
  <2>2. \A s \in Requests : rq'[s].op = "none" => rq'[s].at = "idle"
    BY <1>h, <1>1, <2>1 DEF Works, Open
  <2>3. QED
    BY <1>h, <1>1, <2>1, <2>2 DEF HistoryInv
<1>2. ASSUME NEW r \in Requests, Begins(r) PROVE HistoryInv'
  <2>0. rq[r].at = "idle" /\ r \notin Open
    BY <1>2 DEF Begins, Idle, Open
  <2>1. Open' \subseteq Open \cup {r} /\ (rq'[r].at = "done" => Open' \subseteq Open)
    BY <1>2 DEF Begins, Open
  <2>2. \A s \in Requests : rq'[s].op = "none" => rq'[s].at = "idle"
    BY <1>h, <1>2 DEF Begins
  <2>3. CASE rq'[r].at = "done" /\ met' = met
    BY <1>h, <2>1, <2>2, <2>3 DEF HistoryInv
  <2>4. CASE met' = [x \in Requests |-> IF x = r THEN Open
                                         ELSE IF x \in Open THEN met[x] \cup {r} ELSE met[x]]
    <3>1. Open \subseteq Requests
      BY DEF Open
    <3>2. met' \in [Requests -> SUBSET Requests]
      BY <1>h, <2>4, <3>1
    <3>3. \A s, x \in Open' : s # x => x \in met'[s]
      BY <1>h, <2>0, <2>1, <2>4, <3>1
    <3>4. QED
      BY <2>2, <3>2, <3>3 DEF HistoryInv
  <2>5. QED
    BY <1>2, <2>3, <2>4 DEF Begins
<1>3. ASSUME UNCHANGED <<rq, met>> PROVE HistoryInv'
  BY <1>h, <1>3 DEF HistoryInv, Open
<1>4. ASSUME NEW r \in Requests, Arrive(r) PROVE HistoryInv'
  BY <1>2, <1>4, ArriveBegins
<1>5. ASSUME NEW r \in Requests, Handle(r) PROVE HistoryInv'
  BY <1>1, <1>5, HandleWorks
<1>6. ASSUME NEW r \in Requests, SchemaSync(r) PROVE HistoryInv'
  BY <1>1, <1>6, SyncWorks
<1>7. ASSUME NEW r \in Requests, Fault(r) PROVE HistoryInv'
  BY <1>1, <1>7, FaultWorks
<1>8. ASSUME NEW s \in States, Expire(s) PROVE HistoryInv'
  BY <1>3, <1>8 DEF Expire, OnlyConnection
<1>9. CASE UNCHANGED ownerVars
  BY <1>3, <1>9 DEF ownerVars
<1>10. QED
  BY <1>4, <1>5, <1>6, <1>7, <1>8, <1>9 DEF Next

LEMMA InitHistoryInv == Init => HistoryInv
<1> SUFFICES ASSUME Init PROVE HistoryInv
  OBVIOUS
<1>1. rq = [r \in Requests |-> Idle] /\ met = [r \in Requests |-> {}] /\ Idle.at = "idle"
  BY DEF Init, Idle
<1>2. QED
  BY <1>1 DEF HistoryInv, Open

(* An operation stays what it is, and what was met stays met. *)
Grows ==
    /\ \A r \in Requests : rq[r].op # "none" => rq'[r].op = rq[r].op /\ met[r] \subseteq met'[r]
    /\ faults > 0 => faults' > 0

LEMMA NextGrows ==
    ASSUME TypeInv, HistoryInv, [Next]_ownerVars
    PROVE  Grows
<1>h. met \in [Requests -> SUBSET Requests]
  BY DEF HistoryInv
<1>1. ASSUME NEW r \in Requests, Works(r), met' = met, faults' = faults \/ faults' > 0
      PROVE  Grows
  BY <1>1 DEF Works, Grows
<1>2. ASSUME NEW r \in Requests, Begins(r) PROVE Grows
  <2>1. rq[r].op = "none" /\ \A s \in Requests : s # r => rq'[s] = rq[s]
    BY <1>2 DEF Begins, Idle
  <2>2. \A s \in Requests : s # r => met[s] \subseteq met'[s]
    BY <1>h, <1>2 DEF Begins
  <2>3. QED
    BY <1>2, <2>1, <2>2 DEF Grows, Begins
<1>3. ASSUME UNCHANGED <<rq, met, faults>> PROVE Grows
  BY <1>3 DEF Grows
<1>4. ASSUME NEW r \in Requests, Arrive(r) PROVE Grows
  BY <1>2, <1>4, ArriveBegins
<1>5. ASSUME NEW r \in Requests, Handle(r) PROVE Grows
  BY <1>1, <1>5, HandleWorks
<1>6. ASSUME NEW r \in Requests, SchemaSync(r) PROVE Grows
  BY <1>1, <1>6, SyncWorks
<1>7. ASSUME NEW r \in Requests, Fault(r) PROVE Grows
  BY <1>1, <1>7, FaultWorks
<1>8. ASSUME NEW s \in States, Expire(s) PROVE Grows
  BY <1>3, <1>8 DEF Expire, OnlyConnection
<1>9. CASE UNCHANGED ownerVars
  BY <1>3, <1>9 DEF ownerVars
<1>10. QED
  BY <1>4, <1>5, <1>6, <1>7, <1>8, <1>9 DEF Next

LEMMA MetStays ==
    ASSUME Grows, HistoryInv, NEW ops, NEW others, "none" \notin ops, "none" \notin others,
           MetBy(ops, others)
    PROVE  MetBy(ops, others)'
<1>1. PICK r \in Requests : rq[r].op \in ops /\ \E x \in met[r] : rq[x].op \in others
  BY DEF MetBy
<1>2. PICK x \in met[r] : rq[x].op \in others
  BY <1>1
<1>3. x \in Requests /\ rq[r].op # "none" /\ rq[x].op # "none"
  BY <1>1, <1>2 DEF HistoryInv
<1>4. rq'[r].op = rq[r].op /\ rq'[x].op = rq[x].op /\ x \in met'[r]
  BY <1>2, <1>3 DEF Grows
<1>5. QED
  BY <1>1, <1>2, <1>4 DEF MetBy

(* Two requests that are open at once have met. *)
LEMMA OpenMeet ==
    ASSUME HistoryInv, NEW r \in Open, NEW x \in Open, r # x, NEW ops, NEW others,
           rq[r].op \in ops, rq[x].op \in others
    PROVE  MetBy(ops, others)
BY DEF HistoryInv, MetBy, Open

-----------------------------------------------------------------------------
(* Who takes which step, and who writes which table. *)

LEMMA WhoSteps ==
    ASSUME TypeInv, NEW r \in Requests
    PROVE  /\ ConnectionStep(r) => rq[r].op \in {"callback", "disconnect", "refresh"}
           /\ SchemaSync(r) => rq[r].op \in {"schema", "select", "template", "places"}
           /\ SelectStep(r) => rq[r].op = "select"
           /\ LinkStep(r) => rq[r].op \in MakesJob
           /\ StarterStep(r) => Starter(rq[r].op)
           /\ TemplateStep(r) => rq[r].op \in {"template", "places"}
           /\ PipelineStep(r) => rq[r].op \in {"create", "put", "archive", "status", "patch",
                                               "rotate", "remove"}
<1>q. Fits(rq[r], rq[r].at)
  BY DEF TypeInv, RequestInv
<1>1. ASSUME ConnectionStep(r) PROVE rq[r].op \in {"callback", "disconnect", "refresh"}
  BY <1>q, <1>1
     DEF ConnectionStep, FindState, ConsumeState, UpsertCredential, ReadInstance, SaveInstance,
         RevokeCredential, SearchSources, UpsertSources, Reach, Fits
<1>2. ASSUME SchemaSync(r) PROVE rq[r].op \in {"schema", "select", "template", "places"}
  <2>1. rq[r].at \in InSync
    BY <1>2 DEF SchemaSync, SyncTarget, SyncConnector, SyncToken, SyncFetch, SyncList,
                SyncDeactivate, SyncInsert, SyncAttach, InSync
  <2>2. QED
    BY <1>q, <2>1 DEF Fits
<1>3. ASSUME SelectStep(r) PROVE rq[r].op = "select"
  BY <1>3 DEF SelectStep, ListSources, PickSource, SaveSelected, Reach
<1>4. ASSUME LinkStep(r) PROVE rq[r].op \in MakesJob
  BY <1>q, <1>4
     DEF LinkStep, SaveJob, FindTrigger, MintTrigger, ListLinks, LinkTrigger, Fits, Linking,
         MakesJob
<1>5. ASSUME StarterStep(r) PROVE Starter(rq[r].op)
  BY <1>q, <1>5
     DEF StarterStep, ReadLimits, SeedLimits, FindStarter, DropStarterTrigger, FindStarterJob,
         DropStarterJob, ProvisionConnector, NewConnector, ProvisionTarget, NewBundledTarget,
         Reach, Fits, Provisioning, Starter
<1>6. ASSUME TemplateStep(r) PROVE rq[r].op \in {"template", "places"}
  BY <1>q, <1>6 DEF TemplateStep, FindTemplateJob, NeedToken, FindTarget, NewTarget, Fits
<1>7. ASSUME PipelineStep(r)
      PROVE  rq[r].op \in {"create", "put", "archive", "status", "patch", "rotate", "remove"}
  BY <1>q, <1>7 DEF PipelineStep, CheckTrigger, CheckTarget, CheckLimit, SaveGraph, FindJob,
              UpdateJob, ReadTrigger, SaveTrigger, RemoveTrigger, Reach, Fits
<1>8. QED
  BY <1>1, <1>2, <1>3, <1>4, <1>5, <1>6, <1>7

LEMMA JobWriters ==
    ASSUME TypeInv, NEW r \in Requests, Handle(r)
    PROVE  job' = job \/ SaveJob(r) \/ DropStarterJob(r) \/ SaveGraph(r) \/ UpdateJob(r)
<1>1. CASE ConnectionStep(r) \/ SelectStep(r) \/ TemplateStep(r)
  BY <1>1, ConnectionWorks, SelectWorks, TemplateWorks DEF pipelines
<1>2. CASE LinkStep(r)
  BY <1>2 DEF LinkStep, FindTrigger, MintTrigger, ListLinks, LinkTrigger, ReadOnly, pipelines
<1>3. CASE StarterStep(r)
  BY <1>3 DEF StarterStep, ReadLimits, SeedLimits, FindStarter, DropStarterTrigger,
              FindStarterJob, ProvisionConnector, NewConnector, ProvisionTarget,
              NewBundledTarget, ReadOnly, OnlyConnection, OnlySchemas, pipelines
<1>4. CASE PipelineStep(r)
  BY <1>4 DEF PipelineStep, CheckTrigger, CheckTarget, CheckLimit, FindJob, ReadTrigger,
              SaveTrigger, RemoveTrigger, ReadOnly, pipelines
<1>5. QED
  BY <1>1, <1>2, <1>3, <1>4, HandleIs

LEMMA TriggerWriters ==
    ASSUME TypeInv, NEW r \in Requests, Handle(r)
    PROVE  /\ \/ trigger' = trigger
              \/ MintTrigger(r) \/ DropStarterTrigger(r) \/ SaveTrigger(r) \/ RemoveTrigger(r)
           /\ \/ links' = links
              \/ LinkTrigger(r) \/ DropStarterTrigger(r) \/ DropStarterJob(r) \/ RemoveTrigger(r)
<1>1. CASE ConnectionStep(r) \/ SelectStep(r) \/ TemplateStep(r)
  BY <1>1, ConnectionWorks, SelectWorks, TemplateWorks DEF pipelines
<1>2. CASE LinkStep(r)
  BY <1>2 DEF LinkStep, SaveJob, FindTrigger, MintTrigger, ListLinks, LinkTrigger, ReadOnly,
              pipelines
<1>3. CASE StarterStep(r)
  BY <1>3 DEF StarterStep, ReadLimits, SeedLimits, FindStarter, FindStarterJob, DropStarterJob,
              ProvisionConnector, NewConnector, ProvisionTarget, NewBundledTarget, ReadOnly,
              OnlyConnection, OnlySchemas, pipelines
<1>4. CASE PipelineStep(r)
  BY <1>4 DEF PipelineStep, CheckTrigger, CheckTarget, CheckLimit, SaveGraph, FindJob, UpdateJob,
              ReadTrigger, SaveTrigger, ReadOnly, pipelines
<1>5. QED
  BY <1>1, <1>2, <1>3, <1>4, HandleIs

LEMMA ConnectionWriters ==
    ASSUME TypeInv, NEW r \in Requests, Handle(r)
    PROVE  /\ instance' = instance \/ SaveInstance(r) \/ NewConnector(r)
           /\ credential' = credential \/ UpsertCredential(r) \/ RevokeCredential(r)
<1>1. CASE SelectStep(r) \/ TemplateStep(r) \/ LinkStep(r) \/ PipelineStep(r)
  BY <1>1, SelectWorks, TemplateWorks, LinkWorks, PipelineWorks DEF connection
<1>2. CASE ConnectionStep(r)
  BY <1>2 DEF ConnectionStep, FindState, ConsumeState, UpsertCredential, ReadInstance,
              SaveInstance, RevokeCredential, SearchSources, UpsertSources, ReadOnly, connection
<1>3. CASE StarterStep(r)
  BY <1>3 DEF StarterStep, ReadLimits, SeedLimits, FindStarter, DropStarterTrigger,
              FindStarterJob, DropStarterJob, ProvisionConnector, NewConnector, ProvisionTarget,
              NewBundledTarget, ReadOnly, OnlySchemas, OnlyPipelines, connection
<1>4. QED
  BY <1>1, <1>2, <1>3, HandleIs

-----------------------------------------------------------------------------
(* The limit on pipelines. *)

(* Every request that adds a pipeline is counted, and none was brought back. *)
Unchecked == {"fire", "reprovision", "template", "places", "put"}
OnlyCreates ==
    /\ \A r \in Requests : rq[r].op \notin Unchecked
    /\ ~ MetBy({"status"}, {"archive"})
Creating == {r \in Requests : Reach(r, "create", "job")}
Slack(S) == IF S = {} THEN 0 ELSE Cardinality(S) - 1

(* Who has counted and not yet inserted adds to what is there.  A change of  *)
(* status is about to write what still holds, unless the pipeline was        *)
(* archived since it was found, which a request that it met has done.        *)
JobsInv ==
    OnlyCreates =>
        /\ Cardinality(ActiveJobs) + Cardinality(Creating) <= MaxJobs + Slack(Together)
        /\ \A r \in Requests : Reach(r, "status", "update") => rq[r].job \in ActiveJobs

LEMMA FewIds ==
    /\ IsFiniteSet(Requests) /\ Cardinality(Requests) \in Nat
    /\ \A S : S \subseteq Requests => IsFiniteSet(S) /\ Cardinality(S) \in Nat
                                      /\ Cardinality(S) <= Cardinality(Requests)
    /\ \A S : S \subseteq Minted => IsFiniteSet(S) /\ Cardinality(S) \in Nat
<1>1. IsFiniteSet(Requests)
  BY OwnerAssumption
<1>2. IsFiniteSet(Minted)
  <2>1. Minted = Requests \cup {"starter"}
    BY DEF Minted
  <2>2. QED
    BY <1>1, <2>1, FS_AddElement
<1>3. QED
  BY <1>1, <1>2, FS_Subset, FS_CardinalityType

LEMMA SlackTyped ==
    \A S, T : S \subseteq T /\ T \subseteq Requests =>
        Slack(S) \in Nat /\ Slack(T) \in Nat /\ Slack(S) <= Slack(T)
<1> SUFFICES ASSUME NEW S, NEW T, S \subseteq T, T \subseteq Requests
             PROVE  Slack(S) \in Nat /\ Slack(T) \in Nat /\ Slack(S) <= Slack(T)
  OBVIOUS
<1>1. /\ IsFiniteSet(S) /\ Cardinality(S) \in Nat /\ IsFiniteSet(T) /\ Cardinality(T) \in Nat
      /\ Cardinality(S) <= Cardinality(T)
  BY FewIds, FS_Subset
<1>2. (S = {} <=> Cardinality(S) = 0) /\ (T = {} <=> Cardinality(T) = 0)
  BY <1>1, FS_EmptySet
<1>3. QED
  BY <1>1, <1>2 DEF Slack

(* What overlapped stays so.                                                *)
LEMMA TogetherGrows ==
    ASSUME Grows, HistoryInv
    PROVE  Together \subseteq Together' /\ Together' \subseteq Requests
<1>1. ASSUME NEW r \in Together PROVE r \in Together'
  <2>1. r \in Requests /\ rq[r].op = "create"
    BY <1>1 DEF Together
  <2>2. PICK x \in met[r] : rq[x].op = "create"
    BY <1>1 DEF Together
  <2>3. x \in Requests
    BY <2>1, <2>2 DEF HistoryInv
  <2>4. rq'[r].op = "create" /\ rq'[x].op = "create" /\ x \in met'[r]
    BY <2>1, <2>2, <2>3 DEF Grows
  <2>5. QED
    BY <2>1, <2>4 DEF Together
<1>2. QED
  BY <1>1 DEF Together

(* No more pipelines than before, and no more about to be made.             *)
LEMMA NoMoreJobs ==
    ASSUME JobsInv, OnlyCreates, Grows, HistoryInv,
           ActiveJobs' \subseteq ActiveJobs, Creating' \subseteq Creating,
           \A r \in Requests : Reach(r, "status", "update")' => rq'[r].job \in ActiveJobs'
    PROVE  JobsInv'
<1>1. ActiveJobs \subseteq Minted /\ Creating \subseteq Requests
  BY DEF ActiveJobs, Creating
<1>2. /\ Cardinality(ActiveJobs) \in Nat /\ Cardinality(Creating) \in Nat
      /\ Cardinality(ActiveJobs') \in Nat /\ Cardinality(ActiveJobs') <= Cardinality(ActiveJobs)
      /\ Cardinality(Creating') \in Nat /\ Cardinality(Creating') <= Cardinality(Creating)
  BY <1>1, FewIds, FS_Subset, FS_CardinalityType
<1>3. Cardinality(ActiveJobs) + Cardinality(Creating) <= MaxJobs + Slack(Together)
  BY DEF JobsInv
<1>4. MaxJobs \in Nat
  BY ResourcesAssumption
<1>s. Slack(Together) \in Nat /\ Slack(Together') \in Nat /\ Slack(Together) <= Slack(Together')
  BY TogetherGrows, SlackTyped
<1>5. Cardinality(ActiveJobs') + Cardinality(Creating') <= MaxJobs + Slack(Together')
  BY <1>2, <1>3, <1>4, <1>s
<1>6. QED
  BY <1>5 DEF JobsInv, Slack

(* The pipelines stay active, and no change of status finds another.        *)
LEMMA NoJobArchived ==
    ASSUME JobsInv, OnlyCreates, ActiveJobs \subseteq ActiveJobs', NEW r \in Requests,
           Reach(r, "status", "update")' => rq'[r].job \in ActiveJobs',
           \A x \in Requests : x # r => rq'[x] = rq[x]
    PROVE  \A x \in Requests : Reach(x, "status", "update")' => rq'[x].job \in ActiveJobs'
BY DEF JobsInv, Reach

LEMMA NextJobsInv == TypeInv /\ HistoryInv /\ JobsInv /\ [Next]_ownerVars => JobsInv'
<1> SUFFICES ASSUME TypeInv, HistoryInv, JobsInv, [Next]_ownerVars, OnlyCreates'
             PROVE  JobsInv'
  BY DEF JobsInv
<1>g. Grows
  BY NextGrows
<1>0. OnlyCreates
  <2>1. \A r \in Requests : rq[r].op \notin Unchecked
    BY <1>g DEF Grows, OnlyCreates, Unchecked
  <2>2. ~ MetBy({"status"}, {"archive"})
    BY <1>g, MetStays DEF OnlyCreates
  <2>3. QED
    BY <2>1, <2>2 DEF OnlyCreates
<1>m. MaxJobs \in Nat \ {0}
  BY ResourcesAssumption
<1>j. job \in [Minted -> Or(Job)]
  BY DEF TypeInv, TypeOK
<1>1. ASSUME NEW r \in Requests, Works(r), rq[r].op # "create" PROVE Creating' \subseteq Creating
  BY <1>1 DEF Works, Creating, Reach
<1>2. ASSUME job' = job PROVE ActiveJobs' = ActiveJobs
  BY <1>2 DEF ActiveJobs, Exists
<1>s. ASSUME NEW r \in Requests, job' = job, Creating' \subseteq Creating,
             \A x \in Requests : x # r => rq'[x] = rq[x],
             Reach(r, "status", "update")' => rq'[r].job \in ActiveJobs
      PROVE  JobsInv'
  <2>1. \A x \in Requests : Reach(x, "status", "update")' => rq'[x].job \in ActiveJobs'
    BY <1>0, <1>2, <1>s, NoJobArchived
  <2>2. QED
    BY <1>0, <1>g, <1>2, <1>s, <2>1, NoMoreJobs
<1>3. ASSUME NEW r \in Requests, Begins(r) PROVE JobsInv'
  <2>1. /\ Creating' \subseteq Creating /\ job' = job /\ ~ Reach(r, "status", "update")'
        /\ \A x \in Requests : x # r => rq'[x] = rq[x]
    BY <1>3 DEF Begins, Creating, Reach, pipelines
  <2>2. QED
    BY <1>s, <2>1
<1>4. ASSUME NEW r \in Requests, rq'[r].at # "job", Works(r)
      PROVE  Creating' \subseteq Creating \ {r}
  BY <1>4 DEF Works, Creating, Reach
<1>w. ASSUME NEW r \in Requests, Works(r), rq[r].op # "status"
      PROVE  ~ Reach(r, "status", "update")' /\ \A x \in Requests : x # r => rq'[x] = rq[x]
  BY <1>w DEF Works, Reach
<1>5. ASSUME NEW r \in Requests, SchemaSync(r) PROVE JobsInv'
  <2>1. Works(r) /\ job' = job /\ rq[r].op # "create" /\ rq[r].op # "status"
    BY <1>5, SyncWorks, WhoSteps DEF pipelines
  <2>2. QED
    BY <1>1, <1>s, <1>w, <2>1
<1>6. ASSUME NEW r \in Requests, Fault(r) PROVE JobsInv'
  <2>1. Works(r) /\ job' = job
    BY <1>6, FaultWorks DEF pipelines
  <2>2. CASE rq[r].op \notin {"create", "status"}
    BY <1>1, <1>s, <1>w, <2>1, <2>2
  <2>3. CASE rq[r].op \in {"create", "status"}
    <3>1. ~ Syncing(r)
      <4>1. Fits(rq[r], rq[r].at)
        BY DEF TypeInv, RequestInv
      <4>2. QED
        BY <2>3, <4>1 DEF Syncing, Fits, InSync
    <3>2. rq'[r].at = "done"
      BY <1>6, <3>1, Lands DEF Fault
    <3>3. /\ ~ Reach(r, "status", "update")' /\ Creating' \subseteq Creating
          /\ \A x \in Requests : x # r => rq'[x] = rq[x]
      BY <1>4, <2>1, <3>2 DEF Reach, Works
    <3>4. QED
      BY <1>s, <2>1, <3>3
  <2>4. QED
    BY <2>2, <2>3
<1>7. ASSUME NEW r \in Requests, Handle(r), rq[r].op # "create" PROVE JobsInv'
  <2>1. Works(r) /\ Creating' \subseteq Creating /\ \A x \in Requests : x # r => rq'[x] = rq[x]
    BY <1>1, <1>7, HandleWorks DEF Works
  <2>2. ~ SaveJob(r) /\ ~ DropStarterJob(r) /\ ~ SaveGraph(r)
    <3>1. ~ SaveJob(r)
      BY <1>0, <1>7, WhoSteps DEF LinkStep, MakesJob, OnlyCreates, Unchecked
    <3>2. ~ DropStarterJob(r) /\ ~ SaveGraph(r)
      BY <1>0 DEF DropStarterJob, SaveGraph, Reach, OnlyCreates, Unchecked
    <3>3. QED
      BY <3>1, <3>2
  <2>3. CASE job' = job /\ ~ UpdateJob(r)
    <3>1. CASE rq[r].op # "status"
      BY <1>s, <1>w, <2>1, <2>3, <3>1
    <3>2. CASE rq[r].op = "status"
      <4>1. PipelineStep(r) /\ Fits(rq[r], rq[r].at)
        BY <1>7, <3>2, HandleIs, WhoSteps DEF MakesJob, Starter, TypeInv, RequestInv
      <4>2. FindJob(r)
        BY <2>2, <2>3, <3>2, <4>1
           DEF PipelineStep, CheckTrigger, CheckTarget, CheckLimit, ReadTrigger, SaveTrigger,
               RemoveTrigger, Reach
      <4>3. Reach(r, "status", "update")' => rq'[r].job \in ActiveJobs
        <5>1. CASE Answer(r)
          BY <5>1, Lands DEF Reach
        <5>2. CASE rq[r].job \in ActiveJobs /\ Goto(r, "update")
          <6>1. rq[r] \in Request /\ rq'[r] = [rq[r] EXCEPT !.at = "update"]
            BY <5>2, Holds DEF TypeInv, RequestInv
          <6>2. QED
            BY <5>2, <6>1 DEF Request
        <5>3. QED
          BY <4>2, <5>1, <5>2 DEF FindJob
      <4>4. QED
        BY <1>s, <2>1, <2>3, <4>3
    <3>3. QED
      BY <3>1, <3>2
  <2>4. CASE UpdateJob(r)
    <3>x. PICK x \in Minted : x = rq[r].job
      BY <2>4 DEF TypeInv, RequestInv, Fits, UpdateJob
    <3>a. rq'[r].at = "done" /\ rq[r].at = "update" /\ r \in Open
      BY <2>4, Lands DEF UpdateJob, Open
    <3>0. /\ rq[r].op \in {"archive", "status"}
      BY <3>a DEF TypeInv, RequestInv, Fits
    <3>1. \A y \in Minted : y # x => job'[y] = job[y]
      BY <1>j, <2>4, <3>x DEF UpdateJob
    <3>2. x \in ActiveJobs' => rq[r].op = "status"
      <4>1. CASE Exists(job, x)
        <5>1. PICK v : /\ job' = [job EXCEPT ![x] = v]
                       /\ v = [job[x] EXCEPT !.active = (rq[r].op = "status")]
          BY <2>4, <3>x, <4>1 DEF UpdateJob
        <5>2. job[x] \in Job
          BY <1>j, <4>1 DEF Exists, Or
        <5>3. v.active = (rq[r].op = "status")
          BY <5>1, <5>2 DEF Job
        <5>4. QED
          BY <1>j, <5>1, <5>3 DEF ActiveJobs
      <4>2. CASE ~ Exists(job, x)
        BY <2>4, <3>x, <4>2 DEF UpdateJob, ActiveJobs, Exists
      <4>3. QED
        BY <4>1, <4>2
    <3>3. CASE rq[r].op = "archive"
      <4>1. ActiveJobs' \subseteq ActiveJobs
        BY <3>1, <3>2, <3>3 DEF ActiveJobs, Exists
      <4>2. \A y \in Requests : ~ Reach(y, "status", "update")'
        <5>1. ASSUME NEW y \in Requests, Reach(y, "status", "update")' PROVE FALSE
          <6>1. y # r /\ y \in Open /\ rq[y].op = "status"
            BY <2>1, <3>a, <5>1 DEF Reach, Open
          <6>2. MetBy({"status"}, {"archive"})
            BY <3>3, <3>a, <6>1, OpenMeet
          <6>3. QED
            BY <1>0, <6>2 DEF OnlyCreates
        <5>2. QED
          BY <5>1
      <4>3. QED
        BY <1>0, <1>g, <2>1, <4>1, <4>2, NoMoreJobs
    <3>4. CASE rq[r].op = "status"
      <4>1. x \in ActiveJobs
        BY <1>0, <3>x, <3>a, <3>4 DEF JobsInv, Reach
      <4>2. x \in ActiveJobs'
        <5>1. Exists(job, x) /\ job[x] \in Job
          BY <1>j, <4>1 DEF ActiveJobs, Exists, Or
        <5>2. PICK v \in Job : v = [job[x] EXCEPT !.active = TRUE]
          BY <5>1 DEF Job
        <5>3. job' = [job EXCEPT ![x] = v]
          BY <2>4, <3>x, <3>4, <5>1, <5>2 DEF UpdateJob
        <5>4. v.active /\ v # Null
          BY <5>1, <5>2, NullIsNoRow DEF Job
        <5>5. QED
          BY <1>j, <5>3, <5>4 DEF ActiveJobs, Exists
      <4>3. ActiveJobs' = ActiveJobs
        BY <3>1, <4>1, <4>2 DEF ActiveJobs, Exists
      <4>4. \A y \in Requests : Reach(y, "status", "update")' => rq'[y].job \in ActiveJobs'
        BY <1>0, <2>1, <3>a, <4>3, NoJobArchived DEF Reach
      <4>5. QED
        BY <1>0, <1>g, <2>1, <4>3, <4>4, NoMoreJobs
    <3>5. QED
      BY <3>0, <3>3, <3>4
  <2>5. QED
    BY <1>7, <2>2, <2>3, <2>4, JobWriters
<1>8. ASSUME NEW r \in Requests, Handle(r), rq[r].op = "create" PROVE JobsInv'
  <2>0. LinkStep(r) \/ PipelineStep(r)
    BY <1>8, HandleWorks, HandleIs, WhoSteps DEF Starter
  <2>q. rq \in [Requests -> Request] /\ rq[r] \in Request /\ Works(r) /\ Fits(rq[r], rq[r].at)
    BY <1>8, HandleWorks DEF TypeInv, RequestInv
  <2>w. ~ Reach(r, "status", "update")' /\ \A x \in Requests : x # r => rq'[x] = rq[x]
    BY <1>8, <1>w, <2>q
  <2>1. CASE ~ CheckLimit(r) /\ ~ SaveJob(r)
    <3>0. ~ SaveGraph(r) /\ ~ FindJob(r) /\ ~ UpdateJob(r)
      BY <1>8, <2>q DEF SaveGraph, FindJob, UpdateJob, Reach, Fits
    <3>1. job' = job
      BY <1>8, <2>1, <3>0, JobWriters DEF DropStarterJob, Reach
    <3>2. rq'[r].at # "job"
      <4>1. \/ CheckTrigger(r) \/ CheckTarget(r) \/ ListLinks(r) \/ LinkTrigger(r)
        <5>1. ~ FindTrigger(r) /\ ~ MintTrigger(r)
          BY <1>8, <2>q DEF FindTrigger, MintTrigger, Fits
        <5>2. ~ ReadTrigger(r) /\ ~ SaveTrigger(r) /\ ~ RemoveTrigger(r)
          BY <1>8 DEF ReadTrigger, SaveTrigger, RemoveTrigger, Reach
        <5>3. QED
          BY <2>0, <2>1, <3>0, <5>1, <5>2 DEF LinkStep, PipelineStep
      <4>2. Answer(r) \/ \E at \in {"target", "count", "link"} : Goto(r, at)
        BY <4>1 DEF CheckTrigger, CheckTarget, ListLinks, LinkTrigger
      <4>3. QED
        BY <4>2, Lands
    <3>3. QED
      BY <1>4, <1>s, <2>q, <2>w, <3>1, <3>2
  <2>2. CASE CheckLimit(r) /\ Answer(r)
    <3>1. job' = job
      BY <2>2 DEF CheckLimit, ReadOnly, pipelines
    <3>2. rq'[r].at # "job"
      BY <2>2, Lands
    <3>3. QED
      BY <1>4, <1>s, <2>q, <2>w, <3>1, <3>2
  <2>3. CASE CheckLimit(r) /\ ~ (Cardinality(ActiveJobs) >= MaxJobs)
    <3>1. ActiveJobs' = ActiveJobs /\ ActiveJobs \subseteq Minted
      BY <2>3 DEF CheckLimit, ReadOnly, pipelines, ActiveJobs, Exists
    <3>2. Creating' \subseteq Requests /\ Together' \subseteq Requests
      BY DEF Creating, Together
    <3>3. /\ Cardinality(ActiveJobs) \in Nat /\ Cardinality(Creating') \in Nat
          /\ Slack(Together') \in Nat
      BY <3>1, <3>2, FewIds, SlackTyped
    <3>4. Creating' \subseteq Open /\ \A c \in Creating' : rq'[c].op = "create"
      BY <2>3, <2>w DEF Creating, Reach, Open, CheckLimit
    <3>5. ASSUME NEW c \in Creating', NEW d \in Creating', c # d PROVE c \in Together'
      <4>1. d \in met[c] /\ c \in Requests /\ d \in Requests /\ rq[c].at # "idle"
        BY <3>2, <3>4, <3>5 DEF HistoryInv, Open
      <4>2. met[c] \subseteq met'[c]
        BY <1>g, <4>1 DEF Grows, HistoryInv
      <4>3. QED
        BY <3>4, <4>1, <4>2 DEF Together
    <3>6. CASE Creating' \subseteq {r}
      <4>1. Cardinality(Creating') <= 1
        <5>1. IsFiniteSet({r}) /\ Cardinality({r}) = 1
          BY FS_Singleton
        <5>2. Cardinality(Creating') <= Cardinality({r})
          BY <3>6, <5>1, FS_Subset
        <5>3. QED
          BY <5>1, <5>2
      <4>2. Cardinality(ActiveJobs') + Cardinality(Creating') <= MaxJobs + Slack(Together')
        BY <1>m, <2>3, <3>1, <3>3, <4>1
      <4>3. /\ \A y \in Requests : Reach(y, "status", "update")' => rq'[y].job \in ActiveJobs'
        BY <1>0, <2>w, <3>1, NoJobArchived
      <4>4. QED
        BY <4>2, <4>3 DEF JobsInv, Slack
    <3>7. CASE ~ (Creating' \subseteq {r})
      <4>0. PICK d \in Creating' : d # r
        BY <3>7
      <4>1. r \in Creating'
        <5>1. Goto(r, "job")
          BY <2>3 DEF CheckLimit
        <5>2. rq'[r].at = "job"
          BY <5>1, Lands
        <5>3. rq'[r].op = "create"
          BY <1>8, <2>q DEF Works
        <5>4. QED
          BY <5>2, <5>3 DEF Creating, Reach
      <4>2. Creating' \subseteq Together'
        BY <3>5, <4>0, <4>1
      <4>3. Slack(Creating') = Cardinality(Creating') - 1
        BY <4>1 DEF Slack
      <4>4. Cardinality(Creating') - 1 <= Slack(Together')
        BY <3>2, <4>2, <4>3, SlackTyped
      <4>5. Cardinality(ActiveJobs') + Cardinality(Creating') <= MaxJobs + Slack(Together')
        BY <1>m, <2>3, <3>1, <3>3, <4>4
      <4>6. /\ \A y \in Requests : Reach(y, "status", "update")' => rq'[y].job \in ActiveJobs'
        BY <1>0, <2>w, <3>1, NoJobArchived
      <4>7. QED
        BY <4>5, <4>6 DEF JobsInv, Slack
    <3>8. QED
      BY <3>6, <3>7
  <2>4. CASE SaveJob(r)
    <3>0. r \in Creating /\ IdOf(r) = r /\ r \in Minted
      BY <1>8, <2>4 DEF SaveJob, Creating, Reach, IdOf, Starter, Minted
    <3>1. ActiveJobs' \subseteq ActiveJobs \cup {r} /\ ActiveJobs \subseteq ActiveJobs'
      <4>0. rq[r].t \in Targets
        BY <1>8, <2>q, <2>4 DEF SaveJob, Fits, Starter
      <4>v. PICK v : v = [name |-> "plain", active |-> TRUE, target |-> rq[r].t]
        OBVIOUS
      <4>1. v \in Job /\ v.active
        BY <4>0, <4>v DEF Job
      <4>2. v # Null
        BY <4>1, NullIsNoRow
      <4>3. job' = [job EXCEPT ![r] = v]
        BY <1>8, <2>4, <3>0, <4>v DEF SaveJob, NameFor, Starter
      <4>4. QED
        BY <1>j, <3>0, <4>1, <4>2, <4>3 DEF ActiveJobs, Exists
    <3>2. Creating' \subseteq Creating \ {r}
      <4>1. PICK q : q = [rq[r] EXCEPT !.job = IdOf(r)]
        OBVIOUS
      <4>2. q \in Request
        BY <2>q, <3>0, <4>1 DEF Request, Or
      <4>3. Keep(r, q, "links")
        BY <1>8, <2>4, <4>1 DEF SaveJob, AfterJob, Starter
      <4>4. rq'[r].at = "links"
        BY <4>2, <4>3, Lands DEF Request
      <4>5. QED
        BY <1>4, <2>q, <4>4
    <3>3. /\ ActiveJobs \subseteq Minted /\ Creating \subseteq Requests
          /\ ActiveJobs \cup {r} \subseteq Minted
      BY <3>0 DEF ActiveJobs, Creating
    <3>f. /\ IsFiniteSet(ActiveJobs) /\ IsFiniteSet(Creating) /\ IsFiniteSet(ActiveJobs \cup {r})
          /\ IsFiniteSet(Creating \ {r})
      BY <3>3, FewIds
    <3>4. /\ Cardinality(ActiveJobs) \in Nat /\ Cardinality(ActiveJobs') \in Nat
          /\ Cardinality(ActiveJobs') <= Cardinality(ActiveJobs) + 1
      <4>1. Cardinality(ActiveJobs \cup {r}) \in Nat
            /\ Cardinality(ActiveJobs \cup {r}) <= Cardinality(ActiveJobs) + 1
            /\ Cardinality(ActiveJobs) \in Nat
        BY <3>f, FS_AddElement, FS_CardinalityType
      <4>2. Cardinality(ActiveJobs') \in Nat
            /\ Cardinality(ActiveJobs') <= Cardinality(ActiveJobs \cup {r})
        BY <3>1, <3>f, FS_Subset, FS_CardinalityType
      <4>3. QED
        BY <4>1, <4>2
    <3>5. /\ Cardinality(Creating) \in Nat /\ Cardinality(Creating') \in Nat
          /\ Cardinality(Creating') <= Cardinality(Creating) - 1
      <4>1. Cardinality(Creating \ {r}) = Cardinality(Creating) - 1 /\ Cardinality(Creating) \in Nat
        BY <3>0, <3>f, FS_RemoveElement, FS_CardinalityType
      <4>2. Cardinality(Creating') \in Nat
            /\ Cardinality(Creating') <= Cardinality(Creating \ {r})
        BY <3>2, <3>f, FS_Subset, FS_CardinalityType
      <4>3. QED
        BY <4>1, <4>2
    <3>6. Cardinality(ActiveJobs') + Cardinality(Creating') <= MaxJobs + Slack(Together')
      <4>1. Cardinality(ActiveJobs) + Cardinality(Creating) <= MaxJobs + Slack(Together)
        BY <1>0 DEF JobsInv
      <4>2. /\ Slack(Together) \in Nat /\ Slack(Together') \in Nat
            /\ Slack(Together) <= Slack(Together')
        BY <1>g, TogetherGrows, SlackTyped
      <4>3. QED
        BY <1>m, <3>4, <3>5, <4>1, <4>2
    <3>7. \A y \in Requests : Reach(y, "status", "update")' => rq'[y].job \in ActiveJobs'
      BY <1>0, <2>w, <3>1, NoJobArchived
    <3>8. QED
      BY <3>6, <3>7 DEF JobsInv, Slack
  <2>5. QED
    BY <2>1, <2>2, <2>3, <2>4 DEF CheckLimit
<1>9. ASSUME UNCHANGED <<rq, job, met>> PROVE JobsInv'
  BY <1>9 DEF JobsInv, ActiveJobs, Creating, Reach, Exists, OnlyCreates, Unchecked, MetBy,
              Together, Slack
<1>10. ASSUME NEW r \in Requests, Arrive(r) PROVE JobsInv'
  BY <1>3, <1>10, ArriveBegins
<1>11. ASSUME NEW s \in States, Expire(s) PROVE JobsInv'
  BY <1>9, <1>11 DEF Expire, OnlyConnection, pipelines
<1>12. CASE UNCHANGED ownerVars
  BY <1>9, <1>12 DEF ownerVars, pipelines
<1>13. QED
  BY <1>5, <1>6, <1>7, <1>8, <1>10, <1>11, <1>12 DEF Next

LEMMA InitJobsInv == Init => JobsInv
<1> SUFFICES ASSUME Init PROVE JobsInv
  OBVIOUS
<1>1. ActiveJobs \subseteq {"starter"}
  BY DEF Init, ActiveJobs, Exists
<1>2. Creating = {} /\ \A r \in Requests : ~ Reach(r, "status", "update")
  BY DEF Init, Creating, Reach, Idle
<1>3. Cardinality(ActiveJobs) \in Nat /\ Cardinality(ActiveJobs) <= 1
  <2>1. IsFiniteSet({"starter"}) /\ Cardinality({"starter"}) = 1
    BY FS_Singleton
  <2>2. Cardinality(ActiveJobs) \in Nat /\ Cardinality(ActiveJobs) <= Cardinality({"starter"})
    BY <1>1, <2>1, FS_Subset, FS_CardinalityType
  <2>3. QED
    BY <2>1, <2>2
<1>4. Cardinality(Creating) = 0
  BY <1>2, FS_EmptySet
<1>5. Slack(Together) \in Nat
  BY SlackTyped DEF Together
<1>6. MaxJobs \in Nat \ {0}
  BY ResourcesAssumption
<1>7. Cardinality(ActiveJobs) + Cardinality(Creating) <= MaxJobs + Slack(Together)
  BY <1>3, <1>4, <1>5, <1>6
<1>8. QED
  BY <1>2, <1>7 DEF JobsInv

(* An owner's limit on pipelines is passed by fewer than the creations that  *)
(* overlapped each other, whatever else is archived or changed in between:   *)
(* each of them counts before it inserts (create_pipeline), so that only     *)
(* those which counted before the others inserted are too many.  The routes  *)
(* that count nothing are the exception, and so is a change of status that   *)
(* overlapped the archiving of its pipeline.                                 *)
THEOREM LimitIsKept == Spec => []LimitKept
<1>1. TypeInv /\ JobsInv => LimitKept
  <2> SUFFICES ASSUME TypeInv, JobsInv, OnlyCreates
               PROVE  Cardinality(ActiveJobs) <= MaxJobs + Slack(Together)
    BY DEF LimitKept, OnlyCreates, Unchecked, Slack
  <2>1. /\ ActiveJobs \subseteq Minted /\ Creating \subseteq Requests
        /\ Together \subseteq Requests
    BY DEF ActiveJobs, Creating, Together
  <2>2. /\ Cardinality(ActiveJobs) \in Nat /\ Cardinality(Creating) \in Nat
        /\ Slack(Together) \in Nat /\ MaxJobs \in Nat
    BY <2>1, FewIds, SlackTyped, ResourcesAssumption
  <2>3. Cardinality(ActiveJobs) + Cardinality(Creating) <= MaxJobs + Slack(Together)
    BY DEF JobsInv
  <2>4. QED
    BY <2>2, <2>3
<1>2. Init => HistoryInv /\ JobsInv /\ TypeInv
  BY InitHistoryInv, InitJobsInv, InitTypeInv
<1>3. TypeInv /\ HistoryInv /\ JobsInv /\ [Next]_ownerVars => TypeInv' /\ HistoryInv' /\ JobsInv'
  BY NextTypeInv, NextHistoryInv, NextJobsInv
<1>4. QED
  BY <1>1, <1>2, <1>3, PTL DEF Spec

-----------------------------------------------------------------------------
(* The connection. *)

Disturbed ==
    \/ faults > 0
    \/ MetBy({"disconnect"}, {"callback", "refresh"})
    \/ MetBy({"callback"}, {"fire", "reprovision", "refresh"})

Agrees == (instance = "connected") <=> (credential = "live")

Connecting(r) == rq[r].op = "callback" /\ rq[r].at \in {"instance", "save"}
Revoking(r) == Reach(r, "disconnect", "save")
Rereading(r) == Reach(r, "refresh", "save") /\ rq[r].saw # "none"

(* Where the owner's requests disagree is between the two writes of a        *)
(* callback or of a disconnect; and nobody is about to put back a state of   *)
(* the connector that is not that of the row.                                *)
Steady ==
    /\ Agrees \/ \E r \in Requests : Connecting(r) \/ Revoking(r)
    /\ \A r \in Requests : Connecting(r) => credential = "live"
    /\ \A r \in Requests : Revoking(r) => credential # "live"
    /\ \A r \in Requests : Rereading(r) => (rq[r].saw = "connected" <=> instance = "connected")
    /\ \A r \in Requests : rq[r].at = "newconnector" => instance # "connected"

ConnectionInv == Disturbed \/ Steady

LEMMA StillDisturbed ==
    ASSUME Grows, HistoryInv, Disturbed
    PROVE  Disturbed'
<1>1. CASE faults > 0
  BY <1>1 DEF Grows, Disturbed
<1>2. CASE MetBy({"disconnect"}, {"callback", "refresh"})
  <2>1. MetBy({"disconnect"}, {"callback", "refresh"})'
    BY <1>2, MetStays
  <2>2. QED
    BY <2>1 DEF Disturbed
<1>3. CASE MetBy({"callback"}, {"fire", "reprovision", "refresh"})
  <2>1. MetBy({"callback"}, {"fire", "reprovision", "refresh"})'
    BY <1>3, MetStays
  <2>2. QED
    BY <2>1 DEF Disturbed
<1>4. QED
  BY <1>1, <1>2, <1>3 DEF Disturbed

(* Two requests that disturb each other are not open together.              *)
LEMMA ApartUnlessDisturbed ==
    ASSUME HistoryInv, ~ Disturbed, NEW r \in Open, NEW x \in Open
    PROVE  /\ rq[r].op = "disconnect" => rq[x].op \notin {"callback", "refresh"}
           /\ rq[r].op = "callback" => rq[x].op \notin {"fire", "reprovision", "refresh"}
<1>1. ASSUME rq[r].op = "disconnect", rq[x].op \in {"callback", "refresh"} PROVE FALSE
  BY <1>1, OpenMeet DEF Disturbed
<1>2. ASSUME rq[r].op = "callback", rq[x].op \in {"fire", "reprovision", "refresh"} PROVE FALSE
  BY <1>2, OpenMeet DEF Disturbed
<1>3. QED
  BY <1>1, <1>2

LEMMA StillSteady ==
    ASSUME Steady, NEW r \in Requests, Works(r), credential' = credential,
           instance' = "connected" <=> instance = "connected",
           Connecting(r) \/ Revoking(r) => Connecting(r)' \/ Revoking(r)',
           Connecting(r)' => credential = "live",
           Revoking(r)' => credential # "live",
           Rereading(r)' => (rq'[r].saw = "connected" <=> instance = "connected"),
           rq'[r].at = "newconnector" => instance # "connected"
    PROVE  Steady'
<1>1. \A x \in Requests : x # r => rq'[x] = rq[x]
  BY DEF Works
<1>2. \A x \in Requests : x # r =>
         /\ Connecting(x)' <=> Connecting(x)
         /\ Revoking(x)' <=> Revoking(x)
         /\ Rereading(x)' <=> Rereading(x)
  BY <1>1 DEF Connecting, Revoking, Rereading, Reach
<1>3. (Agrees \/ \E x \in Requests : Connecting(x) \/ Revoking(x))'
  <2>1. CASE Agrees
    BY <2>1 DEF Agrees
  <2>2. CASE \E x \in Requests : Connecting(x) \/ Revoking(x)
    BY <1>2, <2>2
  <2>3. QED
    BY <2>1, <2>2 DEF Steady
<1>4. (\A x \in Requests : Connecting(x) => credential = "live")'
  BY <1>2 DEF Steady
<1>5. (\A x \in Requests : Revoking(x) => credential # "live")'
  BY <1>2 DEF Steady
<1>6. (\A x \in Requests : Rereading(x) => (rq[x].saw = "connected" <=> instance = "connected"))'
  BY <1>1, <1>2 DEF Steady
<1>7. (\A x \in Requests : rq[x].at = "newconnector" => instance # "connected")'
  BY <1>1 DEF Steady
<1>8. QED
  BY <1>3, <1>4, <1>5, <1>6, <1>7 DEF Steady

(* Only who provisions comes to make a connector, and has found none.       *)
LEMMA ToNewConnector ==
    ASSUME TypeInv, NEW r \in Requests, Handle(r), rq'[r].at = "newconnector"
    PROVE  instance = "none" /\ StarterStep(r) /\ ~ NewConnector(r)
<1>q. rq[r] \in Request /\ Works(r) /\ TypeInv'
  BY HandleWorks, HandleSteps DEF TypeInv, RequestInv
<1>1. Starter(rq[r].op)
  <2>1. Fits(rq'[r], rq'[r].at)
    BY <1>q DEF TypeInv, RequestInv
  <2>2. QED
    BY <1>q, <2>1 DEF Fits, Provisioning, Works
<1>2. LinkStep(r) \/ StarterStep(r)
  BY <1>1, HandleIs, WhoSteps DEF Starter
<1>3. ~ LinkStep(r)
  <2>1. SUFFICES ASSUME LinkStep(r) PROVE FALSE
    OBVIOUS
  <2>2. CASE SaveJob(r)
    <3>q. PICK q : q = [rq[r] EXCEPT !.job = IdOf(r)]
      OBVIOUS
    <3>1. "at" \in DOMAIN q
      BY <1>q, <3>q DEF Request
    <3>2. Keep(r, q, AfterJob(rq[r].op))
      BY <2>2, <3>q DEF SaveJob
    <3>3. QED
      BY <3>1, <3>2, Lands DEF AfterJob
  <2>3. CASE MintTrigger(r)
    <3>q. PICK q : q = [rq[r] EXCEPT !.trig = IdOf(r)]
      OBVIOUS
    <3>1. "at" \in DOMAIN q
      BY <1>q, <3>q DEF Request
    <3>2. Keep(r, q, AfterTrigger(rq[r].op)) \/ Answer(r)
      BY <2>3, <3>q DEF MintTrigger
    <3>3. QED
      BY <3>1, <3>2, Lands DEF AfterTrigger
  <2>4. CASE ListLinks(r) \/ LinkTrigger(r)
    BY <2>4, Lands DEF ListLinks, LinkTrigger
  <2>5. ~ FindTrigger(r)
    BY <1>1 DEF FindTrigger, Starter
  <2>6. QED
    BY <2>1, <2>2, <2>3, <2>4, <2>5 DEF LinkStep
<1>4. StarterStep(r)
  BY <1>2, <1>3
<1>5. CASE \/ ReadLimits(r) \/ SeedLimits(r) \/ FindStarterJob(r) \/ DropStarterTrigger(r)
           \/ DropStarterJob(r) \/ NewConnector(r)
  BY <1>5, Lands
     DEF ReadLimits, SeedLimits, FindStarterJob, DropStarterTrigger, DropStarterJob, NewConnector
<1>6. CASE FindStarter(r)
  <2>1. ASSUME NEW x, Keep(r, [rq[r] EXCEPT !.trig = x], "droptrigger") PROVE FALSE
    BY <1>q, <2>1, Lands DEF Request
  <2>2. QED
    BY <1>6, <2>1, Lands DEF FindStarter
<1>7. CASE ProvisionTarget(r) \/ NewBundledTarget(r)
  <2>1. ASSUME Keep(r, [rq[r] EXCEPT !.todo = Tail(rq[r].todo)], "bundled") PROVE FALSE
    BY <1>q, <2>1, Lands DEF Request
  <2>2. QED
    BY <1>7, <2>1, Lands DEF ProvisionTarget, NewBundledTarget
<1>8. CASE ProvisionConnector(r)
  <2>1. rq[r].at = "provision"
    BY <1>8 DEF ProvisionConnector
  <2>2. ~ NewConnector(r)
    BY <2>1 DEF NewConnector
  <2>q. PICK q : q = [rq[r] EXCEPT !.todo = <<"places", "locations">>]
    OBVIOUS
  <2>3. "at" \in DOMAIN q
    BY <1>q, <2>q DEF Request
  <2>4. Keep(r, q, IF instance = "none" THEN "newconnector" ELSE "bundled")
    BY <1>8, <2>q DEF ProvisionConnector
  <2>5. QED
    BY <1>4, <2>2, <2>3, <2>4, Lands
<1>9. QED
  BY <1>4, <1>5, <1>6, <1>7, <1>8 DEF StarterStep

LEMMA NextConnectionInv ==
    TypeInv /\ HistoryInv /\ ConnectionInv /\ [Next]_ownerVars => ConnectionInv'
<1> SUFFICES ASSUME TypeInv, HistoryInv, ConnectionInv, [Next]_ownerVars, ~ Disturbed'
             PROVE  Steady'
  BY DEF ConnectionInv
<1>g. Grows /\ TypeInv' /\ HistoryInv'
  BY NextGrows, NextTypeInv, NextHistoryInv
<1>s. ~ Disturbed /\ Steady
  BY <1>g, StillDisturbed DEF ConnectionInv
<1>q. \A r \in Requests : rq[r] \in Request /\ Fits(rq[r], rq[r].at)
  BY DEF TypeInv, RequestInv
<1>1. ASSUME NEW r \in Requests, Fault(r) PROVE Steady'
  BY <1>1, FaultWorks DEF Disturbed
<1>2. ASSUME NEW r \in Requests, Begins(r) PROVE Steady'
  <2>1. instance' = instance /\ credential' = credential
    BY <1>2 DEF Begins
  <2>2. \A x \in Requests : x # r => rq'[x] = rq[x]
    BY <1>2 DEF Begins
  <2>3. rq[r].at = "idle" /\ rq'[r].at \notin {"save", "newconnector"}
        /\ (rq'[r].at = "instance" => rq'[r].op = "disconnect")
    BY <1>2 DEF Begins, Idle
  <2>4. \A x \in Requests :
           /\ Connecting(x)' <=> Connecting(x)
           /\ Revoking(x)' <=> Revoking(x)
           /\ Rereading(x)' => Rereading(x) /\ rq'[x] = rq[x]
           /\ rq'[x].at = "newconnector" => rq[x].at = "newconnector"
    BY <2>2, <2>3 DEF Connecting, Revoking, Rereading, Reach
  <2>5. Agrees' <=> Agrees
    BY <2>1 DEF Agrees
  <2>6. QED
    BY <1>s, <2>1, <2>4, <2>5 DEF Steady
<1>3. ASSUME NEW r \in Requests, Works(r), credential' = credential, instance' = instance,
             rq[r].op \notin {"callback", "disconnect", "refresh"},
             rq'[r].at = "newconnector" => instance = "none"
      PROVE  Steady'
  <2>1. rq'[r].op \notin {"callback", "disconnect", "refresh"}
    BY <1>3 DEF Works
  <2>2. QED
    BY <1>s, <1>3, <2>1, StillSteady DEF Connecting, Revoking, Rereading, Reach
<1>4. ASSUME NEW r \in Requests, SchemaSync(r) PROVE Steady'
  <2>1. Works(r) /\ credential' = credential /\ instance' = instance
    BY <1>4, SyncWorks DEF connection
  <2>2. rq[r].op \in {"schema", "select", "template", "places"} /\ rq'[r].op = rq[r].op
    BY <1>4, <2>1, WhoSteps DEF Works
  <2>3. Fits(rq'[r], rq'[r].at)
    BY <1>g DEF TypeInv, RequestInv
  <2>4. rq'[r].at # "newconnector"
    BY <2>2, <2>3 DEF Fits, Provisioning, Starter
  <2>5. QED
    BY <1>3, <2>1, <2>2, <2>4
<1>5. ASSUME NEW r \in Requests, Handle(r), ~ ConnectionStep(r), ~ NewConnector(r) PROVE Steady'
  <2>1. Works(r) /\ rq[r].op \notin {"callback", "disconnect", "refresh"}
    BY <1>5, HandleWorks, HandleIs, WhoSteps DEF Starter, MakesJob
  <2>2. credential' = credential /\ instance' = instance
    BY <1>5, ConnectionWriters DEF ConnectionStep
  <2>3. QED
    BY <1>3, <1>5, <2>1, <2>2, ToNewConnector
<1>6. ASSUME NEW r \in Requests, NewConnector(r) PROVE Steady'
  <2>0. StarterStep(r) /\ Handle(r)
    BY <1>6, Zenon DEF StarterStep, Handle
  <2>1. Works(r) /\ Starter(rq[r].op)
    BY <2>0, HandleWorks, WhoSteps
  <2>2. rq[r].at = "newconnector" /\ instance' = "pending" /\ credential' = credential
    BY <1>6 DEF NewConnector, PutInstance
  <2>3. rq[r].op \notin {"callback", "disconnect", "refresh"} /\ rq'[r].op = rq[r].op
    BY <2>1 DEF Works, Starter
  <2>4. instance # "connected"
    BY <1>s, <2>2 DEF Steady
  <2>5. rq'[r].at = "bundled"
    BY <1>6, Lands DEF NewConnector
  <2>6. QED
    BY <1>s, <2>1, <2>2, <2>3, <2>4, <2>5, StillSteady DEF Connecting, Revoking, Rereading, Reach
<1>7. ASSUME NEW r \in Requests, ConnectionStep(r) PROVE Steady'
  <2>w. Works(r) /\ r \in Open /\ rq[r].op \in {"callback", "disconnect", "refresh"}
    BY <1>7, ConnectionWorks, WhoSteps DEF Works
  <2>o. rq'[r].op = rq[r].op /\ \A x \in Requests : x # r => rq'[x] = rq[x]
    BY <2>w DEF Works
  <2>a. \A x \in Requests : rq[x].at \in {"instance", "save", "newconnector"} => x \in Open
    BY DEF Open
  <2>n. rq'[r].at # "newconnector"
    <3>1. Fits(rq'[r], rq'[r].at)
      BY <1>g DEF TypeInv, RequestInv
    <3>2. QED
      BY <2>w, <2>o, <3>1 DEF Fits, Provisioning, Starter
  <2>1. CASE FindState(r) \/ ConsumeState(r) \/ SearchSources(r) \/ UpsertSources(r)
    <3>1. instance' = instance /\ credential' = credential
      BY <2>1 DEF FindState, ConsumeState, SearchSources, UpsertSources, ReadOnly, connection
    <3>2. rq[r].at \in {"state", "consume", "search", "upsert"}
          /\ (rq[r].at \in {"state", "consume"} => rq[r].op = "callback")
          /\ (rq[r].at \in {"search", "upsert"} => rq[r].op = "refresh")
      BY <2>1 DEF FindState, ConsumeState, SearchSources, UpsertSources, Reach
    <3>3. \/ rq[r].op = "callback" /\ rq'[r].at \in {"consume", "credential", "done"}
          \/ rq[r].op = "refresh" /\ rq'[r].at \in {"upsert", "instance", "done"}
      BY <2>1, Lands DEF FindState, ConsumeState, SearchSources, UpsertSources, Reach
    <3>4. QED
      BY <1>s, <2>w, <2>o, <2>n, <3>1, <3>2, <3>3, StillSteady
         DEF Connecting, Revoking, Rereading, Reach
  <2>2. CASE UpsertCredential(r)
    <3>0. rq[r].op = "callback" /\ rq[r].at = "credential" /\ instance' = instance
      BY <2>2 DEF UpsertCredential, Reach
    <3>1. CASE Answer(r) /\ UNCHANGED credential
      <4>1. rq'[r].at = "done"
        BY <3>1, Lands
      <4>2. QED
        BY <1>s, <2>w, <2>o, <3>0, <3>1, <4>1, StillSteady
           DEF Connecting, Revoking, Rereading, Reach
    <3>2. CASE credential' = "live" /\ Goto(r, "instance")
      <4>1. rq'[r].at = "instance"
        BY <3>2, Lands
      <4>2. Connecting(r)'
        BY <2>o, <3>0, <4>1 DEF Connecting
      <4>3. ASSUME NEW x \in Requests, Revoking(x)' PROVE FALSE
        <5>1. x # r /\ rq[x].op = "disconnect" /\ x \in Open
          BY <2>o, <2>a, <3>0, <4>3 DEF Revoking, Reach
        <5>2. QED
          BY <1>s, <2>w, <3>0, <5>1, ApartUnlessDisturbed
      <4>4. \A x \in Requests : x # r =>
               /\ Rereading(x)' => Rereading(x) /\ rq'[x] = rq[x]
               /\ rq'[x].at = "newconnector" => rq[x].at = "newconnector"
        BY <2>o DEF Rereading, Reach
      <4>5. ~ Rereading(r)'
        BY <2>o, <3>0 DEF Rereading, Reach
      <4>6. QED
        BY <1>s, <2>n, <3>0, <3>2, <4>2, <4>3, <4>4, <4>5 DEF Steady
    <3>3. QED
      BY <2>2, <3>1, <3>2 DEF UpsertCredential, PutCredential
  <2>3. CASE ReadInstance(r)
    <3>0. rq[r].at = "instance" /\ instance' = instance /\ credential' = credential
      BY <2>3 DEF ReadInstance, ReadOnly, connection
    <3>1. CASE rq[r].op = "disconnect"
      <4>1. rq'[r].at \in {"done", "revoke"}
        BY <2>3, <3>1, Lands DEF ReadInstance
      <4>2. QED
        BY <1>s, <2>w, <2>o, <3>0, <3>1, <4>1, StillSteady
           DEF Connecting, Revoking, Rereading, Reach
    <3>2. CASE rq[r].op # "disconnect"
      <4>q. PICK q : q = [rq[r] EXCEPT !.saw = instance]
        OBVIOUS
      <4>1. q \in Request /\ q.saw = instance
        BY <1>q, <4>q DEF Request, TypeInv, TypeOK, Auth
      <4>2. Keep(r, q, "save")
        BY <2>3, <3>2, <4>q DEF ReadInstance
      <4>3. rq'[r] = [q EXCEPT !.at = "save"]
        BY <4>2, Holds
      <4>4. rq'[r].at = "save" /\ rq'[r].saw = instance
        BY <4>1, <4>3 DEF Request
      <4>5. rq[r].op = "callback" => credential = "live"
        BY <1>s, <3>0 DEF Steady, Connecting
      <4>6. QED
        BY <1>s, <2>w, <2>o, <3>0, <3>2, <4>4, <4>5, StillSteady
           DEF Connecting, Revoking, Rereading, Reach
    <3>3. QED
      BY <3>1, <3>2
  <2>4. CASE RevokeCredential(r)
    <3>0. rq[r].op = "disconnect" /\ rq[r].at = "revoke" /\ instance' = instance
          /\ credential' # "live"
      BY <2>4 DEF RevokeCredential, Reach
    <3>1. rq'[r].at = "save"
      BY <2>4, Lands DEF RevokeCredential
    <3>2. Revoking(r)' /\ ~ Rereading(r)'
      BY <2>o, <3>0, <3>1 DEF Revoking, Rereading, Reach
    <3>3. ASSUME NEW x \in Requests, Connecting(x)' PROVE FALSE
      <4>1. x # r /\ rq[x].op = "callback" /\ x \in Open
        BY <2>o, <2>a, <3>0, <3>3 DEF Connecting
      <4>2. QED
        BY <1>s, <2>w, <3>0, <4>1, ApartUnlessDisturbed
    <3>4. \A x \in Requests : x # r =>
             /\ Rereading(x)' => Rereading(x) /\ rq'[x] = rq[x]
             /\ rq'[x].at = "newconnector" => rq[x].at = "newconnector"
      BY <2>o DEF Rereading, Reach
    <3>5. QED
      BY <1>s, <2>n, <3>0, <3>2, <3>3, <3>4 DEF Steady
  <2>5. CASE SaveInstance(r)
    <3>0. rq[r].at = "save" /\ credential' = credential /\ rq'[r].at = "done"
      BY <2>5, Lands DEF SaveInstance
    <3>1. ~ Connecting(r)' /\ ~ Revoking(r)' /\ ~ Rereading(r)'
      BY <3>0 DEF Connecting, Revoking, Rereading, Reach
    <3>x. \A x \in Requests : x # r =>
             /\ Connecting(x)' => Connecting(x)
             /\ Revoking(x)' => Revoking(x)
             /\ Rereading(x)' => Rereading(x) /\ rq'[x] = rq[x]
             /\ rq'[x].at = "newconnector" => rq[x].at = "newconnector"
      BY <2>o DEF Connecting, Revoking, Rereading, Reach
    <3>2. CASE rq[r].op = "callback"
      <4>1. instance' = "connected" /\ credential = "live"
        BY <1>s, <2>5, <3>0, <3>2 DEF SaveInstance, PutInstance, Steady, Connecting
      <4>2. Agrees'
        BY <3>0, <4>1 DEF Agrees
      <4>3. ASSUME NEW x \in Requests, x # r, Rereading(x) PROVE FALSE
        <5>1. rq[x].op = "refresh" /\ x \in Open
          BY <2>a, <4>3 DEF Rereading, Reach
        <5>2. QED
          BY <1>s, <2>w, <3>2, <5>1, ApartUnlessDisturbed
      <4>4. ASSUME NEW x \in Requests, x # r, rq[x].at = "newconnector" PROVE FALSE
        <5>1. rq[x].op \in {"fire", "reprovision"} /\ x \in Open
          BY <1>q, <2>a, <4>4 DEF Fits, Provisioning, Starter
        <5>2. QED
          BY <1>s, <2>w, <3>2, <5>1, ApartUnlessDisturbed
      <4>5. QED
        BY <1>s, <2>n, <3>0, <3>1, <3>x, <4>2, <4>3, <4>4 DEF Steady
    <3>3. CASE rq[r].op = "disconnect"
      <4>1. instance' = "revoked" /\ credential # "live"
        BY <1>s, <2>5, <3>0, <3>3 DEF SaveInstance, PutInstance, Steady, Revoking, Reach
      <4>2. Agrees' /\ instance' # "connected"
        BY <3>0, <4>1 DEF Agrees
      <4>3. ASSUME NEW x \in Requests, x # r, Rereading(x) PROVE FALSE
        <5>1. rq[x].op = "refresh" /\ x \in Open
          BY <2>a, <4>3 DEF Rereading, Reach
        <5>2. QED
          BY <1>s, <2>w, <3>3, <5>1, ApartUnlessDisturbed
      <4>4. QED
        BY <1>s, <2>n, <3>0, <3>1, <3>x, <4>2, <4>3 DEF Steady
    <3>4. CASE rq[r].op = "refresh"
      <4>1. instance' = IF rq[r].saw = "none" THEN instance ELSE rq[r].saw
        BY <2>5, <3>4 DEF SaveInstance, PutInstance
      <4>2. rq[r].saw # "none" => (rq[r].saw = "connected" <=> instance = "connected")
        BY <1>s, <3>0, <3>4 DEF Steady, Rereading, Reach
      <4>3. instance' = "connected" <=> instance = "connected"
        BY <4>1, <4>2
      <4>4. ~ Connecting(r) /\ ~ Revoking(r)
        BY <3>4 DEF Connecting, Revoking, Reach
      <4>5. QED
        BY <1>s, <2>w, <2>n, <3>0, <3>1, <4>3, <4>4, StillSteady
    <3>5. QED
      BY <2>w, <3>2, <3>3, <3>4
  <2>6. QED
    BY <1>7, <2>1, <2>2, <2>3, <2>4, <2>5 DEF ConnectionStep
<1>8. ASSUME UNCHANGED <<rq, instance, credential>> PROVE Steady'
  BY <1>s, <1>8 DEF Steady, Agrees, Connecting, Revoking, Rereading, Reach
<1>9. ASSUME NEW r \in Requests, Arrive(r) PROVE Steady'
  BY <1>2, <1>9, ArriveBegins
<1>10. ASSUME NEW r \in Requests, Handle(r) PROVE Steady'
  BY <1>5, <1>6, <1>7, <1>10
<1>11. ASSUME NEW s \in States, Expire(s) PROVE Steady'
  BY <1>8, <1>11 DEF Expire
<1>12. CASE UNCHANGED ownerVars
  BY <1>8, <1>12 DEF ownerVars, connection
<1>13. QED
  BY <1>1, <1>4, <1>9, <1>10, <1>11, <1>12 DEF Next

LEMMA InitConnectionInv == Init => ConnectionInv
<1> SUFFICES ASSUME Init PROVE ConnectionInv
  OBVIOUS
<1>1. PICK s \in Starts : instance = s.instance /\ credential = s.credential
  BY DEF Init
<1>2. Agrees
  BY <1>1, StartsAssumption DEF Agrees
<1>3. \A r \in Requests : rq[r].at = "idle"
  BY DEF Init, Idle
<1>4. QED
  BY <1>2, <1>3 DEF ConnectionInv, Steady, Connecting, Revoking, Rereading, Reach

(* However many callbacks, disconnects, refreshes of the sources and         *)
(* provisionings overlap, an owner whose requests have ended is shown as     *)
(* connected exactly while there is a token, unless a call failed or two     *)
(* requests met that are known to disturb each other (NotionOAuthService     *)
(* writes the connector and its credential in two calls).                    *)
THEOREM ConnectionShownIsReal == Spec => []ConnectionAgrees
<1>1. ConnectionInv => ConnectionAgrees
  <2>1. ASSUME Steady, ~ Agrees PROVE Busy({"callback", "disconnect"})
    BY <2>1 DEF Steady, Connecting, Revoking, Reach, Busy, Open
  <2>2. QED
    BY <2>1 DEF ConnectionInv, ConnectionAgrees, Disturbed, Agrees
<1>2. Init => TypeInv /\ HistoryInv /\ ConnectionInv
  BY InitTypeInv, InitHistoryInv, InitConnectionInv
<1>3. TypeInv /\ HistoryInv /\ ConnectionInv /\ [Next]_ownerVars
         => TypeInv' /\ HistoryInv' /\ ConnectionInv'
  BY NextTypeInv, NextHistoryInv, NextConnectionInv
<1>4. QED
  BY <1>1, <1>2, <1>3, PTL DEF Spec

-----------------------------------------------------------------------------
(* The starter definitions. *)

ToStarterJob == {"provision", "newconnector", "bundled", "newbundled", "job"}
ToStarterLink == {"mint", "links", "link"}
StarterAt(ats) == \E r \in Requests : Starter(rq[r].op) /\ rq[r].at \in ats

Restored == faults > 0 \/ MetBy({"patch", "rotate"}, {"remove", "reprovision"})

(* The path of the starter trigger is its own, and its job is only linked to *)
(* it: nobody else's trigger makes that of a provisioning be refused.        *)
StarterAlone ==
    /\ \A x \in Minted : Exists(trigger, x) => (trigger[x].path = "/locations" <=> x = "starter")
    /\ \A r \in Requests : rq[r].at = "write" =>
          (rq[r].trow.path = "/locations" <=> rq[r].trig = "starter")
    /\ \A l \in links : l[2] = "starter" => l[1] = "starter"

Linked == <<"starter", "starter">> \in links
Editing(r) == rq[r].op \in {"patch", "rotate"} /\ rq[r].at = "write"

(* While a starter job is missing somebody is about to make it, and while    *)
(* the link is missing somebody is about to make that.                       *)
StarterKept ==
    /\ \A r \in Requests : Editing(r) => Exists(trigger, rq[r].trig)
    /\ Exists(trigger, "starter") \/ StarterAt(ToStarterLink) =>
          Exists(job, "starter") \/ StarterAt(ToStarterJob)
    /\ Exists(trigger, "starter") => Linked \/ StarterAt(ToStarterJob \cup ToStarterLink)

StarterInv == StarterAlone /\ (Restored \/ StarterKept)

(* Only who reads a trigger comes to write it.                              *)
LEMMA ToWrite ==
    ASSUME TypeInv, NEW r \in Requests, Handle(r) \/ SchemaSync(r), rq'[r].at = "write"
    PROVE  ReadTrigger(r)
<1>1. Works(r) /\ TypeInv'
  BY HandleWorks, SyncWorks, HandleSteps, SyncSteps
<1>2. rq[r].op \in {"patch", "rotate", "remove"}
  <2>1. Fits(rq'[r], rq'[r].at)
    BY <1>1 DEF TypeInv, RequestInv
  <2>2. QED
    BY <1>1, <2>1 DEF Fits, Works
<1>3. PipelineStep(r)
  BY <1>2, HandleIs, WhoSteps DEF Starter, MakesJob
<1>4. ~ SaveTrigger(r) /\ ~ RemoveTrigger(r)
  BY Lands DEF SaveTrigger, RemoveTrigger
<1>5. Fits(rq[r], rq[r].at)
  BY DEF TypeInv, RequestInv
<1>6. QED
  BY <1>2, <1>3, <1>4, <1>5
     DEF PipelineStep, CheckTrigger, CheckTarget, CheckLimit, SaveGraph, FindJob, UpdateJob,
         Reach, Fits

LEMMA ReadsTrigger ==
    ASSUME TypeInv, NEW r \in Requests, ReadTrigger(r), rq'[r].at = "write"
    PROVE  /\ rq[r].trig \in Minted /\ Exists(trigger, rq[r].trig) /\ trigger' = trigger
           /\ rq'[r].trig = rq[r].trig /\ rq'[r].trow = trigger[rq[r].trig]
<1>q. rq[r] \in Request /\ Fits(rq[r], rq[r].at) /\ trigger \in [Minted -> Or(Trigger)]
  BY DEF TypeInv, RequestInv, TypeOK
<1>1. rq[r].trig \in Minted /\ trigger' = trigger
  BY <1>q DEF ReadTrigger, Fits, ReadOnly, pipelines
<1>2. ~ Answer(r)
  BY Lands
<1>3. Exists(trigger, rq[r].trig)
  BY <1>2 DEF ReadTrigger
<1>q2. PICK q : q = [rq[r] EXCEPT !.trow = trigger[rq[r].trig]]
  OBVIOUS
<1>4. trigger[rq[r].trig] \in Trigger
  BY <1>q, <1>1, <1>3 DEF Exists, Or
<1>5. q \in Request /\ q.trig = rq[r].trig /\ q.trow = trigger[rq[r].trig]
  BY <1>q, <1>4, <1>q2 DEF Request, Or
<1>6. rq'[r] = [q EXCEPT !.at = "write"]
  <2>1. Keep(r, q, "write")
    BY <1>2, <1>q2 DEF ReadTrigger
  <2>2. QED
    BY <2>1, Holds
<1>7. QED
  BY <1>1, <1>3, <1>5, <1>6 DEF Request

LEMMA FaultLands ==
    ASSUME TypeInv, NEW r \in Requests, Fault(r)
    PROVE  rq'[r].at # "write"
<1>1. CASE Syncing(r)
  <2>1. rq[r].at \in InSync /\ Fits(rq[r], rq[r].at) /\ rq[r] \in Request
    BY <1>1 DEF Syncing, InSync, TypeInv, RequestInv
  <2>2. SyncEnds(r)
    BY <1>1 DEF Fault
  <2>q. PICK q : q = [rq[r] EXCEPT !.row = Null, !.old = Null, !.src = Null, !.by = "token"]
    OBVIOUS
  <2>3. "at" \in DOMAIN q
    BY <2>1, <2>q DEF Request
  <2>4. CASE rq[r].op = "schema"
    BY <2>2, <2>4, Lands DEF SyncEnds
  <2>5. CASE rq[r].op # "schema"
    <3>1. Keep(r, q, rq[r].back) /\ rq[r].back \in {"pick", "trigger", "job"}
      BY <2>1, <2>2, <2>q, <2>5 DEF SyncEnds, Fits
    <3>2. QED
      BY <2>3, <3>1, Lands
  <2>6. QED
    BY <2>4, <2>5
<1>2. CASE ~ Syncing(r)
  BY <1>2, Lands DEF Fault
<1>3. QED
  BY <1>1, <1>2

LEMMA NextStarterAlone == TypeInv /\ StarterAlone /\ [Next]_ownerVars => StarterAlone'
<1> SUFFICES ASSUME TypeInv, StarterAlone, [Next]_ownerVars PROVE StarterAlone'
  OBVIOUS
<1>q. \A r \in Requests : rq[r] \in Request /\ Fits(rq[r], rq[r].at)
  BY DEF TypeInv, RequestInv
<1>t. trigger \in [Minted -> Or(Trigger)] /\ links \subseteq Minted \X Minted
  BY DEF TypeInv, TypeOK
<1>m. "starter" \in Minted /\ Requests \subseteq Minted /\ "starter" \notin Requests
  BY OwnerAssumption DEF Minted
<1>1. ASSUME NEW r \in Requests, \A s \in Requests : s # r => rq'[s] = rq[s],
             rq'[r].at = "write" => (rq'[r].trow.path = "/locations" <=> rq'[r].trig = "starter"),
             UNCHANGED <<trigger, links>>
      PROVE  StarterAlone'
  BY <1>1 DEF StarterAlone, Exists
<1>2. ASSUME NEW r \in Requests, Begins(r) PROVE StarterAlone'
  BY <1>1, <1>2 DEF Begins, pipelines
<1>3. ASSUME NEW r \in Requests, Fault(r) PROVE StarterAlone'
  BY <1>1, <1>3, FaultWorks, FaultLands DEF Works, pipelines
<1>4. ASSUME NEW r \in Requests, SchemaSync(r) PROVE StarterAlone'
  <2>1. rq'[r].at # "write"
    <3>1. ~ ReadTrigger(r)
      BY <1>4, WhoSteps DEF ReadTrigger
    <3>2. QED
      BY <1>4, <3>1, ToWrite
  <2>2. QED
    BY <1>1, <1>4, <2>1, SyncWorks DEF Works, pipelines
<1>5. ASSUME NEW r \in Requests, ReadTrigger(r), Handle(r) PROVE StarterAlone'
  <2>1. UNCHANGED <<trigger, links>>
    BY <1>5 DEF ReadTrigger, ReadOnly, pipelines
  <2>2. rq'[r].at = "write" => (rq'[r].trow.path = "/locations" <=> rq'[r].trig = "starter")
    BY <1>5, ReadsTrigger DEF StarterAlone
  <2>3. QED
    BY <1>1, <1>5, <2>1, <2>2, HandleWorks DEF Works
<1>6. ASSUME NEW r \in Requests, Handle(r), ~ ReadTrigger(r) PROVE StarterAlone'
  <2>1. rq'[r].at # "write" /\ \A s \in Requests : s # r => rq'[s] = rq[s]
    BY <1>6, ToWrite, HandleWorks DEF Works
  <2>2. \A s \in Requests : rq'[s].at = "write" =>
           (rq'[s].trow.path = "/locations" <=> rq'[s].trig = "starter")
    BY <2>1 DEF StarterAlone
  <2>3. \A x \in Minted : Exists(trigger, x)' =>
           (trigger'[x].path = "/locations" <=> x = "starter")
    <3>1. CASE trigger' = trigger
      BY <3>1 DEF StarterAlone, Exists
    <3>2. ASSUME NEW x \in Minted, trigger' = [trigger EXCEPT ![x] = Null]
          PROVE  \A y \in Minted : Exists(trigger, y)' =>
                    (trigger'[y].path = "/locations" <=> y = "starter")
      BY <1>t, <3>2 DEF StarterAlone, Exists
    <3>3. ASSUME NEW x \in Minted, NEW row, trigger' = [trigger EXCEPT ![x] = row],
                 row.path = "/locations" <=> x = "starter"
          PROVE  \A y \in Minted : Exists(trigger, y)' =>
                    (trigger'[y].path = "/locations" <=> y = "starter")
      BY <1>t, <3>3 DEF StarterAlone, Exists
    <3>4. CASE MintTrigger(r)
      <4>1. rq[r].op \in MakesJob /\ rq[r].op # "create"
        BY <1>q, <3>4 DEF MintTrigger, Fits
      <4>2. PICK row : row = [path |-> PathOf(rq[r].op), secret |-> r]
        OBVIOUS
      <4>3. row.path = "/locations" <=> IdOf(r) = "starter"
        BY <1>m, <4>1, <4>2 DEF PathOf, IdOf, Starter, MakesJob
      <4>4. IdOf(r) \in Minted
        BY <1>m DEF IdOf
      <4>5. trigger' = trigger \/ trigger' = [trigger EXCEPT ![IdOf(r)] = row]
        BY <3>4, <4>2 DEF MintTrigger, PutTrigger, TriggerRefused
      <4>6. QED
        BY <3>1, <3>3, <4>3, <4>4, <4>5
    <3>5. CASE DropStarterTrigger(r) \/ RemoveTrigger(r)
      <4>1. rq[r].trig \in Minted /\ trigger' = [trigger EXCEPT ![rq[r].trig] = Null]
        BY <1>q, <3>5 DEF DropStarterTrigger, RemoveTrigger, DeleteTriggerRow, Reach, Fits
      <4>2. QED
        BY <3>2, <4>1
    <3>6. CASE SaveTrigger(r)
      <4>1. /\ rq[r].at = "write" /\ rq[r].trig \in Minted /\ rq[r].trow \in Trigger
        BY <1>q, <3>6 DEF SaveTrigger, Fits
      <4>2. PICK row : row = IF rq[r].op = "rotate" THEN [rq[r].trow EXCEPT !.secret = r]
                             ELSE rq[r].trow
        OBVIOUS
      <4>3. row.path = rq[r].trow.path
        BY <4>1, <4>2 DEF Trigger
      <4>4. row.path = "/locations" <=> rq[r].trig = "starter"
        BY <4>1, <4>3 DEF StarterAlone
      <4>5. trigger' = trigger \/ trigger' = [trigger EXCEPT ![rq[r].trig] = row]
        BY <3>6, <4>2 DEF SaveTrigger, PutTrigger, TriggerRefused
      <4>6. QED
        BY <3>1, <3>3, <4>1, <4>4, <4>5
    <3>7. QED
      BY <1>6, <3>1, <3>4, <3>5, <3>6, TriggerWriters
  <2>4. \A l \in links' : l[2] = "starter" => l[1] = "starter"
    <3>1. CASE links' \subseteq links
      BY <3>1 DEF StarterAlone
    <3>2. CASE LinkTrigger(r)
      <4>1. rq[r].job = "starter" => rq[r].trig = "starter"
        BY <1>q, <1>m, <3>2 DEF LinkTrigger, Fits, Linking
      <4>2. links' \subseteq links \cup {<<rq[r].trig, rq[r].job>>}
        BY <3>2 DEF LinkTrigger
      <4>3. QED
        BY <4>1, <4>2 DEF StarterAlone
    <3>3. CASE DropStarterTrigger(r) \/ DropStarterJob(r) \/ RemoveTrigger(r)
      <4>1. links' \subseteq links
        BY <3>3 DEF DropStarterTrigger, DropStarterJob, RemoveTrigger, DeleteTriggerRow
      <4>2. QED
        BY <3>1, <4>1
    <3>4. QED
      BY <1>6, <3>1, <3>2, <3>3, TriggerWriters
  <2>5. QED
    BY <2>2, <2>3, <2>4 DEF StarterAlone
<1>7. ASSUME NEW r \in Requests, Arrive(r) PROVE StarterAlone'
  BY <1>2, <1>7, ArriveBegins
<1>8. ASSUME NEW r \in Requests, Handle(r) PROVE StarterAlone'
  BY <1>5, <1>6, <1>8
<1>9. ASSUME UNCHANGED <<rq, trigger, links>> PROVE StarterAlone'
  BY <1>9 DEF StarterAlone, Exists
<1>10. ASSUME NEW s \in States, Expire(s) PROVE StarterAlone'
  BY <1>9, <1>10 DEF Expire, OnlyConnection, pipelines
<1>11. CASE UNCHANGED ownerVars
  BY <1>9, <1>11 DEF ownerVars, pipelines
<1>12. QED
  BY <1>3, <1>4, <1>7, <1>8, <1>10, <1>11 DEF Next

LEMMA StillRestored ==
    ASSUME Grows, HistoryInv, Restored
    PROVE  Restored'
<1>1. CASE faults > 0
  BY <1>1 DEF Grows, Restored
<1>2. CASE MetBy({"patch", "rotate"}, {"remove", "reprovision"})
  <2>1. MetBy({"patch", "rotate"}, {"remove", "reprovision"})'
    BY <1>2, MetStays
  <2>2. QED
    BY <2>1 DEF Restored
<1>3. QED
  BY <1>1, <1>2 DEF Restored

(* A step that takes nothing away, of a request that stays on its way.      *)
LEMMA StillKept ==
    ASSUME StarterKept, NEW r \in Requests, Works(r),
           \A x \in Minted : Exists(trigger, x) => Exists(trigger, x)',
           Exists(trigger, "starter")' => Exists(trigger, "starter"),
           Exists(job, "starter") => Exists(job, "starter")',
           Linked => Linked',
           Starter(rq[r].op) /\ rq[r].at \in ToStarterJob => rq'[r].at \in ToStarterJob,
           Starter(rq[r].op) /\ rq[r].at \in ToStarterLink => rq'[r].at \in ToStarterLink,
           Starter(rq[r].op) /\ rq'[r].at \in ToStarterLink => rq[r].at \in ToStarterLink,
           Editing(r)' => rq'[r].trig \in Minted /\ Exists(trigger, rq'[r].trig),
           \A x \in Requests : Editing(x) => rq[x].trig \in Minted
    PROVE  StarterKept'
<1>1. rq'[r].op = rq[r].op /\ \A x \in Requests : x # r => rq'[x] = rq[x]
  BY DEF Works
<1>2. \A x \in Requests : x # r => (Editing(x)' <=> Editing(x))
  BY <1>1 DEF Editing
<1>3. (\A x \in Requests : Editing(x) => Exists(trigger, rq[x].trig))'
  <2>1. ASSUME NEW x \in Requests, x # r, Editing(x)' PROVE Exists(trigger, rq[x].trig)'
    <3>1. rq[x].trig \in Minted /\ Exists(trigger, rq[x].trig) /\ rq'[x].trig = rq[x].trig
      BY <1>1, <1>2, <2>1 DEF StarterKept
    <3>2. QED
      BY <3>1 DEF Exists
  <2>2. ASSUME Editing(r)' PROVE Exists(trigger, rq[r].trig)'
    BY <2>2 DEF Exists
  <2>3. QED
    BY <2>1, <2>2
<1>4. StarterAt(ToStarterJob) => StarterAt(ToStarterJob)'
  BY <1>1 DEF StarterAt, Starter, ToStarterJob
<1>5. StarterAt(ToStarterLink) <=> StarterAt(ToStarterLink)'
  BY <1>1 DEF StarterAt, Starter, ToStarterLink
<1>6. StarterAt(ToStarterJob \cup ToStarterLink) => StarterAt(ToStarterJob \cup ToStarterLink)'
  BY <1>1 DEF StarterAt, Starter, ToStarterJob, ToStarterLink
<1>7. (Exists(trigger, "starter") \/ StarterAt(ToStarterLink) =>
          Exists(job, "starter") \/ StarterAt(ToStarterJob))'
  BY <1>4, <1>5 DEF StarterKept
<1>8. (Exists(trigger, "starter") => Linked \/ StarterAt(ToStarterJob \cup ToStarterLink))'
  BY <1>6 DEF StarterKept
<1>9. QED
  BY <1>3, <1>7, <1>8 DEF StarterKept

(* A trigger is deleted, which nobody who edits it has read.                *)
LEMMA DeletedAlone ==
    ASSUME TypeInv, HistoryInv, StarterKept, ~ Restored, StarterAlone, NEW r \in Requests, Works(r),
           rq[r].op \in {"remove", "reprovision"}, NEW x \in Minted, DeleteTriggerRow(x),
           job' = job, rq[r].at \notin ToStarterJob \cup ToStarterLink,
           rq'[r].at \notin ToStarterLink, rq'[r].at # "write"
    PROVE  StarterKept'
<1>t. trigger \in [Minted -> Or(Trigger)] /\ "starter" \in Minted
  BY DEF TypeInv, TypeOK, Minted
<1>1. rq'[r].op = rq[r].op /\ \A y \in Requests : y # r => rq'[y] = rq[y]
  BY DEF Works
<1>2. trigger' = [trigger EXCEPT ![x] = Null] /\ links' = {l \in links : l[1] # x}
  BY DEF DeleteTriggerRow
<1>3. \A y \in Minted : Exists(trigger, y)' <=> Exists(trigger, y) /\ y # x
  BY <1>t, <1>2 DEF Exists
<1>4. ASSUME NEW y \in Requests, Editing(y)' PROVE Exists(trigger, rq[y].trig)'
  <2>1. y # r /\ Editing(y) /\ rq'[y] = rq[y]
    BY <1>1, <1>4 DEF Editing
  <2>2. rq[y].trig \in Minted /\ Exists(trigger, rq[y].trig)
    BY <2>1 DEF Editing, StarterKept, TypeInv, RequestInv, Fits
  <2>3. y \in Open /\ r \in Open
    BY <2>1 DEF Works, Editing, Open
  <2>4. MetBy({"patch", "rotate"}, {"remove", "reprovision"})
    BY <2>1, <2>3, OpenMeet DEF Editing
  <2>5. QED
    BY <2>4 DEF Restored
<1>5. StarterAt(ToStarterJob) => StarterAt(ToStarterJob)'
  BY <1>1 DEF StarterAt, Starter, ToStarterJob
<1>6. StarterAt(ToStarterLink)' => StarterAt(ToStarterLink)
  BY <1>1 DEF StarterAt, Starter, ToStarterLink
<1>7. StarterAt(ToStarterJob \cup ToStarterLink) => StarterAt(ToStarterJob \cup ToStarterLink)'
  BY <1>1 DEF StarterAt, Starter, ToStarterJob, ToStarterLink
<1>8. (Exists(trigger, "starter") \/ StarterAt(ToStarterLink) =>
          Exists(job, "starter") \/ StarterAt(ToStarterJob))'
  BY <1>t, <1>3, <1>5, <1>6 DEF StarterKept, Exists
<1>9. Exists(trigger, "starter")' /\ Linked => Linked'
  BY <1>t, <1>2, <1>3 DEF Linked
<1>10. (Exists(trigger, "starter") => Linked \/ StarterAt(ToStarterJob \cup ToStarterLink))'
  BY <1>t, <1>3, <1>7, <1>9 DEF StarterKept
<1>11. QED
  BY <1>4, <1>8, <1>10 DEF StarterKept

LEMMA NextStarterKept ==
    TypeInv /\ HistoryInv /\ StarterInv /\ [Next]_ownerVars => StarterInv'
<1>a. TypeInv /\ StarterInv /\ [Next]_ownerVars => StarterAlone'
  BY NextStarterAlone DEF StarterInv
<1> SUFFICES ASSUME TypeInv, HistoryInv, StarterInv, [Next]_ownerVars, ~ Restored'
             PROVE  StarterKept'
  BY <1>a DEF StarterInv
<1>g. Grows
  BY NextGrows
<1>s. ~ Restored /\ StarterKept /\ StarterAlone
  BY <1>g, StillRestored DEF StarterInv
<1>q. \A r \in Requests : rq[r] \in Request /\ Fits(rq[r], rq[r].at)
  BY DEF TypeInv, RequestInv
<1>t. /\ trigger \in [Minted -> Or(Trigger)] /\ job \in [Minted -> Or(Job)]
      /\ links \subseteq Minted \X Minted
  BY DEF TypeInv, TypeOK
<1>m. "starter" \in Minted /\ Requests \subseteq Minted /\ "starter" \notin Requests
  BY OwnerAssumption DEF Minted
<1>e. \A x \in Requests : Editing(x) => rq[x].trig \in Minted
  BY <1>q DEF Editing, Fits
<1>1. ASSUME NEW r \in Requests, Fault(r) PROVE StarterKept'
  BY <1>1, FaultWorks DEF Restored
<1>2. ASSUME NEW r \in Requests, Begins(r) PROVE StarterKept'
  <2>1. UNCHANGED <<trigger, job, links>> /\ \A x \in Requests : x # r => rq'[x] = rq[x]
    BY <1>2 DEF Begins, pipelines
  <2>2. rq[r].at = "idle" /\ rq'[r].at \notin ToStarterJob \cup ToStarterLink \cup {"write"}
    BY <1>2 DEF Begins, Idle, ToStarterJob, ToStarterLink
  <2>3. \A x \in Requests : (Editing(x)' <=> Editing(x)) /\ (Editing(x) => rq'[x] = rq[x])
    BY <2>1, <2>2 DEF Editing
  <2>4. /\ StarterAt(ToStarterJob)' <=> StarterAt(ToStarterJob)
        /\ StarterAt(ToStarterLink)' <=> StarterAt(ToStarterLink)
        /\ StarterAt(ToStarterJob \cup ToStarterLink)'
            <=> StarterAt(ToStarterJob \cup ToStarterLink)
    BY <2>1, <2>2 DEF StarterAt, ToStarterJob, ToStarterLink
  <2>5. QED
    BY <1>s, <2>1, <2>3, <2>4 DEF StarterKept, Exists, Linked
<1>3. ASSUME NEW r \in Requests, Handle(r) \/ SchemaSync(r)
      PROVE  Editing(r)' => rq'[r].trig \in Minted /\ Exists(trigger, rq'[r].trig)
  BY <1>3, ToWrite, ReadsTrigger DEF Editing
<1>4. ASSUME NEW r \in Requests, SchemaSync(r) PROVE StarterKept'
  <2>1. Works(r) /\ UNCHANGED <<trigger, job, links>> /\ ~ Starter(rq[r].op)
    BY <1>4, SyncWorks, WhoSteps DEF pipelines, Starter
  <2>2. QED
    BY <1>s, <1>e, <1>3, <1>4, <2>1, StillKept DEF Exists, Linked
<1>5. ASSUME NEW r \in Requests, Handle(r), ~ Starter(rq[r].op), ~ RemoveTrigger(r)
      PROVE  StarterKept'
  <2>w. Works(r)
    BY <1>5, HandleWorks
  <2>0. ~ DropStarterTrigger(r) /\ ~ DropStarterJob(r)
    BY <1>5 DEF DropStarterTrigger, DropStarterJob, Reach, Starter
  <2>1. \A x \in Minted : Exists(trigger, x) => Exists(trigger, x)'
    <3>1. ASSUME NEW x, NEW row, row # Null, trigger' = [trigger EXCEPT ![x] = row]
          PROVE  \A y \in Minted : Exists(trigger, y) => Exists(trigger, y)'
      BY <1>t, <3>1 DEF Exists
    <3>2. CASE MintTrigger(r)
      <4>1. PICK row : row = [path |-> PathOf(rq[r].op), secret |-> r]
        OBVIOUS
      <4>2. rq[r].op \in MakesJob
        BY <1>q, <3>2 DEF MintTrigger, Fits
      <4>3. row \in Trigger
        BY <1>m, <4>1, <4>2 DEF Trigger, PathOf, Paths, Starter
      <4>4. row # Null
        BY <4>3, NullIsNoRow
      <4>5. trigger' = trigger \/ trigger' = [trigger EXCEPT ![IdOf(r)] = row]
        BY <3>2, <4>1 DEF MintTrigger, PutTrigger, TriggerRefused
      <4>6. QED
        BY <3>1, <4>4, <4>5 DEF Exists
    <3>3. CASE SaveTrigger(r)
      <4>1. rq[r].trow \in Trigger
        BY <1>q, <3>3 DEF SaveTrigger, Fits
      <4>2. PICK row : row = IF rq[r].op = "rotate" THEN [rq[r].trow EXCEPT !.secret = r]
                             ELSE rq[r].trow
        OBVIOUS
      <4>3. row \in Trigger
        BY <1>m, <4>1, <4>2 DEF Trigger
      <4>4. row # Null
        BY <4>3, NullIsNoRow
      <4>5. trigger' = trigger \/ trigger' = [trigger EXCEPT ![rq[r].trig] = row]
        BY <3>3, <4>2 DEF SaveTrigger, PutTrigger, TriggerRefused
      <4>6. QED
        BY <3>1, <4>4, <4>5 DEF Exists
    <3>4. QED
      BY <1>5, <2>0, <3>2, <3>3, TriggerWriters DEF Exists
  <2>2. Exists(trigger, "starter")' => Exists(trigger, "starter")
    <3>1. CASE MintTrigger(r)
      <4>1. IdOf(r) # "starter"
        BY <1>5, <1>m DEF IdOf
      <4>2. QED
        BY <1>t, <1>m, <3>1, <4>1 DEF MintTrigger, PutTrigger, TriggerRefused, Exists
    <3>2. CASE SaveTrigger(r)
      <4>1. Editing(r)
        BY <3>2 DEF SaveTrigger, Editing
      <4>2. Exists(trigger, rq[r].trig)
        BY <1>s, <4>1 DEF StarterKept
      <4>3. \A y \in Minted : y # rq[r].trig => trigger'[y] = trigger[y]
        BY <1>t, <3>2 DEF SaveTrigger, PutTrigger, TriggerRefused
      <4>4. QED
        BY <1>m, <4>2, <4>3 DEF Exists
    <3>3. QED
      BY <1>5, <2>0, <3>1, <3>2, TriggerWriters DEF Exists
  <2>3. Exists(job, "starter") => Exists(job, "starter")'
    <3>1. CASE SaveJob(r)
      <4>1. IdOf(r) # "starter"
        BY <1>5, <1>m DEF IdOf
      <4>2. PICK v : job' = [job EXCEPT ![IdOf(r)] = v]
        BY <3>1 DEF SaveJob
      <4>3. QED
        BY <1>t, <1>m, <4>1, <4>2 DEF Exists
    <3>2. CASE UpdateJob(r)
      <4>1. SUFFICES ASSUME Exists(job, rq[r].job)
                     PROVE  Exists(job, "starter") => Exists(job, "starter")'
        BY <3>2 DEF UpdateJob, Exists
      <4>2. rq[r].job \in Minted
        BY <1>q, <3>2 DEF UpdateJob, Fits
      <4>3. job[rq[r].job] \in Job
        BY <1>t, <4>1, <4>2 DEF Exists, Or
      <4>4. PICK v \in Job : v = [job[rq[r].job] EXCEPT !.active = (rq[r].op = "status")]
        BY <4>3 DEF Job
      <4>5. job' = [job EXCEPT ![rq[r].job] = v]
        BY <3>2, <4>1, <4>4 DEF UpdateJob
      <4>6. QED
        BY <1>t, <1>m, <4>5, NullIsNoRow DEF Exists
    <3>3. CASE SaveGraph(r)
      <4>1. CASE job' = job
        BY <4>1 DEF Exists
      <4>2. CASE job' # job
        <5>1. PICK row \in Graphs : job' = [job EXCEPT ![rq[r].job] = row]
          BY <3>3, <4>2 DEF SaveGraph
        <5>2. row \in Job /\ rq[r].job \in Minted
          BY <1>q, <3>3, ResourcesAssumption DEF SaveGraph, Reach, Fits
        <5>3. QED
          BY <1>t, <1>m, <5>1, <5>2, NullIsNoRow DEF Exists
      <4>3. QED
        BY <4>1, <4>2
    <3>4. QED
      BY <1>5, <2>0, <3>1, <3>2, <3>3, JobWriters DEF Exists
  <2>4. Linked => Linked'
    <3>1. links \subseteq links'
      BY <1>5, <2>0, TriggerWriters DEF LinkTrigger
    <3>2. QED
      BY <3>1 DEF Linked
  <2>5. QED
    BY <1>s, <1>e, <1>3, <1>5, <2>w, <2>1, <2>2, <2>3, <2>4, StillKept
<1>6. ASSUME NEW r \in Requests, RemoveTrigger(r) PROVE StarterKept'
  <2>1. Handle(r)
    BY <1>6, Zenon DEF Handle
  <2>2. Works(r) /\ rq[r].trig \in Minted
    BY <1>q, <1>6, <2>1, HandleWorks DEF RemoveTrigger, Reach, Fits
  <2>3. rq[r].op = "remove" /\ rq[r].at = "write" /\ DeleteTriggerRow(rq[r].trig) /\ job' = job
    BY <1>6 DEF RemoveTrigger, Reach
  <2>4. rq'[r].at = "done"
    BY <1>6, Lands DEF RemoveTrigger
  <2>x. PICK x \in Minted : DeleteTriggerRow(x)
    BY <2>2, <2>3
  <2>5. QED
    BY <1>s, <2>2, <2>3, <2>4, <2>x, DeletedAlone DEF ToStarterJob, ToStarterLink
<1>7. ASSUME NEW r \in Requests, StarterStep(r), Handle(r) PROVE StarterKept'
  <2>w. Works(r)
    BY <1>7, HandleWorks
  <2>1. CASE DropStarterTrigger(r)
    <3>1. rq[r].trig \in Minted
      BY <1>q, <2>1 DEF DropStarterTrigger, Reach, Fits
    <3>2. /\ rq[r].op = "reprovision" /\ rq[r].at = "droptrigger"
          /\ DeleteTriggerRow(rq[r].trig) /\ job' = job
      BY <2>1 DEF DropStarterTrigger, Reach
    <3>3. rq'[r].at = "starterjob"
      BY <2>1, Lands DEF DropStarterTrigger
    <3>x. PICK x \in Minted : DeleteTriggerRow(x)
      BY <3>1, <3>2
    <3>4. QED
      BY <1>s, <2>w, <3>2, <3>3, <3>x, DeletedAlone DEF ToStarterJob, ToStarterLink
  <2>2. CASE DropStarterJob(r)
    <3>1. rq'[r].at = "provision" /\ rq[r].op = "reprovision" /\ trigger' = trigger
      BY <2>2, Lands DEF DropStarterJob, Reach
    <3>2. rq'[r].op = rq[r].op /\ \A x \in Requests : x # r => rq'[x] = rq[x]
      BY <2>w DEF Works
    <3>3. StarterAt(ToStarterJob)' /\ StarterAt(ToStarterJob \cup ToStarterLink)'
      BY <3>1, <3>2 DEF StarterAt, Starter, ToStarterJob, ToStarterLink
    <3>4. \A x \in Requests : Editing(x)' => Editing(x) /\ rq'[x] = rq[x]
      BY <3>1, <3>2 DEF Editing
    <3>5. QED
      BY <1>s, <3>1, <3>3, <3>4 DEF StarterKept, Exists
  <2>3. CASE ~ DropStarterTrigger(r) /\ ~ DropStarterJob(r)
    <3>0. /\ ~ SaveJob(r) /\ ~ SaveGraph(r) /\ ~ UpdateJob(r) /\ ~ MintTrigger(r)
          /\ ~ SaveTrigger(r) /\ ~ RemoveTrigger(r) /\ ~ LinkTrigger(r)
      <4>1. Starter(rq[r].op)
        BY <1>7, WhoSteps
      <4>2. /\ ~ SaveGraph(r) /\ ~ UpdateJob(r) /\ ~ SaveTrigger(r)
            /\ ~ RemoveTrigger(r)
        BY <1>q, <4>1 DEF SaveGraph, UpdateJob, SaveTrigger, RemoveTrigger, Reach, Starter, Fits
      <4>3. rq[r].at \notin {"job", "mint", "link"}
        BY <1>7 DEF StarterStep, ReadLimits, SeedLimits, FindStarter, DropStarterTrigger,
                    FindStarterJob, DropStarterJob, ProvisionConnector, NewConnector,
                    ProvisionTarget, NewBundledTarget, Reach
      <4>4. QED
        BY <4>2, <4>3 DEF SaveJob, MintTrigger, LinkTrigger
    <3>1. UNCHANGED <<trigger, job, links>>
      BY <1>7, <2>3, <3>0, JobWriters, TriggerWriters
    <3>2. /\ rq[r].at \notin ToStarterLink /\ rq'[r].at \notin ToStarterLink
          /\ rq[r].at \in ToStarterJob => rq'[r].at \in ToStarterJob
      <4>1. CASE ReadLimits(r) \/ SeedLimits(r) \/ FindStarterJob(r) \/ NewConnector(r)
        BY <4>1, Lands DEF ReadLimits, SeedLimits, FindStarterJob, NewConnector, Reach,
                           ToStarterJob, ToStarterLink
      <4>2. CASE FindStarter(r)
        <5>1. ASSUME NEW x, Keep(r, [rq[r] EXCEPT !.trig = x], "droptrigger")
              PROVE  rq'[r].at = "droptrigger"
          BY <1>q, <5>1, Lands DEF Request
        <5>2. QED
          BY <4>2, <5>1, Lands DEF FindStarter, ToStarterJob, ToStarterLink
      <4>3. CASE ProvisionTarget(r) \/ NewBundledTarget(r)
        <5>1. ASSUME Keep(r, [rq[r] EXCEPT !.todo = Tail(rq[r].todo)], "bundled")
              PROVE  rq'[r].at = "bundled"
          BY <1>q, <5>1, Lands DEF Request
        <5>2. QED
          BY <4>3, <5>1, Lands DEF ProvisionTarget, NewBundledTarget, ToStarterJob, ToStarterLink
      <4>4. CASE ProvisionConnector(r)
        <5>q. PICK q : q = [rq[r] EXCEPT !.todo = <<"places", "locations">>]
          OBVIOUS
        <5>1. "at" \in DOMAIN q
          BY <1>q, <5>q DEF Request
        <5>2. Keep(r, q, "newconnector") \/ Keep(r, q, "bundled")
          BY <4>4, <5>q DEF ProvisionConnector
        <5>3. rq[r].at = "provision"
          BY <4>4 DEF ProvisionConnector
        <5>4. QED
          BY <5>1, <5>2, <5>3, Lands DEF ToStarterJob, ToStarterLink
      <4>5. QED
        BY <1>7, <2>3, <4>1, <4>2, <4>3, <4>4 DEF StarterStep
    <3>3. QED
      BY <1>s, <1>e, <1>3, <1>7, <2>w, <3>1, <3>2, StillKept DEF Exists, Linked
  <2>4. QED
    BY <2>1, <2>2, <2>3
<1>8. ASSUME NEW r \in Requests, LinkStep(r), Handle(r), Starter(rq[r].op) PROVE StarterKept'
  <2>w. Works(r) /\ rq'[r].op = rq[r].op /\ IdOf(r) = "starter" /\ ~ Editing(r)'
    BY <1>8, HandleWorks DEF Works, IdOf, Editing, Starter
  <2>o. \A x \in Requests : x # r => rq'[x] = rq[x]
    BY <2>w DEF Works
  <2>e. \A x \in Requests : Editing(x)' => Editing(x) /\ rq'[x] = rq[x]
    BY <2>w, <2>o DEF Editing
  <2>1. CASE SaveJob(r)
    <3>1. PICK v : v = [name |-> NameFor(rq[r].op), active |-> TRUE, target |-> "places"]
      OBVIOUS
    <3>2. v \in Job
      BY <1>8, <3>1 DEF Job, NameFor, Targets, Bootstrap
    <3>3. job' = [job EXCEPT !["starter"] = v] /\ UNCHANGED <<trigger, links>>
      BY <1>8, <2>w, <2>1, <3>1 DEF SaveJob
    <3>4. Exists(job, "starter")'
      BY <1>t, <1>m, <3>2, <3>3, NullIsNoRow DEF Exists
    <3>5. rq'[r].at = "mint"
      <4>q. PICK q : q = [rq[r] EXCEPT !.job = IdOf(r)]
        OBVIOUS
      <4>1. "at" \in DOMAIN q
        BY <1>q, <4>q DEF Request
      <4>2. AfterJob(rq[r].op) = "mint"
        BY <1>8 DEF AfterJob, Starter
      <4>3. Keep(r, q, AfterJob(rq[r].op))
        BY <2>1, <4>q DEF SaveJob
      <4>4. QED
        BY <4>1, <4>2, <4>3, Lands
    <3>6. StarterAt(ToStarterJob \cup ToStarterLink)'
      BY <1>8, <2>w, <3>5 DEF StarterAt, Starter, ToStarterLink
    <3>7. QED
      BY <1>s, <2>e, <3>3, <3>4, <3>6 DEF StarterKept, Exists
  <2>2. CASE MintTrigger(r)
    <3>1. PICK row : row = [path |-> "/locations", secret |-> r]
      OBVIOUS
    <3>2. row \in Trigger /\ row # Null
      BY <1>m, <3>1, NullIsNoRow DEF Trigger, Paths
    <3>3. OfPath("/locations") \subseteq {"starter"}
      BY <1>s DEF StarterAlone, OfPath
    <3>4. /\ trigger' = [trigger EXCEPT !["starter"] = row] /\ UNCHANGED <<job, links>>
          /\ Keep(r, [rq[r] EXCEPT !.trig = IdOf(r)], "links")
      BY <1>8, <2>w, <2>2, <3>1, <3>3
         DEF MintTrigger, PutTrigger, TriggerRefused, PathOf, AfterTrigger, Starter
    <3>5. rq'[r].at = "links"
      <4>q. PICK q : q = [rq[r] EXCEPT !.trig = IdOf(r)]
        OBVIOUS
      <4>1. "at" \in DOMAIN q
        BY <1>q, <4>q DEF Request
      <4>2. QED
        BY <3>4, <4>q, <4>1, Lands
    <3>6. rq[r].at = "mint"
      BY <2>2 DEF MintTrigger
    <3>7. Exists(job, "starter") \/ StarterAt(ToStarterJob)
      BY <1>s, <1>8, <3>6 DEF StarterKept, StarterAt, ToStarterLink
    <3>8. StarterAt(ToStarterJob) => StarterAt(ToStarterJob)'
      BY <2>o, <3>6 DEF StarterAt, ToStarterJob
    <3>9. (Exists(job, "starter") \/ StarterAt(ToStarterJob))'
      BY <3>4, <3>7, <3>8 DEF Exists
    <3>10. StarterAt(ToStarterJob \cup ToStarterLink)'
      BY <1>8, <2>w, <3>5 DEF StarterAt, Starter, ToStarterLink
    <3>11. \A y \in Minted : Exists(trigger, y) => Exists(trigger, y)'
      BY <1>t, <3>2, <3>4 DEF Exists
    <3>12. \A x \in Requests : Editing(x)' => Exists(trigger, rq[x].trig)'
      BY <1>s, <1>e, <2>e, <3>11 DEF StarterKept, Exists
    <3>13. QED
      BY <3>9, <3>10, <3>12 DEF StarterKept
  <2>3. CASE ListLinks(r)
    <3>1. rq[r].at = "links" /\ rq[r].job = "starter" /\ rq[r].trig = "starter"
      BY <1>q, <1>8, <2>3 DEF ListLinks, Fits, Linking
    <3>2. {l \in links : l[2] = "starter"} \subseteq {<<"starter", "starter">>}
      BY <1>s, <1>t DEF StarterAlone
    <3>3. Goto(r, "link") /\ UNCHANGED <<trigger, job, links>>
      BY <2>3, <3>1, <3>2 DEF ListLinks, ReadOnly, pipelines
    <3>4. rq'[r].at = "link"
      BY <3>3, Lands
    <3>5. QED
      BY <1>s, <1>e, <1>3, <1>8, <2>w, <3>1, <3>3, <3>4, StillKept
         DEF Exists, Linked, ToStarterJob, ToStarterLink
  <2>4. CASE LinkTrigger(r)
    <3>1. rq[r].at = "link" /\ rq[r].job = "starter" /\ rq[r].trig = "starter"
      BY <1>q, <1>8, <2>4 DEF LinkTrigger, Fits, Linking
    <3>2. rq'[r].at = "done" /\ UNCHANGED <<trigger, job>>
      BY <2>4, Lands DEF LinkTrigger
    <3>3. Exists(trigger, "starter") /\ Exists(job, "starter") => Linked'
      BY <2>4, <3>1 DEF LinkTrigger, Linked
    <3>4. StarterAt(ToStarterJob) =>
             StarterAt(ToStarterJob)' /\ StarterAt(ToStarterJob \cup ToStarterLink)'
      BY <2>o, <3>1 DEF StarterAt, ToStarterJob, ToStarterLink
    <3>5. Exists(job, "starter") \/ StarterAt(ToStarterJob)
      BY <1>s, <1>8, <3>1 DEF StarterKept, StarterAt, ToStarterLink
    <3>6. (Exists(job, "starter") \/ StarterAt(ToStarterJob))'
      BY <3>2, <3>4, <3>5 DEF Exists
    <3>7. (Exists(trigger, "starter") => Linked \/ StarterAt(ToStarterJob \cup ToStarterLink))'
      BY <3>2, <3>3, <3>4, <3>5 DEF Exists
    <3>8. \A x \in Requests : Editing(x)' => Exists(trigger, rq[x].trig)'
      BY <1>s, <2>e, <3>2 DEF StarterKept, Exists
    <3>9. QED
      BY <3>6, <3>7, <3>8 DEF StarterKept
  <2>5. ~ FindTrigger(r)
    BY <1>8 DEF FindTrigger, Starter
  <2>6. QED
    BY <1>8, <2>1, <2>2, <2>3, <2>4, <2>5 DEF LinkStep
<1>9. ASSUME NEW r \in Requests, Handle(r) PROVE StarterKept'
  <2>1. CASE ~ Starter(rq[r].op)
    BY <1>5, <1>6, <1>9, <2>1
  <2>2. CASE Starter(rq[r].op)
    <3>1. LinkStep(r) \/ StarterStep(r)
      BY <1>9, <2>2, HandleIs, WhoSteps DEF Starter
    <3>2. QED
      BY <1>7, <1>8, <1>9, <2>2, <3>1
  <2>3. QED
    BY <2>1, <2>2
<1>10. ASSUME NEW r \in Requests, Arrive(r) PROVE StarterKept'
  BY <1>2, <1>10, ArriveBegins
<1>11. ASSUME UNCHANGED <<rq, trigger, job, links>> PROVE StarterKept'
  BY <1>s, <1>11 DEF StarterKept, Exists, Linked, Editing, StarterAt
<1>12. ASSUME NEW s \in States, Expire(s) PROVE StarterKept'
  BY <1>11, <1>12 DEF Expire, OnlyConnection, pipelines
<1>13. CASE UNCHANGED ownerVars
  BY <1>11, <1>13 DEF ownerVars, pipelines
<1>14. QED
  BY <1>1, <1>4, <1>9, <1>10, <1>12, <1>13 DEF Next

LEMMA InitStarterInv == Init => StarterInv
<1> SUFFICES ASSUME Init PROVE StarterInv
  OBVIOUS
<1>1. PICK s \in Starts :
          LET starter == {x \in {"starter"} : s.starter # "none"}
          IN  /\ trigger = [x \in Minted |-> IF x \notin starter THEN Null
                    ELSE [path |-> "/locations", secret |-> "starter"]]
              /\ job = [x \in Minted |-> IF x \notin starter THEN Null
                    ELSE [name |-> "starter", target |-> "places",
                          active |-> s.starter = "active"]]
              /\ links = starter \X starter
  BY DEF Init
<1> DEFINE starter == {x \in {"starter"} : s.starter # "none"}
<1>2. PICK row : row = [path |-> "/locations", secret |-> "starter"]
  OBVIOUS
<1>3. PICK v : v = [name |-> "starter", target |-> "places", active |-> s.starter = "active"]
  OBVIOUS
<1>4. /\ trigger = [x \in Minted |-> IF x \notin starter THEN Null ELSE row]
      /\ job = [x \in Minted |-> IF x \notin starter THEN Null ELSE v]
      /\ links = starter \X starter
  BY <1>1, <1>2, <1>3
<1>5. \A r \in Requests : rq[r].at = "idle"
  BY DEF Init, Idle
<1>6. starter \subseteq {"starter"} /\ "starter" \in Minted /\ row.path = "/locations"
  BY <1>2 DEF Minted
<1> HIDE DEF starter
<1>7. StarterAlone
  BY <1>4, <1>5, <1>6 DEF StarterAlone, Exists
<1>8. v # Null
  <2>b. PICK b \in BOOLEAN : b = (s.starter = "active")
    BY Zenon
  <2>1. v = [name |-> "starter", target |-> "places", active |-> b]
    BY <1>3, <2>b
  <2>2. v \in Job
    BY <2>1 DEF Job, Targets, Bootstrap
  <2>3. QED
    BY <2>2, NullIsNoRow
<1>9. Exists(trigger, "starter") => Exists(job, "starter") /\ Linked
  BY <1>4, <1>6, <1>8 DEF Exists, Linked
<1>10. StarterKept
  BY <1>5, <1>9 DEF StarterKept, Editing, StarterAt, ToStarterLink
<1>11. QED
  BY <1>7, <1>10 DEF StarterInv

(* However the provisionings of the starter definitions overlap, a starter   *)
(* trigger that is left when they have ended is linked to the starter job,   *)
(* unless a call failed or an edit may have brought the trigger back after   *)
(* it was deleted: who drops the job goes on to make it again, and no other  *)
(* trigger of the owner takes the path (provision_owner_starter_definitions).*)
THEOREM StarterStaysLinked == Spec => []StarterLinked
<1>1. StarterInv => StarterLinked
  <2>1. ASSUME StarterAt(ToStarterJob \cup ToStarterLink) PROVE Busy({"fire", "reprovision"})
    BY <2>1 DEF StarterAt, ToStarterJob, ToStarterLink, Busy, Open, Starter
  <2>2. QED
    BY <2>1 DEF StarterInv, StarterKept, StarterLinked, Restored, Linked
<1>2. Init => TypeInv /\ HistoryInv /\ StarterInv
  BY InitTypeInv, InitHistoryInv, InitStarterInv
<1>3. TypeInv /\ HistoryInv /\ StarterInv /\ [Next]_ownerVars
         => TypeInv' /\ HistoryInv' /\ StarterInv'
  BY NextTypeInv, NextHistoryInv, NextStarterKept
<1>4. QED
  BY <1>1, <1>2, <1>3, PTL DEF Spec

-----------------------------------------------------------------------------
(* Schemas.  A sync inserts the snapshot of what it fetched and only then    *)
(* attaches it, to the row as it read it at first.                           *)

Syncers == {"schema", "select", "template", "places"}
BeforeSync == {"sources", "jobs", "notion", "target", "newtarget"}
BeforeInsert == InSync \ {"attach"}
SelectAt == {"pick", "save"} \cup InSync

Fresh(t, r) == ~ Exists(snap, <<t, r>>)

SchemaFits(t) ==
    Exists(target, t) /\ target[t].schema # Null =>
        LET x == target[t].schema
        IN  /\ Exists(snap, x)
            /\ snap[x].by = "token" => snap[x].source = target[t].source

(* What was fetched by the id of the row is of the source of the row.       *)
Synced(q, r) ==
    /\ q.at \in WithSource /\ q.by = "token" => q.src = q.row.source
    /\ q.at \in BeforeInsert => Fresh(q.t, r)
    /\ q.at = "attach" =>
          LET x == <<q.t, r>>
          IN  Exists(snap, x) /\ snap[x].source = q.src /\ snap[x].by = q.by

Made(t) == t \in Sources /\ Exists(target, t)

(* What a selection has left to do are targets it has not synced yet, or     *)
(* will pass over: a source that is selected twice has its target by then.   *)
Left(q, r) ==
    /\ q.at \in SelectAt =>
          Once(q.todo) /\ \A n \in 1..Len(q.todo) : Fresh(q.todo[n][1], r) \/ Made(q.todo[n][1])
    /\ q.at \in SelectAt \ {"pick"} =>
          \A n \in 1..Len(q.todo) : q.todo[n][1] = q.t => q.t \in Sources
    /\ q.at = "save" => Fresh(q.t, r)
    /\ q.at \in InSync => Exists(target, q.t)

SyncInv(q, r) ==
    /\ q.op \notin Syncers \/ q.at \in BeforeSync => \A t \in Targets : Fresh(t, r)
    /\ Synced(q, r)
    /\ q.op = "select" => Left(q, r)

SchemaInv ==
    /\ \A t \in Targets : SchemaFits(t)
    /\ \A r \in Requests : SyncInv(rq[r], r)

(* No snapshot goes away or comes to be of something else. *)
SnapsKept ==
    \A x \in Snaps : Exists(snap, x) =>
        Exists(snap, x)' /\ snap'[x].source = snap[x].source /\ snap'[x].by = snap[x].by

(* No target goes away. *)
TargetsKept == \A t \in Targets : Exists(target, t) => Exists(target, t)'

LEMMA FitsStays ==
    ASSUME TypeInv, SnapsKept, NEW t \in Targets, SchemaFits(t), target'[t] = target[t]
    PROVE  SchemaFits(t)'
<1>1. Exists(target, t) => target[t].schema \in Or(Snaps)
  BY DEF TypeInv, TypeOK, Exists, Or, Target
<1>2. QED
  BY <1>1 DEF SchemaFits, SnapsKept, Exists, Or

LEMMA PicksTargets ==
    ASSUME NEW todo \in Picks
    PROVE  \A n \in 1..Len(todo) : todo[n][1] \in Targets
<1>1. ASSUME NEW n \in 1..Len(todo) PROVE todo[n] \in Targets \X Or(Sources)
  BY <1>1, ElementOfSeq DEF Picks
<1>2. QED
  BY <1>1

LEMMA SyncInvStays ==
    ASSUME TypeInv, SnapsKept, TargetsKept,
           NEW r \in Requests, SyncInv(rq[r], r), rq'[r] = rq[r],
           \A t \in Targets : Fresh(t, r) => Fresh(t, r)'
    PROVE  SyncInv(rq[r], r)'
<1> DEFINE q == rq[r]
<1>q. q \in Request /\ Fits(q, q.at) /\ q' = q
  BY DEF TypeInv, RequestInv
<1>t. /\ q.at \in InSync => q.t \in Targets
      /\ q.op = "select" /\ q.at = "save" => q.t \in Targets
      /\ q.op = "select" /\ q.at \in SelectAt => \A n \in 1..Len(q.todo) : q.todo[n][1] \in Targets
  <2>1. q.op = "select" /\ q.at \in SelectAt => q.todo \in Picks
    BY <1>q DEF Fits, SelectAt
  <2>2. QED
    BY <1>q, <2>1, PicksTargets DEF Fits
<1> HIDE DEF q
<1>i. SyncInv(q, r)
  BY DEF q
<1>1. ASSUME q.at = "attach" PROVE <<q.t, r>> \in Snaps
  BY <1>t, <1>1 DEF InSync, Snaps, States
<1>2. Synced(q, r)'
  BY <1>q, <1>i, <1>t, <1>1 DEF SyncInv, Synced, SnapsKept, BeforeInsert
<1>3. q.op = "select" => Left(q, r)'
  <2>1. SUFFICES ASSUME q.op = "select" PROVE Left(q, r)'
    OBVIOUS
  <2>2. \A t \in Targets : Made(t) => Made(t)'
    BY DEF TargetsKept, Made
  <2>3. ASSUME q.at \in SelectAt
        PROVE  \A n \in 1..Len(q.todo) : Fresh(q.todo[n][1], r)' \/ Made(q.todo[n][1])'
    BY <1>q, <1>i, <1>t, <2>1, <2>2, <2>3 DEF SyncInv, Left
  <2>4. q.at = "save" => Fresh(q.t, r)'
    BY <1>q, <1>i, <1>t, <2>1 DEF SyncInv, Left, SelectAt
  <2>5. q.at \in InSync => Exists(target, q.t)'
    BY <1>q, <1>i, <1>t, <2>1 DEF SyncInv, Left, TargetsKept
  <2>6. QED
    BY <1>q, <1>i, <2>1, <2>3, <2>4, <2>5 DEF SyncInv, Left
<1>4. SyncInv(q, r)'
  BY <1>q, <1>i, <1>2, <1>3 DEF SyncInv
<1>5. QED
  BY <1>4 DEF q

(* A request goes on, and nothing is inserted. *)
Same(p, q) ==
    /\ p.op = q.op /\ p.todo = q.todo /\ p.t = q.t /\ p.row = q.row
    /\ p.src = q.src /\ p.by = q.by

LEMMA Moves ==
    ASSUME TypeInv, NEW r \in Requests, NEW at
    PROVE  /\ Goto(r, at) => rq'[r].at = at /\ Same(rq'[r], rq[r])
           /\ \A q : DOMAIN q = DOMAIN rq[r] /\ Keep(r, q, at) =>
                 rq'[r].at = at /\ Same(rq'[r], q)
<1>q. rq \in [Requests -> Request] /\ rq[r] \in Request
  BY DEF TypeInv, RequestInv
<1>1. ASSUME NEW q, DOMAIN q = DOMAIN rq[r], Keep(r, q, at)
      PROVE  rq'[r].at = at /\ Same(rq'[r], q)
  <2>1. rq'[r] = [q EXCEPT !.at = at]
    BY <1>q, <1>1 DEF Keep
  <2>2. DOMAIN q = {"op", "at", "back", "todo", "t", "row", "old", "src", "by", "trig", "trow",
                    "job", "saw"}
    BY <1>q, <1>1 DEF Request
  <2>3. QED
    BY <2>1, <2>2 DEF Same
<1>2. ASSUME Goto(r, at) PROVE rq'[r].at = at /\ Same(rq'[r], rq[r])
  <2>1. Keep(r, rq[r], at)
    BY <1>q, <1>2 DEF Goto, Keep
  <2>2. QED
    BY <1>1, <2>1
<1>3. QED
  BY <1>1, <1>2

(* A request that has inserted nothing and does not hold a source. *)
LEMMA FreshFits ==
    ASSUME TypeInv', NEW r \in Requests, (\A t \in Targets : Fresh(t, r))',
           rq'[r].at \notin WithSource, rq'[r].op # "select"
    PROVE  SyncInv(rq[r], r)'
<1>1. Fits(rq[r], rq[r].at)'
  BY DEF TypeInv, RequestInv
<1>2. QED
  BY <1>1 DEF Fits, SyncInv, Synced, BeforeInsert, WithSource

(* A request that is over, or will not sync any more. *)
LEMMA EndFits ==
    ASSUME NEW r, rq'[r].op \in Syncers,
           rq'[r].at \notin BeforeSync \cup SelectAt
    PROVE  SyncInv(rq[r], r)'
BY DEF SyncInv, Synced, Left, BeforeInsert, WithSource, SelectAt, InSync

(* A selection whose sync goes on, and which inserts at most the snapshot    *)
(* of its target.                                                            *)
LEMMA LeftStays ==
    ASSUME TypeInv, NEW r \in Requests, rq[r].op = "select", Left(rq[r], r),
           rq[r].at \in InSync, rq'[r].at \in InSync, TargetsKept,
           rq'[r].todo = rq[r].todo, rq'[r].t = rq[r].t,
           \A t \in Targets : t # rq[r].t => (Fresh(t, r) => Fresh(t, r)')
    PROVE  Left(rq[r], r)'
<1>x. PICK todo : todo = rq[r].todo
  OBVIOUS
<1>u. PICK u : u = rq[r].t
  OBVIOUS
<1>q. todo \in Picks /\ u \in Targets
  BY <1>x, <1>u DEF TypeInv, RequestInv, Fits
<1>1. /\ Once(todo) /\ Exists(target, u)
      /\ \A n \in 1..Len(todo) : Fresh(todo[n][1], r) \/ Made(todo[n][1])
      /\ \A n \in 1..Len(todo) : todo[n][1] = u => u \in Sources
  BY <1>x, <1>u DEF Left, SelectAt, InSync
<1>2. \A t \in Targets : Made(t) => Made(t)'
  BY DEF TargetsKept, Made
<1>3. Exists(target, u)'
  BY <1>q, <1>1 DEF TargetsKept
<1>4. u \in Sources => Made(u)'
  BY <1>3 DEF Made
<1>5. \A n \in 1..Len(todo) : Fresh(todo[n][1], r)' \/ Made(todo[n][1])'
  BY <1>q, <1>1, <1>2, <1>4, <1>u, PicksTargets
<1>6. rq'[r].todo = todo /\ rq'[r].t = u /\ rq'[r].at # "save" /\ rq'[r].at # "pick"
  BY <1>x, <1>u DEF InSync
<1>7. QED
  BY <1>1, <1>3, <1>5, <1>6 DEF Left

LEMMA SyncEndFits ==
    ASSUME TypeInv, NEW r \in Requests, SyncInv(rq[r], r), rq[r].at \in InSync, SyncEnds(r),
           snap' = snap, TargetsKept
    PROVE  SyncInv(rq[r], r)'
<1>q. rq[r] \in Request /\ Fits(rq[r], rq[r].at)
  BY DEF TypeInv, RequestInv
<1>1. CASE rq[r].op = "schema"
  <2>1. rq'[r].at = "done"
    BY <1>1, Lands DEF SyncEnds
  <2>2. rq'[r].op = rq[r].op
    BY <1>q, <1>1, WorksOn DEF Works, InSync
  <2>3. QED
    BY <1>1, <2>1, <2>2, EndFits DEF Syncers, BeforeSync, SelectAt, InSync
<1>2. CASE rq[r].op # "schema"
  <2>q. PICK q : q = [rq[r] EXCEPT !.row = Null, !.old = Null, !.src = Null, !.by = "token"]
    OBVIOUS
  <2>1. DOMAIN q = DOMAIN rq[r] /\ q.op = rq[r].op /\ q.todo = rq[r].todo
    BY <1>q, <2>q DEF Request
  <2>2. Keep(r, q, rq[r].back)
    BY <1>2, <2>q DEF SyncEnds
  <2>3. rq'[r].at = rq[r].back /\ rq'[r].op = rq[r].op /\ rq'[r].todo = rq[r].todo
    BY <2>1, <2>2, Moves DEF Same
  <2>4. CASE rq[r].op = "select"
    <3>1. rq'[r].at = "pick"
      BY <1>q, <2>3, <2>4 DEF Fits
    <3>x. PICK todo : todo = rq[r].todo
      OBVIOUS
    <3>t. todo \in Picks
      BY <1>q, <2>4, <3>x DEF Fits
    <3>2. Left(rq[r], r)'
      <4>1. \A t \in Targets : (Fresh(t, r) => Fresh(t, r)') /\ (Made(t) => Made(t)')
        BY DEF TargetsKept, Made, Fresh, Exists
      <4>2. Once(todo) /\ \A n \in 1..Len(todo) : Fresh(todo[n][1], r) \/ Made(todo[n][1])
        BY <2>4, <3>x DEF SyncInv, Left, SelectAt
      <4>3. \A n \in 1..Len(todo) : Fresh(todo[n][1], r)' \/ Made(todo[n][1])'
        BY <3>t, <4>1, <4>2, PicksTargets
      <4>4. rq'[r].at = "pick" /\ rq'[r].todo = todo
        BY <2>3, <3>1, <3>x
      <4>5. QED
        BY <4>2, <4>3, <4>4 DEF Left, InSync
    <3>3. QED
      BY <2>3, <2>4, <3>1, <3>2
         DEF SyncInv, Synced, Syncers, BeforeSync, BeforeInsert, InSync, WithSource
  <2>5. CASE rq[r].op # "select"
    <3>1. rq[r].op \in {"template", "places"} /\ rq'[r].at \in {"trigger", "job"}
      BY <1>q, <1>2, <2>3, <2>5 DEF Fits
    <3>2. QED
      BY <2>3, <3>1, EndFits DEF Syncers, BeforeSync, SelectAt, InSync
  <2>6. QED
    BY <2>4, <2>5
<1>3. QED
  BY <1>1, <1>2

(* The steps of a sync that insert nothing. *)
LEMMA SyncReadsFit ==
    ASSUME TypeInv, TypeInv', NEW r \in Requests, SyncInv(rq[r], r), snap' = snap,
           TargetsKept,
           \/ SyncTarget(r) \/ SyncConnector(r) \/ SyncToken(r) \/ SyncFetch(r)
           \/ SyncList(r) \/ SyncAttach(r)
    PROVE  SyncInv(rq[r], r)'
<1>q. rq[r] \in Request /\ Fits(rq[r], rq[r].at) /\ Fits(rq[r], rq[r].at)'
  BY DEF TypeInv, RequestInv
<1>a. rq[r].at \in {"sync", "connector", "token", "fetch", "list", "attach"}
  BY DEF SyncTarget, SyncConnector, SyncToken, SyncFetch, SyncList, SyncAttach
<1>i. rq[r].at \in InSync
  BY <1>a DEF InSync
<1>o. rq[r].op \in Syncers
  BY <1>q, <1>i DEF Fits, Syncers
<1>1. CASE SyncEnds(r)
  BY <1>1, <1>i, SyncEndFits
(* It stays in the sync, and its source is that of the row if by token.     *)
<1>2. ASSUME rq[r].at \in BeforeInsert, rq'[r].at \in BeforeInsert, rq'[r].op = rq[r].op,
             rq'[r].todo = rq[r].todo, rq'[r].t = rq[r].t,
             rq'[r].at \in WithSource /\ rq'[r].by = "token" => rq'[r].src = rq'[r].row.source
      PROVE  SyncInv(rq[r], r)'
  <2>1. Synced(rq[r], r)'
    BY <1>2 DEF SyncInv, Synced, BeforeInsert, Fresh, Exists
  <2>2. rq[r].op = "select" => Left(rq[r], r)'
    <3>1. \A t \in Targets : Fresh(t, r) => Fresh(t, r)'
      BY DEF Fresh, Exists
    <3>2. QED
      BY <1>2, <3>1, LeftStays DEF SyncInv, BeforeInsert
  <2>3. QED
    BY <1>o, <1>2, <2>1, <2>2 DEF SyncInv, BeforeSync, BeforeInsert, InSync
<1>3. CASE SyncTarget(r) /\ ~ SyncEnds(r)
  <2>q. PICK q : q = [rq[r] EXCEPT !.row = target[rq[r].t]]
    OBVIOUS
  <2>1. DOMAIN q = DOMAIN rq[r] /\ q.op = rq[r].op /\ q.todo = rq[r].todo /\ q.t = rq[r].t
    BY <1>q, <2>q DEF Request
  <2>2. Keep(r, q, "connector") /\ rq[r].at = "sync"
    BY <1>3, <2>q DEF SyncTarget
  <2>3. rq'[r].at = "connector" /\ Same(rq'[r], q)
    BY <2>1, <2>2, Moves
  <2>4. QED
    BY <1>2, <2>1, <2>2, <2>3 DEF Same, BeforeInsert, InSync, WithSource
<1>4. CASE (SyncConnector(r) \/ SyncToken(r)) /\ ~ SyncEnds(r)
  <2>0. rq[r].at \in {"connector", "token"}
    BY <1>4 DEF SyncConnector, SyncToken
  <2>1. CASE Goto(r, "token") \/ Goto(r, "fetch")
    <3>1. rq'[r].at \in {"token", "fetch"} /\ Same(rq'[r], rq[r])
      BY <2>1, Moves
    <3>2. QED
      BY <1>2, <2>0, <3>1 DEF Same, BeforeInsert, InSync, WithSource
  <2>2. CASE FetchByName(r)
    <3>1. PICK s \in Sources : Keep(r, [rq[r] EXCEPT !.src = s, !.by = "name"], "list")
      BY <1>4, <2>2 DEF FetchByName
    <3>q. PICK q : q = [rq[r] EXCEPT !.src = s, !.by = "name"]
      OBVIOUS
    <3>2. /\ DOMAIN q = DOMAIN rq[r] /\ q.op = rq[r].op /\ q.todo = rq[r].todo /\ q.t = rq[r].t
          /\ q.by = "name"
      BY <1>q, <3>q DEF Request
    <3>3. rq'[r].at = "list" /\ Same(rq'[r], q)
      BY <3>1, <3>2, <3>q, Moves
    <3>4. QED
      BY <1>2, <2>0, <3>2, <3>3 DEF Same, BeforeInsert, InSync, WithSource
  <2>3. QED
    BY <1>4, <2>1, <2>2 DEF SyncConnector, SyncToken
<1>5. CASE SyncFetch(r) /\ ~ SyncEnds(r)
  <2>s. PICK s : s = rq[r].row.source
    OBVIOUS
  <2>q. PICK q : q = [rq[r] EXCEPT !.src = s]
    OBVIOUS
  <2>1. /\ DOMAIN q = DOMAIN rq[r] /\ q.op = rq[r].op /\ q.todo = rq[r].todo /\ q.t = rq[r].t
        /\ q.src = s /\ q.row = rq[r].row
    BY <1>q, <2>q DEF Request
  <2>2. Keep(r, q, "list") /\ rq[r].at = "fetch"
    BY <1>5, <2>s, <2>q DEF SyncFetch
  <2>3. rq'[r].at = "list" /\ Same(rq'[r], q)
    BY <2>1, <2>2, Moves
  <2>4. QED
    BY <1>2, <2>s, <2>1, <2>2, <2>3 DEF Same, BeforeInsert, InSync, WithSource
<1>6. CASE SyncList(r)
  <2>0. rq[r].at = "list"
    BY <1>6 DEF SyncList
  <2>1. (rq[r].by = "token" => rq[r].src = rq[r].row.source)
    BY <2>0 DEF SyncInv, Synced, WithSource
  <2>2. CASE Goto(r, "insert")
    <3>1. rq'[r].at = "insert" /\ Same(rq'[r], rq[r])
      BY <2>2, Moves
    <3>2. QED
      BY <1>2, <2>0, <2>1, <3>1 DEF Same, BeforeInsert, InSync, WithSource
  <2>3. ASSUME NEW x, Keep(r, [rq[r] EXCEPT !.old = x], "deactivate") PROVE SyncInv(rq[r], r)'
    <3>q. PICK q : q = [rq[r] EXCEPT !.old = x]
      OBVIOUS
    <3>1. DOMAIN q = DOMAIN rq[r] /\ Same(q, rq[r])
      BY <1>q, <3>q DEF Request, Same
    <3>2. rq'[r].at = "deactivate" /\ Same(rq'[r], q)
      BY <2>3, <3>q, <3>1, Moves
    <3>3. QED
      BY <1>2, <2>0, <2>1, <3>1, <3>2 DEF Same, BeforeInsert, InSync, WithSource
  <2>4. QED
    BY <1>6, <2>2, <2>3 DEF SyncList
<1>7. QED
  BY <1>1, <1>3, <1>4, <1>5, <1>6 DEF SyncAttach

(* The snapshot of this request becomes what was fetched.                   *)
LEMMA InsertFits ==
    ASSUME TypeInv, NEW r \in Requests, SyncInv(rq[r], r), SyncInsert(r)
    PROVE  /\ SnapsKept
           /\ \A x \in Requests, t \in Targets : x # r => (Fresh(t, x) => Fresh(t, x)')
           /\ SyncInv(rq[r], r)'
<1>q. rq[r] \in Request /\ Fits(rq[r], rq[r].at) /\ rq[r].at = "insert"
  BY DEF TypeInv, RequestInv, SyncInsert
<1>t. /\ rq[r].t \in Targets /\ rq[r].src \in Sources /\ rq[r].op \in Syncers
      /\ rq[r].op = "select" => rq[r].todo \in Picks
  BY <1>q DEF Fits, InSync, WithSource, Syncers
<1>x. PICK x : x = <<rq[r].t, r>>
  OBVIOUS
<1>w. PICK w : w = [source |-> rq[r].src, by |-> rq[r].by, active |-> TRUE]
  OBVIOUS
<1>1. x \in Snaps /\ w # Null /\ w.source = rq[r].src /\ w.by = rq[r].by
  <2>1. w \in Snapshot
    BY <1>q, <1>t, <1>w DEF Snapshot, Request
  <2>2. QED
    BY <1>t, <1>w, <1>x, <2>1, NullIsNoRow DEF Snaps, States
<1>2. snap' = [snap EXCEPT ![x] = w]
  BY <1>x, <1>w DEF SyncInsert, PutSnapshot
<1>3. snap'[x] = w /\ \A y \in Snaps : y # x => snap'[y] = snap[y]
  BY <1>1, <1>2 DEF TypeInv, TypeOK
<1>4. ~ Exists(snap, x)
  BY <1>q, <1>x DEF SyncInv, Synced, Fresh, BeforeInsert, InSync
<1>5. SnapsKept
  BY <1>3, <1>4 DEF SnapsKept, Exists
<1>6. \A s \in Requests, t \in Targets : s # r \/ t # rq[r].t => (Fresh(t, s) => Fresh(t, s)')
  BY <1>x, <1>3 DEF Fresh, Exists, Snaps, States
<1>7. rq'[r].at = "attach" /\ Same(rq'[r], rq[r])
  BY Moves DEF SyncInsert
<1>8. Synced(rq[r], r)'
  <2>1. rq[r].by = "token" => rq[r].src = rq[r].row.source
    BY <1>q DEF SyncInv, Synced, WithSource
  <2>2. Exists(snap, x)' /\ snap'[x].source = rq[r].src /\ snap'[x].by = rq[r].by
    BY <1>1, <1>3 DEF Exists
  <2>3. QED
    BY <1>7, <1>x, <2>1, <2>2 DEF Synced, Same, BeforeInsert, InSync
<1>9. rq[r].op = "select" => Left(rq[r], r)'
  <2>1. TargetsKept
    BY DEF TargetsKept, SyncInsert, Exists
  <2>2. rq'[r].at \in InSync /\ rq'[r].todo = rq[r].todo /\ rq'[r].t = rq[r].t
    BY <1>7 DEF Same, InSync
  <2>3. QED
    BY <1>q, <1>6, <2>1, <2>2, LeftStays DEF SyncInv, InSync
<1>10. SyncInv(rq[r], r)'
  BY <1>t, <1>7, <1>8, <1>9 DEF SyncInv, Same, BeforeSync
<1>11. QED
  BY <1>5, <1>6, <1>10

LEMMA DeactivateFits ==
    ASSUME TypeInv, NEW r \in Requests, SyncInv(rq[r], r), SyncDeactivate(r)
    PROVE  /\ SnapsKept
           /\ \A x \in Requests, t \in Targets : Fresh(t, x) => Fresh(t, x)'
           /\ SyncInv(rq[r], r)'
<1>q. /\ rq[r] \in Request /\ Fits(rq[r], rq[r].at) /\ rq[r].at = "deactivate"
      /\ rq[r].old \in Snaps /\ Exists(snap, rq[r].old)
  BY DEF TypeInv, RequestInv, SyncDeactivate, Fits
<1>t. /\ rq[r].t \in Targets /\ rq[r].op \in Syncers
      /\ rq[r].op = "select" => rq[r].todo \in Picks
  BY <1>q DEF Fits, InSync, Syncers
<1>1. snap[rq[r].old] \in Snapshot
  BY <1>q DEF TypeInv, TypeOK, Or, Exists
<1>w. PICK w : w = [snap[rq[r].old] EXCEPT !.active = FALSE]
  OBVIOUS
<1>2. w # Null /\ w.source = snap[rq[r].old].source /\ w.by = snap[rq[r].old].by
  <2>1. w \in Snapshot /\ w.source = snap[rq[r].old].source /\ w.by = snap[rq[r].old].by
    BY <1>1, <1>w DEF Snapshot
  <2>2. QED
    BY <2>1, NullIsNoRow
<1>3. snap'[rq[r].old] = w /\ \A y \in Snaps : y # rq[r].old => snap'[y] = snap[y]
  BY <1>q, <1>w DEF TypeInv, TypeOK, SyncDeactivate, PutSnapshot
<1>4. SnapsKept /\ \A y \in Snaps : Exists(snap, y)' <=> Exists(snap, y)
  BY <1>q, <1>2, <1>3 DEF SnapsKept, Exists
<1>5. \A s \in Requests, t \in Targets : Fresh(t, s) <=> Fresh(t, s)'
  BY <1>4 DEF Fresh, Exists, Snaps, States
<1>6. rq'[r].at = "insert" /\ Same(rq'[r], rq[r])
  BY Moves DEF SyncDeactivate
<1>7. Synced(rq[r], r)'
  BY <1>q, <1>t, <1>5, <1>6 DEF SyncInv, Synced, Same, BeforeInsert, InSync, WithSource
<1>8. rq[r].op = "select" => Left(rq[r], r)'
  <2>1. TargetsKept
    BY DEF TargetsKept, SyncDeactivate, Exists
  <2>2. rq'[r].at \in InSync /\ rq'[r].todo = rq[r].todo /\ rq'[r].t = rq[r].t
    BY <1>6 DEF Same, InSync
  <2>3. QED
    BY <1>q, <1>5, <2>1, <2>2, LeftStays DEF SyncInv, InSync
<1>9. SyncInv(rq[r], r)'
  BY <1>t, <1>6, <1>7, <1>8 DEF SyncInv, Same, BeforeSync
<1>10. QED
  BY <1>4, <1>5, <1>9

(* A selection takes up its targets one by one. *)
LEMMA SelectFits ==
    ASSUME TypeInv, NEW r \in Requests, SyncInv(rq[r], r), SelectStep(r), snap' = snap,
           TargetsKept
    PROVE  SyncInv(rq[r], r)'
<1>q. rq[r] \in Request /\ Fits(rq[r], rq[r].at) /\ rq[r].op = "select"
  BY DEF TypeInv, RequestInv, SelectStep, ListSources, PickSource, SaveSelected, Reach
<1>f. \A t \in Targets : Fresh(t, r) => Fresh(t, r)'
  BY DEF Fresh, Exists
<1>1. CASE ListSources(r)
  <2>b. PICK b : b = rq[r].todo
    OBVIOUS
  <2>l. PICK listed : listed = {n \in DOMAIN b : b[n] \in known}
    OBVIOUS
  <2>t. PICK todo : todo = [n \in DOMAIN b |-> <<b[n], IF n \in listed THEN b[n] ELSE Null>>]
                             \o <<<<"places", ForBundled(b, listed, "places")>>,
                                  <<"locations", ForBundled(b, listed, "locations")>>>>
    OBVIOUS
  <2>q. PICK q : q = [rq[r] EXCEPT !.todo = todo]
    OBVIOUS
  <2>1. rq[r].at = "sources" /\ b \in Bodies
    BY <1>q, <1>1, <2>b DEF ListSources, Reach, Fits
  <2>2. todo \in Picks /\ Once(todo)
    BY <2>1, <2>l, <2>t, SelectionTyped
  <2>3. Keep(r, q, "pick")
    BY <1>1, <2>b, <2>l, <2>t, <2>q DEF ListSources
  <2>4. DOMAIN q = DOMAIN rq[r] /\ q.op = "select" /\ q.todo = todo
    BY <1>q, <2>q DEF Request
  <2>5. rq'[r].at = "pick" /\ rq'[r].op = "select" /\ rq'[r].todo = todo
    BY <2>3, <2>4, Moves DEF Same
  <2>6. \A t \in Targets : Fresh(t, r)'
    BY <1>f, <2>1 DEF SyncInv, BeforeSync
  <2>7. \A n \in 1..Len(todo) : Fresh(todo[n][1], r)'
    BY <2>2, <2>6, PicksTargets
  <2>8. QED
    BY <2>2, <2>5, <2>7
       DEF SyncInv, Synced, Left, SelectAt, Syncers, BeforeSync, BeforeInsert, InSync, WithSource
<1>2. CASE PickSource(r)
  <2>t. PICK todo : todo = rq[r].todo
    OBVIOUS
  <2>0. rq[r].at = "pick" /\ todo \in Picks
    BY <1>q, <1>2, <2>t DEF PickSource, Reach, Fits
  <2>1. Once(todo) /\ \A n \in 1..Len(todo) : Fresh(todo[n][1], r) \/ Made(todo[n][1])
    BY <1>q, <2>0, <2>t DEF SyncInv, Left, SelectAt
  <2>m. \A t \in Targets : Made(t) => Made(t)'
    BY DEF TargetsKept, Made
  <2>2. \A n \in 1..Len(todo) : todo[n][1] \in Targets
    BY <2>0, PicksTargets
  <2>3. CASE todo = <<>>
    <3>1. Answer(r)
      BY <1>2, <2>3, <2>t DEF PickSource
    <3>2. rq'[r].at = "done" /\ rq'[r].op = "select"
      BY <1>q, <2>0, <3>1, Lands, WorksOn DEF Works
    <3>3. QED
      BY <3>2, EndFits DEF Syncers, BeforeSync, SelectAt, InSync
  <2>4. CASE todo # <<>>
    <3>l. PICK left : left = Tail(todo)
      OBVIOUS
    <3>u. PICK u : u = todo[1][1]
      OBVIOUS
    <3>0. /\ Len(todo) \in Nat \ {0} /\ Len(left) = Len(todo) - 1
          /\ \A n \in 1..Len(left) : left[n] = todo[n + 1]
      BY <2>0, <2>4, <3>l, EmptySeq, LenProperties, HeadTailProperties DEF Picks
    <3>k. PICK k \in Nat : Len(left) = k /\ Len(todo) = k + 1
      BY <3>0
    <3>1. \A n \in 1..k : n + 1 \in 1..(k + 1) /\ n + 1 # 1
      OBVIOUS
    <3>2. 1 \in 1..(k + 1)
      OBVIOUS
    <3>3. Once(left)
      <4>1. SUFFICES ASSUME NEW m \in 1..k, NEW n \in 1..k, left[m][1] = left[n][1]
                     PROVE  m = n \/ left[m][1] \in Sources
        BY <3>k DEF Once
      <4>2. m + 1 = n + 1 \/ left[m][1] \in Sources
        BY <2>1, <3>0, <3>k, <3>1, <4>1 DEF Once
      <4>3. QED
        BY <4>2
    <3>4. \A n \in 1..Len(left) : Fresh(left[n][1], r)' \/ Made(left[n][1])'
      BY <1>f, <2>1, <2>2, <2>m, <3>0, <3>k, <3>1
    <3>5. \A n \in 1..Len(left) : left[n][1] = u => u \in Sources
      BY <2>1, <3>u, <3>0, <3>k, <3>1, <3>2 DEF Once
    <3>6. u \in Targets /\ (Fresh(u, r) \/ Made(u))
      BY <2>1, <2>2, <3>u, <3>k, <3>2
    <3>7. CASE Keep(r, [rq[r] EXCEPT !.todo = left], "pick")
      <4>q. PICK q : q = [rq[r] EXCEPT !.todo = left]
        OBVIOUS
      <4>1. DOMAIN q = DOMAIN rq[r] /\ q.op = "select" /\ q.todo = left
        BY <1>q, <4>q DEF Request
      <4>2. rq'[r].at = "pick" /\ rq'[r].op = "select" /\ rq'[r].todo = left
        <5>1. Keep(r, q, "pick")
          BY <3>7, <4>q
        <5>2. QED
          BY <4>1, <5>1, Moves DEF Same
      <4>3. Left(rq[r], r)'
        BY <3>3, <3>4, <4>2 DEF Left, InSync
      <4>4. QED
        BY <4>2, <4>3 DEF SyncInv, Synced, Syncers, BeforeSync, BeforeInsert, InSync, WithSource
    <3>8. CASE /\ \E s : Keep(r, [rq[r] EXCEPT !.todo = left, !.t = u, !.src = s], "save")
               /\ ~ Made(u)
      <4>s. PICK s : Keep(r, [rq[r] EXCEPT !.todo = left, !.t = u, !.src = s], "save")
        BY <3>8
      <4>q. PICK q : q = [rq[r] EXCEPT !.todo = left, !.t = u, !.src = s]
        OBVIOUS
      <4>1. DOMAIN q = DOMAIN rq[r] /\ q.op = "select" /\ q.todo = left /\ q.t = u
        BY <1>q, <4>q DEF Request
      <4>2. rq'[r].at = "save" /\ rq'[r].op = "select" /\ rq'[r].todo = left /\ rq'[r].t = u
        <5>1. Keep(r, q, "save")
          BY <4>s, <4>q
        <5>2. QED
          BY <4>1, <5>1, Moves DEF Same
      <4>3. Left(rq[r], r)'
        <5>1. Fresh(u, r)'
          BY <1>f, <3>6, <3>8
        <5>2. QED
          BY <3>3, <3>4, <3>5, <4>2, <5>1 DEF Left, InSync
      <4>4. QED
        BY <4>2, <4>3 DEF SyncInv, Synced, Syncers, BeforeSync, BeforeInsert, InSync, WithSource
    <3>9. QED
      BY <1>2, <2>4, <2>t, <3>l, <3>u, <3>7, <3>8 DEF PickSource, Made
  <2>5. QED
    BY <2>3, <2>4
<1>3. CASE SaveSelected(r)
  <2>q. PICK q : q = [rq[r] EXCEPT !.src = Null, !.t = rq[r].t, !.back = "pick"]
    OBVIOUS
  <2>0. rq[r].at = "save" /\ rq[r].t \in Targets
    BY <1>q, <1>3 DEF SaveSelected, Reach, Fits
  <2>1. Keep(r, q, "sync")
    <3>1. [[rq[r] EXCEPT !.src = Null] EXCEPT !.t = rq[r].t, !.back = "pick"] = q
      BY <1>q, <2>q DEF Request
    <3>2. QED
      BY <1>3, <3>1 DEF SaveSelected, Sync
  <2>2. DOMAIN q = DOMAIN rq[r] /\ q.op = "select" /\ q.todo = rq[r].todo /\ q.t = rq[r].t
    BY <1>q, <2>q DEF Request
  <2>3. /\ rq'[r].at = "sync" /\ rq'[r].op = "select" /\ rq'[r].todo = rq[r].todo
        /\ rq'[r].t = rq[r].t
    BY <2>1, <2>2, Moves DEF Same
  <2>x. PICK todo : todo = rq[r].todo
    OBVIOUS
  <2>u. PICK u : u = rq[r].t
    OBVIOUS
  <2>4. Left(rq[r], r)'
    <3>1. todo \in Picks /\ u \in Targets /\ rq[r].src \in Sources
      BY <1>q, <2>0, <2>x, <2>u DEF Fits
    <3>2. /\ Once(todo) /\ \A n \in 1..Len(todo) : todo[n][1] = u => u \in Sources
          /\ \A n \in 1..Len(todo) : Fresh(todo[n][1], r) \/ Made(todo[n][1])
      BY <1>q, <2>0, <2>x, <2>u DEF SyncInv, Left, SelectAt
    <3>3. \A t \in Targets : Made(t) => Made(t)'
      BY DEF TargetsKept, Made
    <3>4. \A n \in 1..Len(todo) : Fresh(todo[n][1], r)' \/ Made(todo[n][1])'
      BY <1>f, <3>1, <3>2, <3>3, PicksTargets
    <3>5. Exists(target, u)'
      <4>1. PICK row : row = [source |-> rq[r].src, schema |-> Null]
        OBVIOUS
      <4>2. row \in Target
        BY <3>1, <4>1 DEF Target, Or
      <4>3. target' = [target EXCEPT ![u] = row]
        BY <1>3, <2>u, <4>1 DEF SaveSelected, PutTarget
      <4>4. QED
        BY <3>1, <4>2, <4>3, NullIsNoRow DEF TypeInv, TypeOK, Exists
    <3>6. rq'[r].at = "sync" /\ rq'[r].todo = todo /\ rq'[r].t = u
      BY <2>3, <2>x, <2>u
    <3>7. QED
      BY <3>2, <3>4, <3>5, <3>6 DEF Left
  <2>5. Fresh(u, r)' /\ rq'[r].t = u
    BY <1>q, <1>f, <2>0, <2>3, <2>u DEF SyncInv, Left
  <2>6. QED
    BY <1>q, <2>3, <2>4, <2>5
       DEF SyncInv, Synced, Syncers, BeforeSync, BeforeInsert, InSync, WithSource
<1>4. QED
  BY <1>1, <1>2, <1>3 DEF SelectStep

(* A template syncs its target once, if at all. *)
LEMMA TemplateFits ==
    ASSUME TypeInv, TypeInv', NEW r \in Requests, SyncInv(rq[r], r), TemplateStep(r), snap' = snap
    PROVE  SyncInv(rq[r], r)'
<1>q. rq[r] \in Request /\ rq[r].op \in {"template", "places"}
  BY WhoSteps DEF TypeInv, RequestInv
<1>o. rq'[r].op = rq[r].op
  BY TemplateWorks DEF Works
<1>1. rq[r].at \in BeforeSync
  BY DEF TemplateStep, FindTemplateJob, NeedToken, FindTarget, NewTarget, BeforeSync
<1>2. (\A t \in Targets : Fresh(t, r))'
  BY <1>1 DEF SyncInv, Fresh, Exists
<1>3. rq'[r].at \notin WithSource
  <2>1. CASE FindTemplateJob(r)
    BY <2>1, Lands DEF FindTemplateJob, WithSource
  <2>2. CASE NeedToken(r)
    <3>1. ASSUME NEW x, Keep(r, [rq[r] EXCEPT !.t = x], "target") PROVE rq'[r].at = "target"
      BY <1>q, <3>1, Lands DEF Request
    <3>2. QED
      BY <2>2, <3>1, Lands DEF NeedToken, WithSource
  <2>3. ASSUME NEW q, q = rq[r], Sync(r, q, q.t, AfterSync(q.op)) PROVE rq'[r].at = "sync"
    <3>p. PICK p : p = [q EXCEPT !.t = q.t, !.back = AfterSync(q.op)]
      OBVIOUS
    <3>1. "at" \in DOMAIN p
      BY <1>q, <2>3, <3>p DEF Request
    <3>2. QED
      BY <2>3, <3>p, <3>1, Lands DEF Sync
  <2>4. CASE FindTarget(r)
    BY <2>3, <2>4, Lands DEF FindTarget, WithSource
  <2>5. CASE NewTarget(r)
    BY <2>3, <2>5 DEF NewTarget, WithSource
  <2>6. QED
    BY <2>1, <2>2, <2>4, <2>5 DEF TemplateStep
<1>4. QED
  BY <1>q, <1>o, <1>2, <1>3, FreshFits

LEMMA LinkLands ==
    ASSUME TypeInv, NEW r \in Requests, LinkStep(r), rq[r].op \in {"template", "places"}
    PROVE  rq'[r].at \in {"mint", "trigger", "job", "links", "link", "done"}
<1>q. rq[r] \in Request
  BY DEF TypeInv, RequestInv
<1>j. AfterJob(rq[r].op) \in {"trigger", "links"}
  BY DEF AfterJob, Starter
<1>t. AfterTrigger(rq[r].op) \in {"job", "links"}
  BY DEF AfterTrigger
<1>1. ASSUME NEW x, NEW at, Keep(r, [rq[r] EXCEPT !.job = x], at) PROVE rq'[r].at = at
  BY <1>q, <1>1, Lands DEF Request
<1>2. ASSUME NEW x, NEW at, Keep(r, [rq[r] EXCEPT !.trig = x], at) PROVE rq'[r].at = at
  BY <1>q, <1>2, Lands DEF Request
<1>3. CASE SaveJob(r)
  BY <1>j, <1>1, <1>3 DEF SaveJob
<1>4. CASE FindTrigger(r) \/ MintTrigger(r)
  BY <1>t, <1>2, <1>4, Lands DEF FindTrigger, MintTrigger
<1>5. CASE ListLinks(r) \/ LinkTrigger(r)
  BY <1>5, Lands DEF ListLinks, LinkTrigger
<1>6. QED
  BY <1>3, <1>4, <1>5 DEF LinkStep

-----------------------------------------------------------------------------
LEMMA SnapWriters ==
    ASSUME TypeInv, NEW r \in Requests, Handle(r)
    PROVE  /\ snap' = snap
           /\ \A t \in Targets :
                 \/ target'[t] = target[t]
                 \/ Exists(target, t)' /\ target'[t].schema = Null
<1>t. target \in [Targets -> Or(Target)]
  BY DEF TypeInv, TypeOK
<1>w. ASSUME NEW t, NEW s \in Sources \cup {Placeholder},
             PutTarget(t, [source |-> s, schema |-> Null])
      PROVE  \A u \in Targets :
                \/ target'[u] = target[u]
                \/ Exists(target, u)' /\ target'[u].schema = Null
  <2>1. PICK row : row = [source |-> s, schema |-> Null]
    OBVIOUS
  <2>2. row \in Target /\ row.schema = Null
    BY <2>1 DEF Target, Or
  <2>3. target' = [target EXCEPT ![t] = row] /\ row # Null
    BY <1>w, <2>1, <2>2, NullIsNoRow DEF PutTarget
  <2>4. QED
    BY <1>t, <2>2, <2>3 DEF Exists
<1>q. Fits(rq[r], rq[r].at)
  BY DEF TypeInv, RequestInv
<1>1. CASE ConnectionStep(r) \/ LinkStep(r) \/ PipelineStep(r)
  BY <1>1, ConnectionWorks, LinkWorks, PipelineWorks DEF schemas
<1>2. CASE SaveSelected(r)
  BY <1>q, <1>2, <1>w DEF SaveSelected, Reach, Fits
<1>3. CASE NewBundledTarget(r)
  BY <1>3, <1>w DEF NewBundledTarget
<1>4. CASE NewTarget(r)
  BY <1>q, <1>4, <1>w DEF NewTarget, Fits
<1>5. CASE /\ SelectStep(r) \/ StarterStep(r) \/ TemplateStep(r)
           /\ ~ SaveSelected(r) /\ ~ NewBundledTarget(r) /\ ~ NewTarget(r)
  BY <1>5 DEF SelectStep, ListSources, PickSource, StarterStep, ReadLimits, SeedLimits,
              FindStarter, DropStarterTrigger, FindStarterJob, DropStarterJob,
              ProvisionConnector, NewConnector, ProvisionTarget, TemplateStep, FindTemplateJob,
              NeedToken, FindTarget, ReadOnly, OnlyConnection, OnlyPipelines, schemas
<1>6. QED
  BY <1>1, <1>2, <1>3, <1>4, <1>5, HandleIs

LEMMA NextTargetsKept == TypeInv /\ [Next]_ownerVars => TargetsKept
<1> SUFFICES ASSUME TypeInv, [Next]_ownerVars PROVE TargetsKept
  OBVIOUS
<1>1. CASE target' = target
  BY <1>1 DEF TargetsKept, Exists
<1>2. ASSUME NEW r \in Requests, Handle(r) PROVE TargetsKept
  BY <1>2, SnapWriters DEF TargetsKept, Exists
<1>3. ASSUME NEW r \in Requests, SchemaSync(r) PROVE TargetsKept
  <2>1. CASE SyncAttach(r)
    <3>1. rq[r].row \in Target /\ rq[r].t \in Targets
      BY <2>1 DEF TypeInv, RequestInv, SyncAttach, Fits, InSync, WithRow
    <3>x. PICK x : x = <<rq[r].t, r>>
      OBVIOUS
    <3>w. PICK w : w = [rq[r].row EXCEPT !.schema = x]
      OBVIOUS
    <3>2. w \in Target
      BY <3>1, <3>x, <3>w, <1>3 DEF Target, Or, Snaps, States
    <3>3. target' = [target EXCEPT ![rq[r].t] = w] /\ w # Null
      BY <2>1, <3>x, <3>w, <3>2, NullIsNoRow DEF SyncAttach, PutTarget
    <3>4. QED
      BY <3>1, <3>3 DEF TypeInv, TypeOK, TargetsKept, Exists
  <2>2. CASE ~ SyncAttach(r)
    BY <1>1, <1>3, <2>2
       DEF SchemaSync, SyncTarget, SyncConnector, SyncToken, SyncFetch, SyncList,
           SyncDeactivate, SyncInsert, ReadOnly, schemas
  <2>3. QED
    BY <2>1, <2>2
<1>4. ASSUME NEW r \in Requests, Arrive(r) PROVE TargetsKept
  BY <1>1, <1>4, ArriveBegins DEF Begins, schemas
<1>5. ASSUME NEW r \in Requests, Fault(r) PROVE TargetsKept
  BY <1>1, <1>5, FaultWorks DEF schemas
<1>6. ASSUME NEW s \in States, Expire(s) PROVE TargetsKept
  BY <1>1, <1>6 DEF Expire, OnlyConnection, schemas
<1>7. CASE UNCHANGED ownerVars
  BY <1>1, <1>7 DEF ownerVars, schemas
<1>8. QED
  BY <1>2, <1>3, <1>4, <1>5, <1>6, <1>7 DEF Next

LEMMA NextSchemaInv ==
    TypeInv /\ HistoryInv /\ SchemaInv /\ [Next]_ownerVars => SchemaInv'
<1> SUFFICES ASSUME TypeInv, HistoryInv, SchemaInv, [Next]_ownerVars PROVE SchemaInv'
  OBVIOUS
<1>t. TypeInv'
  BY NextTypeInv
<1>k. TargetsKept
  BY NextTargetsKept
<1>q. \A r \in Requests :
         /\ rq[r] \in Request /\ Fits(rq[r], rq[r].at) /\ Fits(rq[r], rq[r].at)'
         /\ SyncInv(rq[r], r)
  BY <1>t DEF TypeInv, RequestInv, SchemaInv
(* One request goes on, and those that stand still keep what they have.     *)
<1>1. ASSUME NEW r \in Requests, SnapsKept, SyncInv(rq[r], r)',
             \A x \in Requests : x # r => rq'[x] = rq[x],
             \A x \in Requests, t \in Targets : x # r => (Fresh(t, x) => Fresh(t, x)'),
             \A t \in Targets : SchemaFits(t)'
      PROVE  SchemaInv'
  <2>1. ASSUME NEW x \in Requests PROVE SyncInv(rq[x], x)'
    <3>1. CASE x = r
      BY <1>1, <3>1
    <3>2. CASE x # r
      BY <1>q, <1>k, <1>1, <2>1, <3>2, SyncInvStays
    <3>3. QED
      BY <3>1, <3>2
  <2>2. QED
    BY <1>1, <2>1 DEF SchemaInv
(* The same where no snapshot is written.                                   *)
<1>2. ASSUME NEW r \in Requests, snap' = snap, SyncInv(rq[r], r)',
             \A x \in Requests : x # r => rq'[x] = rq[x],
             \A t \in Targets :
                \/ target'[t] = target[t]
                \/ Exists(target, t)' /\ target'[t].schema = Null
                \/ SchemaFits(t)'
      PROVE  SchemaInv'
  <2>1. SnapsKept
    BY <1>2 DEF SnapsKept, Exists
  <2>2. \A x \in Requests, t \in Targets : Fresh(t, x) => Fresh(t, x)'
    BY <1>2 DEF Fresh, Exists
  <2>3. ASSUME NEW t \in Targets PROVE SchemaFits(t)'
    <3>1. CASE target'[t] = target[t]
      BY <2>1, <2>3, <3>1, FitsStays DEF SchemaInv
    <3>2. CASE target'[t].schema = Null
      BY <3>2 DEF SchemaFits
    <3>3. QED
      BY <1>2, <2>3, <3>1, <3>2
  <2>4. QED
    BY <1>1, <1>2, <2>1, <2>2, <2>3
<1>3. ASSUME NEW r \in Requests, Fault(r) PROVE SchemaInv'
  <2>1. UNCHANGED schemas /\ Works(r)
    BY <1>3, FaultWorks
  <2>2. SyncInv(rq[r], r)'
    <3>1. CASE Syncing(r)
      <4>1. rq[r].at \in InSync /\ SyncEnds(r)
        BY <1>3, <3>1 DEF Syncing, InSync, Fault
      <4>2. QED
        BY <1>q, <1>k, <2>1, <4>1, SyncEndFits DEF schemas
    <3>2. CASE ~ Syncing(r)
      <4>1. rq'[r].at = "done" /\ rq'[r].op = rq[r].op
        BY <1>3, <2>1, <3>2, Lands DEF Fault, Works
      <4>2. CASE rq[r].op \in Syncers
        BY <4>1, <4>2, EndFits DEF BeforeSync, SelectAt, InSync
      <4>3. CASE rq[r].op \notin Syncers
        <5>1. (\A t \in Targets : Fresh(t, r))'
          BY <1>q, <2>1, <4>3 DEF SyncInv, schemas, Fresh, Exists
        <5>2. QED
          BY <1>t, <4>1, <4>3, <5>1, FreshFits DEF WithSource, Syncers
      <4>4. QED
        BY <4>2, <4>3
    <3>3. QED
      BY <3>1, <3>2
  <2>3. QED
    BY <1>2, <2>1, <2>2 DEF Works, schemas
<1>4. ASSUME NEW r \in Requests, Begins(r) PROVE SchemaInv'
  <2>1. /\ UNCHANGED schemas /\ rq[r].op = "none"
        /\ \A x \in Requests : x # r => rq'[x] = rq[x]
    BY <1>4 DEF Begins, Idle
  <2>2. (\A t \in Targets : Fresh(t, r))'
    BY <1>q, <2>1 DEF SyncInv, Syncers, schemas, Fresh, Exists
  <2>3. rq'[r].at \notin WithSource
    BY <1>4 DEF Begins, WithSource
  <2>4. SyncInv(rq[r], r)'
    <3>1. CASE rq'[r].op = "select"
      <4>1. rq'[r].at \in {"sources", "done"}
        BY <1>4, <3>1 DEF Begins
      <4>2. QED
        BY <2>2, <2>3, <4>1
           DEF SyncInv, Synced, Left, SelectAt, BeforeInsert, InSync, WithSource
    <3>2. CASE rq'[r].op # "select"
      BY <1>t, <2>2, <2>3, <3>2, FreshFits
    <3>3. QED
      BY <3>1, <3>2
  <2>5. QED
    BY <1>2, <2>1, <2>4 DEF schemas
<1>5. ASSUME NEW r \in Requests, Handle(r) PROVE SchemaInv'
  <2>1. Works(r) /\ snap' = snap
    BY <1>5, HandleWorks, SnapWriters
  <2>2. SyncInv(rq[r], r)'
    <3>1. CASE rq[r].op \notin Syncers
      <4>1. rq'[r].op = rq[r].op
        BY <2>1 DEF Works
      <4>2. (\A t \in Targets : Fresh(t, r))'
        BY <1>q, <2>1, <3>1 DEF SyncInv, Fresh, Exists
      <4>3. rq'[r].at \notin WithSource
        BY <1>q, <3>1, <4>1 DEF Fits, WithSource, InSync, Syncers
      <4>4. QED
        BY <1>t, <3>1, <4>1, <4>2, <4>3, FreshFits DEF Syncers
    <3>2. CASE SelectStep(r)
      BY <1>q, <1>k, <2>1, <3>2, SelectFits
    <3>3. CASE TemplateStep(r)
      BY <1>q, <1>t, <2>1, <3>3, TemplateFits
    <3>4. CASE LinkStep(r) /\ rq[r].op \in Syncers
      <4>1. rq[r].op \in {"template", "places"}
        BY <3>4, WhoSteps DEF MakesJob, Syncers
      <4>2. rq'[r].at \in {"mint", "trigger", "job", "links", "link", "done"}
        BY <3>4, <4>1, LinkLands
      <4>3. QED
        BY <2>1, <3>4, <4>2, EndFits DEF Works, BeforeSync, SelectAt, InSync
    <3>5. QED
      BY <1>5, <3>1, <3>2, <3>3, <3>4, HandleIs, WhoSteps DEF Syncers, Starter
  <2>3. QED
    BY <1>2, <1>5, <2>1, <2>2, SnapWriters DEF Works
<1>6. ASSUME NEW r \in Requests, SchemaSync(r) PROVE SchemaInv'
  <2>w. Works(r)
    BY <1>6, SyncWorks
  <2>1. CASE SyncInsert(r) \/ SyncDeactivate(r)
    <3>1. /\ SnapsKept /\ SyncInv(rq[r], r)'
          /\ \A x \in Requests, t \in Targets : x # r => (Fresh(t, x) => Fresh(t, x)')
      BY <1>q, <2>1, InsertFits, DeactivateFits
    <3>2. target' = target
      BY <2>1 DEF SyncInsert, SyncDeactivate
    <3>3. \A t \in Targets : SchemaFits(t)'
      BY <3>1, <3>2, FitsStays DEF SchemaInv
    <3>4. QED
      BY <1>1, <2>w, <3>1, <3>3 DEF Works
  <2>2. CASE ~ SyncInsert(r) /\ ~ SyncDeactivate(r)
    <3>1. /\ snap' = snap
          /\ \/ SyncTarget(r) \/ SyncConnector(r) \/ SyncToken(r) \/ SyncFetch(r)
             \/ SyncList(r) \/ SyncAttach(r)
      BY <1>6, <2>2 DEF SchemaSync, SyncTarget, SyncConnector, SyncToken, SyncFetch, SyncList,
                        SyncAttach, ReadOnly, schemas
    <3>2. SyncInv(rq[r], r)'
      BY <1>q, <1>k, <1>t, <3>1, SyncReadsFit
    <3>3. CASE ~ SyncAttach(r)
      <4>1. target' = target
        BY <3>1, <3>3 DEF SyncTarget, SyncConnector, SyncToken, SyncFetch, SyncList, ReadOnly,
                          schemas
      <4>2. QED
        BY <1>2, <2>w, <3>1, <3>2, <4>1 DEF Works
    <3>4. CASE SyncAttach(r)
      <4>t. PICK t : t = rq[r].t
        OBVIOUS
      <4>x. PICK x : x = <<t, r>>
        OBVIOUS
      <4>w. PICK w : w = [rq[r].row EXCEPT !.schema = x]
        OBVIOUS
      <4>1. /\ rq[r].at = "attach" /\ t \in Targets /\ rq[r].row \in Target
            /\ rq[r].by \in {"token", "name"}
        BY <1>q, <3>4, <4>t DEF SyncAttach, Fits, InSync, WithRow, Request
      <4>2. w.schema = x /\ w.source = rq[r].row.source
        BY <4>1, <4>w DEF Target
      <4>3. target' = [target EXCEPT ![t] = w]
        BY <3>4, <4>t, <4>x, <4>w DEF SyncAttach, PutTarget
      <4>4. target'[t] = w /\ \A u \in Targets : u # t => target'[u] = target[u]
        BY <4>1, <4>3 DEF TypeInv, TypeOK
      <4>5. /\ Exists(snap, x) /\ snap[x].source = rq[r].src /\ snap[x].by = rq[r].by
            /\ rq[r].by = "token" => rq[r].src = rq[r].row.source
        BY <1>q, <4>1, <4>t, <4>x DEF SyncInv, Synced, WithSource
      <4>6. SchemaFits(t)'
        BY <3>1, <4>2, <4>4, <4>5 DEF SchemaFits, Exists
      <4>7. QED
        BY <1>2, <2>w, <3>1, <3>2, <4>4, <4>6 DEF Works
    <3>5. QED
      BY <3>3, <3>4
  <2>3. QED
    BY <2>1, <2>2
<1>7. ASSUME UNCHANGED <<rq, schemas>> PROVE SchemaInv'
  BY <1>7 DEF SchemaInv, SchemaFits, SyncInv, Synced, Left, Fresh, Made, Exists, schemas
<1>8. ASSUME NEW r \in Requests, Arrive(r) PROVE SchemaInv'
  BY <1>4, <1>8, ArriveBegins
<1>9. ASSUME NEW s \in States, Expire(s) PROVE SchemaInv'
  BY <1>7, <1>9 DEF Expire, OnlyConnection
<1>10. CASE UNCHANGED ownerVars
  BY <1>7, <1>10 DEF ownerVars
<1>11. QED
  BY <1>3, <1>5, <1>6, <1>8, <1>9, <1>10 DEF Next

LEMMA InitSchemaInv == Init => SchemaInv
<1> SUFFICES ASSUME Init PROVE SchemaInv
  OBVIOUS
<1>1. PICK s \in Starts :
          LET synced == {t \in DOMAIN s.targets : s.targets[t] \in Sources}
          IN  /\ target = [t \in Targets |-> IF t \notin DOMAIN s.targets THEN Null
                    ELSE [source |-> s.targets[t],
                          schema |-> IF t \in synced THEN <<t, "earlier">> ELSE Null]]
              /\ snap = [x \in Snaps |-> IF x \notin synced \X {"earlier"} THEN Null
                    ELSE [source |-> s.targets[x[1]], by |-> "token", active |-> TRUE]]
  BY DEF Init
<1> DEFINE synced == {t \in DOMAIN s.targets : s.targets[t] \in Sources}
<1>2. ASSUME NEW t \in Targets, Exists(target, t), target[t].schema # Null
      PROVE  /\ Exists(snap, target[t].schema)
             /\ snap[target[t].schema].source = target[t].source
  <2>1. /\ t \in synced /\ target[t].source = s.targets[t]
        /\ target[t].schema = <<t, "earlier">>
    BY <1>1, <1>2 DEF Exists
  <2>x. PICK x : x = <<t, "earlier">>
    OBVIOUS
  <2>2. x \in Snaps /\ x \in synced \X {"earlier"} /\ x[1] = t
    BY <1>2, <2>1, <2>x DEF Snaps, States
  <2>w. PICK w : w = [source |-> s.targets[t], by |-> "token", active |-> TRUE]
    OBVIOUS
  <2>3. snap[x] = w
    BY <1>1, <2>2, <2>w
  <2>4. w # Null /\ w.source = s.targets[t]
    <3>1. w \in Snapshot /\ w.source = s.targets[t]
      BY <2>1, <2>w DEF Snapshot
    <3>2. QED
      BY <3>1, NullIsNoRow
  <2>5. target[t].schema = x /\ target[t].source = w.source
    BY <2>1, <2>x, <2>4
  <2>6. QED
    BY <2>3, <2>4, <2>5 DEF Exists
<1>3. ASSUME NEW r \in Requests, NEW t \in Targets PROVE Fresh(t, r)
  <2>x. PICK x : x = <<t, r>>
    OBVIOUS
  <2>1. x \in Snaps /\ x \notin synced \X {"earlier"}
    BY <1>3, <2>x, OwnerAssumption DEF Snaps, States
  <2>2. QED
    BY <1>1, <2>x, <2>1 DEF Fresh, Exists
<1>4. \A r \in Requests : rq[r].at = "idle" /\ rq[r].op = "none"
  BY DEF Init, Idle
<1>5. \A r \in Requests : SyncInv(rq[r], r)
  BY <1>3, <1>4 DEF SyncInv, Synced, BeforeInsert, InSync, WithSource
<1>6. \A t \in Targets : SchemaFits(t)
  BY <1>2 DEF SchemaFits
<1>7. QED
  BY <1>5, <1>6 DEF SchemaInv

(* Whatever selections, templates and syncs of the same target overlap and   *)
(* whichever of their calls fail, a target's schema is of the data source    *)
(* the target points at, if it was fetched by that source's id: the row and  *)
(* the snapshot that a sync joins belong to one read (sync_for_target), and  *)
(* who writes another source writes no schema (select_data_sources).         *)
THEOREM SchemaIsOfItsSource == Spec => []SchemaOfItsSource
<1>1. SchemaInv => SchemaOfItsSource
  <2>1. ASSUME NEW t \in Targets, SchemaFits(t), Exists(target, t), target[t].schema # Null,
               snap[target[t].schema].by = "token"
        PROVE  snap[target[t].schema].source = target[t].source
    BY <2>1 DEF SchemaFits
  <2>2. QED
    BY <2>1 DEF SchemaInv, SchemaOfItsSource
<1>2. Init => TypeInv /\ HistoryInv /\ SchemaInv
  BY InitTypeInv, InitHistoryInv, InitSchemaInv
<1>3. TypeInv /\ HistoryInv /\ SchemaInv /\ [Next]_ownerVars
         => TypeInv' /\ HistoryInv' /\ SchemaInv'
  BY NextTypeInv, NextHistoryInv, NextSchemaInv
<1>4. QED
  BY <1>1, <1>2, <1>3, PTL DEF Spec
=============================================================================
