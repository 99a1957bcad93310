----------------------------- MODULE Accounts -----------------------------
(***************************************************************************)
(* Invitations, signup, cohorts, waves, the beta waitlist and the EULA     *)
(* versions: the routes of routes/invitations.py, routes/auth_admin.py,    *)
(* routes/eula.py, routes/signup.py and routes/public_waitlist.py.  A      *)
(* handler is a sequence of awaited calls on the tables of AuthTables;     *)
(* handlers of several requests interleave between the calls.              *)
(* Administrators are taken to pass require_admin_managed_auth.            *)
(***************************************************************************)
EXTENDS AuthTables

(* The tables when the API starts: invitations that nobody claimed yet,    *)
(* profiles made by an administrator, submissions without an invitation,   *)
(* and one published version (the migration seeds it).                     *)
CONSTANT Start

Backed(table, col, ids) == \A x \in DOMAIN table :
    Exists(table, x) => table[x][col] \in Or(ids)

ASSUME StartAssumption ==
    /\ Start.codes \in [Codes -> Or({i \in Invitation : i.by = Null})]
    /\ Start.profiles \in [Users -> Or({p \in Profile : p.code = Null})]
    /\ Start.waves \subseteq Waves
    /\ Start.subs \in [Addresses -> Or({s \in Submission : s.code = Null})]
    /\ Start.eulas \in [Versions -> Or(Eula)]
    /\ Backed(Start.codes, "wave", Start.waves)
    /\ Backed(Start.profiles, "wave", Start.waves)
    /\ Backed(Start.subs, "wave", Start.waves)
    /\ \E v \in Versions : \A x \in Versions :
          (Exists(Start.eulas, x) /\ Start.eulas[x].status = "published") = (x = v)

---------------------------------------------------------------------------
(* Ids of waves that a request can name.                                   *)
Minted == {w \in Waves : waves[w] # "free"}

(* POST /auth/invitations                                                  *)

Issue(r) ==
    \E to \in Or(Addresses), t \in Types, c \in Or(Cohorts), w \in Or(Minted) :
        Begin(r, [Idle EXCEPT !.op = "issue", !.at = "cohort", !.to = to,
                              !.type = t, !.cohort = c, !.wave = w])

(* The checks both ways of issuing share; an unknown id is a 400.          *)
CheckCohort(r) ==
    /\ rq[r].at = "cohort"
    /\ IF CohortKnown(rq[r].cohort) THEN Goto(r, "wave") ELSE Answer(r, "400")
    /\ UNCHANGED <<tables, faults>>

CheckWave(r) ==
    /\ rq[r].at = "wave"
    /\ rq[r].op \in {"issue", "invite"}
    /\ IF WaveKnown(rq[r].wave)
       THEN Goto(r, IF rq[r].op = "invite" /\ rq[r].code # Null
                    THEN "linked" ELSE "lookup")
       ELSE Answer(r, "400")
    /\ UNCHANGED <<tables, faults>>

(* An invitation issued to this address already is the answer (or, from    *)
(* the waitlist, what the submission is linked to).                        *)
LookupIssued(r) ==
    LET S == IF rq[r].to = Null THEN {} ELSE IssuedTo(rq[r].to) IN
    /\ rq[r].at = "lookup"
    /\ IF S = {} THEN Goto(r, "generate")
       ELSE IF rq[r].op = "issue" THEN Answer(r, "ok")
       ELSE \E k \in Oldest(S) : rq' = [rq EXCEPT ![r].code = k, ![r].at = "link"]
    /\ UNCHANGED <<tables, faults>>

(* generate_invitation_code: a code without a row; after three that have   *)
(* one it raises.                                                          *)
GenerateCode(r) ==
    /\ rq[r].at = "generate"
    /\ \E k \in {l \in Codes : order[l] = 0} :
          rq' = [rq EXCEPT ![r].code = k, ![r].at = "insert"]
    /\ UNCHANGED <<tables, faults>>

CreateCode(r) ==
    LET q == rq[r] IN
    /\ q.at = "insert"
    /\ q.op \in {"issue", "invite"}
    /\ IF order[q.code] = 0 /\ CohortKnown(q.cohort) /\ WaveKnown(q.wave)
       THEN /\ InsertCode(q.code, q.to, q.type, q.cohort, q.wave)
            /\ IF q.op = "issue" THEN Answer(r, "ok") ELSE Goto(r, "link")
       ELSE Answer(r, "error") /\ UNCHANGED tables
    /\ UNCHANGED faults

(* POST /auth/admin/waitlist-submissions/{id}/issue-invitation, to the     *)
(* address of the submission or another one.                               *)
InviteFromWaitlist(r) ==
    \E e, to \in Addresses, t \in Types, c \in Or(Cohorts), w \in Or(Minted) :
        Begin(r, [Idle EXCEPT !.op = "invite", !.at = "submission", !.sub = e,
                              !.to = to, !.type = t, !.cohort = c, !.wave = w])

ReadSubmission(r) ==
    /\ At(r, "invite", "submission")
    /\ IF Exists(subs, rq[r].sub)
       THEN rq' = [rq EXCEPT ![r].code = subs[rq[r].sub].code, ![r].at = "cohort"]
       ELSE Answer(r, "404")
    /\ UNCHANGED <<tables, faults>>

(* A row that was linked when it was read: the same invitation, or 409.    *)
AlreadyLinked(r) ==
    LET S == IssuedTo(rq[r].to) IN
    /\ At(r, "invite", "linked")
    /\ Answer(r, IF rq[r].code \in Oldest(S) THEN "ok" ELSE "409")
    /\ UNCHANGED <<tables, faults>>

Link(r) ==
    LET q == rq[r] IN
    /\ At(r, "invite", "link")
    /\ IF Exists(subs, q.sub) => CodeKnown(q.code) /\ WaveKnown(q.wave)
       THEN LinkSubmission(q.sub, q.code, q.wave) /\ Answer(r, "ok")
       ELSE Answer(r, "error") /\ UNCHANGED tables
    /\ UNCHANGED faults

---------------------------------------------------------------------------
(* POST /auth/invitations/claim asks for a profile, which it leaves alone; *)
(* /claim-for-signup asks for a token only, and makes the profile.         *)

Claim(r) ==
    \E u \in Users, k \in Codes :
        Begin(r, [Idle EXCEPT !.op = "claim", !.at = "profile", !.user = u, !.code = k])

ClaimForSignup(r) ==
    \E u \in Users, k \in Codes :
        Begin(r, [Idle EXCEPT !.op = "signup", !.at = "validate", !.user = u, !.code = k])

(* Mutant: a token is enough for the claim.                                *)
RequireToken(r) ==
    /\ At(r, "claim", "profile")
    /\ Goto(r, "validate")
    /\ UNCHANGED <<tables, faults>>

(* require_managed_auth *)
RequireProfile(r) ==
    /\ At(r, "claim", "profile")
    /\ IF Exists(profiles, rq[r].user) THEN Goto(r, "validate") ELSE Answer(r, "403")
    /\ UNCHANGED <<tables, faults>>

ValidateCode(r) ==
    /\ rq[r].at = "validate"
    /\ IF Validity(rq[r].code) = "valid" THEN Goto(r, "claim") ELSE Answer(r, "400")
    /\ UNCHANGED <<tables, faults>>

(* Mutant: the signup goes on with the validated row, claimed or not.      *)
TakeCodeUnchecked(r) ==
    LET q == rq[r] IN
    /\ q.at = "claim"
    /\ ClaimCode(q.code, q.user)
    /\ IF q.op = "claim" \/ ~Exists(codes, q.code) THEN Answer(r, "ok")
       ELSE rq' = [rq EXCEPT ![r].at = "provision", ![r].row = codes[q.code]]
    /\ UNCHANGED faults

(* claim_invitation_code, and the rest of claim_invitation_code_for_signup *)
(* when the caller is the signup: the claimed row is what the profile gets.*)
TakeCode(r) ==
    LET q == rq[r] IN
    /\ q.at = "claim"
    /\ ClaimCode(q.code, q.user)
    /\ IF ~Claimable(q.code) THEN Answer(r, "400")
       ELSE IF q.op = "claim" THEN Answer(r, "ok")
       ELSE rq' = [rq EXCEPT ![r].at = "provision", ![r].row = codes[q.code]]
    /\ UNCHANGED faults

Provision(r) ==
    LET q == rq[r] IN
    /\ At(r, "signup", "provision")
    /\ IF CodeKnown(q.code) /\ CohortKnown(q.row.cohort) /\ WaveKnown(q.row.wave)
       THEN UpsertProfile(q.user, q.code, q.row) /\ Answer(r, "ok")
       ELSE Answer(r, "error") /\ UNCHANGED tables
    /\ UNCHANGED faults

(* POST /auth/signup: the service is not async and does not await          *)
(* validate_invitation_code; subscripting the coroutine raises a TypeError *)
(* before anything is created, and the answer is a 500.                    *)
SignupWithInvitation(r) ==
    /\ rq[r] = Idle
    /\ Answer(r, "error")
    /\ UNCHANGED <<tables, faults>>

(* DELETE /auth/invitations/{id}                                           *)
Revoke(r) ==
    \E k \in Codes :
        Begin(r, [Idle EXCEPT !.op = "revoke", !.at = "check", !.code = k])

CheckUnclaimed(r) ==
    /\ At(r, "revoke", "check")
    /\ CASE Validity(rq[r].code) = "valid" -> Goto(r, "delete")
         [] Validity(rq[r].code) = "invalid" -> Answer(r, "404")
         [] OTHER -> Answer(r, "409")
    /\ UNCHANGED <<tables, faults>>

DeleteCode(r) ==
    /\ At(r, "revoke", "delete")
    /\ DeleteUnclaimed(rq[r].code)
    /\ Answer(r, "ok")
    /\ UNCHANGED faults

---------------------------------------------------------------------------
(* Cohorts.  POST /auth/admin/cohorts does not await get_cohort_by_key:    *)
(* the coroutine is true, the answer always 409, and no cohort is made.    *)

CreateCohort(r) ==
    /\ rq[r] = Idle
    /\ Answer(r, "409")
    /\ UNCHANGED <<tables, faults>>

(* DELETE /auth/admin/cohorts/{id} and /auth/admin/beta-waves/{id}: the    *)
(* row, one query per table that may refer to it, and the delete.          *)
RemoveCohort(r) ==
    \E c \in Cohorts :
        Begin(r, [Idle EXCEPT !.op = "drop", !.at = "exists", !.cohort = c])

RemoveWave(r) ==
    \E w \in Minted :
        Begin(r, [Idle EXCEPT !.op = "drop", !.at = "exists", !.wave = w])

CheckExists(r) ==
    LET q == rq[r] IN
    /\ At(r, "drop", "exists")
    /\ IF CohortKnown(q.cohort) /\ WaveKnown(q.wave)
       THEN Goto(r, IF q.wave = Null THEN "incodes" ELSE "insubs")
       ELSE Answer(r, "404")
    /\ UNCHANGED <<tables, faults>>

CheckReferences(r) ==
    LET q == rq[r] IN
    /\ q.op = "drop"
    /\ \/ /\ q.at = "insubs"
          /\ IF WaveInSubs(q.wave) THEN Answer(r, "409") ELSE Goto(r, "incodes")
       \/ /\ q.at = "incodes"
          /\ IF \/ q.wave # Null /\ WaveInCodes(q.wave)
                \/ q.cohort # Null /\ CohortInCodes(q.cohort)
             THEN Answer(r, "409") ELSE Goto(r, "inprofiles")
       \/ /\ q.at = "inprofiles"
          /\ IF \/ q.wave # Null /\ WaveInProfiles(q.wave)
                \/ q.cohort # Null /\ CohortInProfiles(q.cohort)
             THEN Answer(r, "409") ELSE Goto(r, "remove")
    /\ UNCHANGED <<tables, faults>>

Remove(r) ==
    /\ At(r, "drop", "remove")
    /\ IF rq[r].wave = Null THEN DeleteCohort(rq[r].cohort) ELSE DeleteWave(rq[r].wave)
    /\ Answer(r, "ok")
    /\ UNCHANGED faults

(* POST /auth/admin/beta-waves: the key is looked up, then inserted; the   *)
(* unique constraint turns a second insert into an error.  Which key is    *)
(* asked for is left open.                                                 *)
CreateWave(r) == Begin(r, [Idle EXCEPT !.op = "wave", !.at = "key"])

SomeWave == \E w \in Waves : waves[w] = "there"

CheckWaveKey(r) ==
    /\ At(r, "wave", "key")
    /\ Goto(r, "insert") \/ (SomeWave /\ Answer(r, "409"))
    /\ UNCHANGED <<tables, faults>>

CreateWaveRow(r) ==
    /\ At(r, "wave", "insert")
    /\ \/ SomeWave /\ Answer(r, "error") /\ UNCHANGED tables
       \/ \E w \in Waves : waves[w] = "free" /\ InsertWave(w) /\ Answer(r, "ok")
    /\ UNCHANGED faults

---------------------------------------------------------------------------
(* The waitlist: POST /public/waitlist and the administrator's patch.      *)

Submit(r) ==
    \E e \in Addresses :
        Begin(r, [Idle EXCEPT !.op = "submit", !.at = "lookup email", !.to = e])

(* persist_submission reads the row by normalized email ...                *)
LookupEmail(r) ==
    /\ At(r, "submit", "lookup email")
    /\ rq' = [rq EXCEPT ![r].at = "persist",
                        ![r].seen = IF Exists(subs, rq[r].to)
                                    THEN subs[rq[r].to].count ELSE 0]
    /\ UNCHANGED <<tables, faults>>

(* ... and updates the count it read, or inserts a row of its own.         *)
Persist(r) ==
    LET q == rq[r]
        new == [count |-> 1, status |-> "PENDING_REVIEW", code |-> Null, wave |-> Null]
    IN
    /\ At(r, "submit", "persist")
    /\ \/ /\ q.seen > 0
          /\ SetSubmission(q.to, [subs[q.to] EXCEPT !.count = q.seen + 1])
          /\ Answer(r, "ok")
       \/ /\ q.seen = 0
          /\ IF Exists(subs, q.to) THEN Answer(r, "error") /\ UNCHANGED tables
             ELSE SetSubmission(q.to, new) /\ Answer(r, "ok")
    /\ UNCHANGED faults

(* PATCH of a submission by an administrator: a wave, or a status.         *)
PatchSubmission(r) ==
    \E e \in Addresses, w \in Or(Minted) :
        Begin(r, [Idle EXCEPT !.op = "patch", !.at = "wave", !.to = e, !.wave = w])

CheckPatchWave(r) ==
    /\ At(r, "patch", "wave")
    /\ IF WaveKnown(rq[r].wave) THEN Goto(r, "update") ELSE Answer(r, "400")
    /\ UNCHANGED <<tables, faults>>

(* Mutant: the status is not checked against WAITLIST_STATUSES.            *)
UpdateSubmissionUnchecked(r) ==
    LET q == rq[r] IN
    /\ At(r, "patch", "update")
    /\ Exists(subs, q.to)
    /\ SetSubmission(q.to, [subs[q.to] EXCEPT !.status = "REVIEWED"])
    /\ Answer(r, "ok")
    /\ UNCHANGED faults

UpdateSubmission(r) ==
    LET q == rq[r] IN
    /\ At(r, "patch", "update")
    /\ IF ~Exists(subs, q.to) THEN Answer(r, "404") /\ UNCHANGED tables
       ELSE IF WaveKnown(q.wave)
       THEN \E status \in Statuses,
               wave \in {q.wave} \cup IF q.wave = Null THEN {subs[q.to].wave} ELSE {} :
               /\ SetSubmission(q.to, [subs[q.to] EXCEPT !.wave = wave,
                                                         !.status = status])
               /\ Answer(r, "ok")
       ELSE Answer(r, "error") /\ UNCHANGED tables
    /\ UNCHANGED faults

---------------------------------------------------------------------------
(* EULA versions.                                                          *)

(* POST of a draft, and of a copy: the text is given, or read from a row.  *)
CreateDraft(r) ==
    \E v \in Versions, t \in Texts :
        Begin(r, [Idle EXCEPT !.op = "eula", !.at = "draft", !.version = v, !.text = t])

CopyVersion(r) ==
    \E v, src \in Versions :
        /\ Exists(eulas, src)
        /\ Begin(r, [Idle EXCEPT !.op = "eula", !.at = "draft", !.version = v,
                                 !.text = eulas[src].text])

InsertDraft(r) ==
    LET q == rq[r] IN
    /\ At(r, "eula", "draft")
    /\ IF Exists(eulas, q.version) THEN Answer(r, "400") /\ UNCHANGED tables
       ELSE /\ SetEulas([eulas EXCEPT ![q.version] =
                            [status |-> "draft", text |-> q.text]])
            /\ Answer(r, "ok")
    /\ UNCHANGED faults

(* PATCH of a draft: the status is read, then part of the update's filter. *)
EditDraft(r) ==
    \E v \in Versions, t \in Texts :
        Begin(r, [Idle EXCEPT !.op = "eula", !.at = "read", !.version = v, !.text = t])

(* POST .../publish: the status is read, then checked by the RPC again.    *)
Publish(r) ==
    \E v \in Versions :
        Begin(r, [Idle EXCEPT !.op = "eula", !.at = "read", !.version = v])

IsDraft(v) == Exists(eulas, v) /\ eulas[v].status = "draft"

ReadVersion(r) ==
    LET q == rq[r] IN
    /\ At(r, "eula", "read")
    /\ IF ~Exists(eulas, q.version) THEN Answer(r, "404")
       ELSE IF ~IsDraft(q.version) THEN Answer(r, "400")
       ELSE Goto(r, IF q.text = Null THEN "rpc" ELSE "edit")
    /\ UNCHANGED <<tables, faults>>

(* Mutant: the update does not ask for status = draft.                     *)
UpdateDraftBlindly(r) ==
    LET q == rq[r] IN
    /\ At(r, "eula", "edit")
    /\ SetEulas([eulas EXCEPT ![q.version].text = q.text])
    /\ Answer(r, "ok")
    /\ UNCHANGED faults

UpdateDraft(r) ==
    LET q == rq[r] IN
    /\ At(r, "eula", "edit")
    /\ IF IsDraft(q.version)
       THEN SetEulas([eulas EXCEPT ![q.version].text = q.text]) /\ Answer(r, "ok")
       ELSE Answer(r, "404") /\ UNCHANGED tables
    /\ UNCHANGED faults

(* publish_eula_version: one transaction of three statements, each with a  *)
(* snapshot of its own (read committed).  The first looks at the status,   *)
PublishRpc(r) ==
    /\ At(r, "eula", "rpc")
    /\ IF IsDraft(rq[r].version) THEN Goto(r, "snapshot") ELSE Answer(r, "400")
    /\ UNCHANGED <<tables, faults>>

IsPublished(v) == Exists(eulas, v) /\ eulas[v].status = "published"

(* the second finds what is published now,                                 *)
FindPublished(r) ==
    /\ At(r, "eula", "snapshot")
    /\ \E p \in Or({v \in Versions : IsPublished(v)}) :
          /\ p = Null => ~\E v \in Versions : IsPublished(v)
          /\ rq' = [rq EXCEPT ![r].prior = p, ![r].at = "swap"]
    /\ UNCHANGED <<tables, faults>>

(* waits for the row, archives it unless another publish has by then, and  *)
(* the third publishes the version by id, whatever its status is now.      *)
Published(v, prior) == [x \in Versions |->
    IF x = v THEN [eulas[x] EXCEPT !.status = "published"]
    ELSE IF x = prior /\ IsPublished(x)
         THEN [eulas[x] EXCEPT !.status = "archived"] ELSE eulas[x]]

(* A second published row violates eula_versions_one_published, which      *)
(* undoes the transaction.                                                 *)
Swap(r) ==
    LET q == rq[r] IN
    /\ At(r, "eula", "swap")
    /\ IF \E x \in Versions \ {q.version, q.prior} : IsPublished(x)
       THEN Answer(r, "error") /\ UNCHANGED tables
       ELSE SetEulas(Published(q.version, q.prior)) /\ Answer(r, "ok")
    /\ UNCHANGED faults

---------------------------------------------------------------------------
Arrive(r) ==
    \/ Issue(r) \/ InviteFromWaitlist(r) \/ Claim(r) \/ ClaimForSignup(r)
    \/ SignupWithInvitation(r) \/ Revoke(r)
    \/ CreateCohort(r) \/ RemoveCohort(r) \/ RemoveWave(r) \/ CreateWave(r)
    \/ Submit(r) \/ PatchSubmission(r)
    \/ CreateDraft(r) \/ CopyVersion(r) \/ EditDraft(r) \/ Publish(r)

Handle(r) ==
    \/ CheckCohort(r) \/ CheckWave(r) \/ LookupIssued(r) \/ GenerateCode(r)
    \/ CreateCode(r) \/ ReadSubmission(r) \/ AlreadyLinked(r) \/ Link(r)
    \/ RequireProfile(r) \/ ValidateCode(r) \/ TakeCode(r) \/ Provision(r)
    \/ CheckUnclaimed(r) \/ DeleteCode(r)
    \/ CheckExists(r) \/ CheckReferences(r) \/ Remove(r)
    \/ CheckWaveKey(r) \/ CreateWaveRow(r)
    \/ LookupEmail(r) \/ Persist(r) \/ CheckPatchWave(r) \/ UpdateSubmission(r)
    \/ InsertDraft(r) \/ ReadVersion(r) \/ UpdateDraft(r)
    \/ PublishRpc(r) \/ FindPublished(r) \/ Swap(r)

Next == \E r \in Requests : Arrive(r) \/ Handle(r) \/ CallRaises(r)

Init ==
    /\ codes = Start.codes
    /\ order = [k \in Codes |-> IF Exists(codes, k) THEN 1 ELSE 0]
    /\ profiles = Start.profiles
    /\ cohorts = Cohorts
    /\ waves = [w \in Waves |-> IF w \in Start.waves THEN "there" ELSE "free"]
    /\ subs = Start.subs
    /\ eulas = Start.eulas
    /\ rq = [r \in Requests |-> Idle]
    /\ faults = 0

Spec == Init /\ [][Next]_authVars

---------------------------------------------------------------------------
(* Properties.                                                             *)

(* Every row has its columns' types.                                       *)
TypeOK ==
    /\ codes \in [Codes -> Or(Invitation)]
    /\ order \in [Codes -> Nat]
    /\ profiles \in [Users -> Or(Profile)]
    /\ cohorts \subseteq Cohorts
    /\ waves \in [Waves -> {"free", "there", "gone"}]
    /\ subs \in [Addresses -> Or(Submission)]
    /\ eulas \in [Versions -> Or(Eula)]
    /\ rq \in [Requests -> Request]
    /\ faults \in 0..MaxFaults

(* A claim is final: no other user takes the code over, no administrator   *)
(* who looked before the claim deletes it, and what it granted stays.      *)
ClaimIsFinal == [][\A k \in Codes : Exists(codes, k) /\ codes[k].by # Null =>
    /\ Exists(codes', k)
    /\ codes'[k].by = codes[k].by
    /\ codes'[k].type = codes[k].type]_authVars

(* The profile of an invited user says what the invitation says: it is     *)
(* claimed by that user, with the same type, cohort and wave, even when a  *)
(* cohort or wave goes away between the claim and the profile.             *)
ProfileMatchesInvitation == \A u \in Users :
    Exists(profiles, u) /\ profiles[u].code # Null =>
        LET p == profiles[u] i == codes[p.code] IN
        /\ Exists(codes, p.code) /\ i.by = u
        /\ p.type = i.type /\ p.cohort = i.cohort /\ p.wave = i.wave

(* A code is spent for a profile: whoever claimed one has a profile, is    *)
(* about to get it, or had a call fail on the way.                         *)
ClaimedHasProfile == \A k \in Codes :
    Exists(codes, k) /\ codes[k].by # Null =>
        \/ Exists(profiles, codes[k].by)
        \/ \E r \in Requests :
              /\ rq[r].op = "signup" /\ rq[r].code = k /\ rq[r].user = codes[k].by
              /\ rq[r].at = "provision" \/ rq[r].reply = "error"

(* After this step request r has published v.                              *)
PublishedBy(r, v) == /\ rq'[r].op = "eula" /\ rq'[r].at = "done"
                     /\ rq'[r].version = v /\ rq'[r].reply = "ok"

(* What users accepted cannot change: one version is published at any      *)
(* time, the text of a version changes only while it is a draft, which it  *)
(* never is again, and an archived version is published again only by one  *)
(* of two publishes of it that overlapped: this one was answered "ok" too. *)
EulaHistory == [][
    /\ \E v \in Versions : \A x \in Versions :
          (Exists(eulas', x) /\ eulas'[x].status = "published") = (x = v)
    /\ \A v \in Versions : Exists(eulas, v) /\ eulas[v].status # "draft" =>
          /\ eulas'[v].text = eulas[v].text
          /\ eulas'[v].status # "draft"
          /\ eulas[v].status = "archived" /\ eulas'[v].status = "published" =>
                \E r, s \in Requests : r # s /\ PublishedBy(r, v) /\ PublishedBy(s, v)
    ]_authVars

=============================================================================
