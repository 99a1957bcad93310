---------------------------- MODULE AuthTables ----------------------------
(***************************************************************************)
(* The tables behind accounts (invitation_codes, user_profiles,            *)
(* user_cohorts, beta_waves, beta_waitlist_submissions, eula_versions),    *)
(* what one call of SupabaseAuthRepository or of the waitlist repository   *)
(* does to them, and the requests that make those calls.  Every call is    *)
(* one awaited statement: other requests run between any two of them.      *)
(***************************************************************************)
EXTENDS Naturals, FiniteSets

CONSTANTS Requests,     \* handler executions, each serves one HTTP request
          Users,        \* users of the auth service
          Codes,        \* invitation codes; a row and its code are one thing here
          Addresses,    \* recipients of invitations and emails of the waitlist
          Cohorts, Waves,
          Types,        \* user types
          Versions, Texts,   \* EULA rows and their texts
          Null,         \* an absent row or column
          MaxFaults     \* calls that raise

ASSUME NullAssumption ==
    Null \notin Users \cup Codes \cup Addresses \cup Cohorts \cup Waves
                \cup Types \cup Versions \cup Texts
ASSUME BoundsAssumption == IsFiniteSet(Codes) /\ MaxFaults \in Nat

VARIABLES codes,      \* invitation_codes
          profiles,   \* user_profiles
          cohorts,    \* ids in user_cohorts
          waves,      \* beta_waves: an id is free, there, or gone for good
          subs,       \* beta_waitlist_submissions, by normalized email
          eulas,      \* eula_versions
          order,      \* created_at of a code, 0 while it was never issued
          rq,         \* the requests
          faults      \* calls that have raised so far

tables == <<codes, profiles, cohorts, waves, subs, eulas, order>>
authVars == <<codes, profiles, cohorts, waves, subs, eulas, order, rq, faults>>

Or(S) == S \cup {Null}

Invitation == [to : Or(Addresses), type : Types, cohort : Or(Cohorts),
               wave : Or(Waves), by : Or(Users)]
Profile == [type : Types, code : Or(Codes), cohort : Or(Cohorts), wave : Or(Waves)]
Statuses == {"PENDING_REVIEW", "SHORTLISTED", "INVITED", "DECLINED", "SPAM"}
Submission == [count : Nat, status : Statuses, code : Or(Codes), wave : Or(Waves)]
Eula == [status : {"draft", "published", "archived"}, text : Texts]

(* An absent row is no row. *)
ASSUME RowsAssumption == Null \notin Invitation \cup Profile \cup Submission \cup Eula

(* What a handler serves, the call it makes next, and its answer.          *)
Ops == {"none", "issue", "invite", "claim", "signup", "revoke", "drop", "wave",
        "submit", "patch", "eula"}
Labels == {"idle", "cohort", "wave", "lookup", "generate", "insert", "submission",
           "linked", "link", "profile", "validate", "claim", "provision", "check",
           "delete", "exists", "insubs", "incodes", "inprofiles", "remove", "key",
           "lookup email", "persist", "update", "draft", "read", "edit", "rpc",
           "snapshot", "swap", "done"}
Replies == {"", "ok", "error", "400", "403", "404", "409"}

Request == [op : Ops, at : Labels, user : Or(Users), code : Or(Codes),
            sub : Or(Addresses), to : Or(Addresses),
            cohort : Or(Cohorts), wave : Or(Waves), type : Or(Types),
            version : Or(Versions), text : Or(Texts), prior : Or(Versions),
            seen : Nat, row : Or(Invitation), reply : Replies]

Idle == [op |-> "none", at |-> "idle", user |-> Null, code |-> Null,
         sub |-> Null, to |-> Null, cohort |-> Null, wave |-> Null,
         type |-> Null, version |-> Null, text |-> Null, prior |-> Null,
         seen |-> 0, row |-> Null, reply |-> ""]

---------------------------------------------------------------------------
(* Reads.                                                                  *)

Exists(table, key) == table[key] # Null

(* get_invitation_by_issued_to: the oldest row issued to this address.     *)
IssuedTo(a) == {k \in Codes : Exists(codes, k) /\ codes[k].to = a}
Oldest(S) == {k \in S : \A l \in S : order[k] <= order[l]}

(* validate_invitation_code *)
Validity(k) == IF ~Exists(codes, k) THEN "invalid"
               ELSE IF codes[k].by # Null THEN "already_claimed" ELSE "valid"

(* cohort_has_references and beta_wave_has_references, one query each.     *)
CohortInCodes(c) == \E k \in Codes : Exists(codes, k) /\ codes[k].cohort = c
CohortInProfiles(c) == \E u \in Users : Exists(profiles, u) /\ profiles[u].cohort = c
WaveInSubs(w) == \E e \in Addresses : Exists(subs, e) /\ subs[e].wave = w
WaveInCodes(w) == \E k \in Codes : Exists(codes, k) /\ codes[k].wave = w
WaveInProfiles(w) == \E u \in Users : Exists(profiles, u) /\ profiles[u].wave = w

(* The references PostgreSQL checks on a write.                            *)
CohortKnown(c) == c = Null \/ c \in cohorts
WaveKnown(w) == w = Null \/ waves[w] = "there"
CodeKnown(k) == k = Null \/ Exists(codes, k)

---------------------------------------------------------------------------
(* Writes.                                                                 *)

(* ON DELETE SET NULL of a column in the rows that name the deleted one.   *)
Unset(table, col, key) ==
    [x \in DOMAIN table |-> IF Exists(table, x) /\ table[x][col] = key
                            THEN [table[x] EXCEPT ![col] = Null] ELSE table[x]]

(* create_invitation_code *)
InsertCode(k, to, type, cohort, wave) ==
    /\ codes' = [codes EXCEPT ![k] = [to |-> to, type |-> type, cohort |-> cohort,
                                      wave |-> wave, by |-> Null]]
    /\ order' = [order EXCEPT ![k] = 1 + Cardinality({l \in Codes : order[l] > 0})]
    /\ UNCHANGED <<profiles, cohorts, waves, subs, eulas>>

(* Mutant: the update does not ask for claimed = false.                    *)
ClaimableAgain(k) == Exists(codes, k)

(* The rows claim_invitation_code updates: this code, not claimed yet.     *)
Claimable(k) == Exists(codes, k) /\ codes[k].by = Null

ClaimCode(k, u) ==
    /\ codes' = IF Claimable(k) THEN [codes EXCEPT ![k].by = u] ELSE codes
    /\ UNCHANGED <<profiles, cohorts, waves, subs, eulas, order>>

(* upsert_profile with the columns of a claimed invitation.                *)
UpsertProfile(u, k, inv) ==
    /\ profiles' = [profiles EXCEPT ![u] =
          [type |-> inv.type, code |-> k, cohort |-> inv.cohort, wave |-> inv.wave]]
    /\ UNCHANGED <<codes, cohorts, waves, subs, eulas, order>>

(* The delete of delete_unclaimed_invitation_by_id.                        *)
DeleteUnclaimed(k) ==
    IF Claimable(k)
    THEN /\ codes' = [codes EXCEPT ![k] = Null]
         /\ profiles' = Unset(profiles, "code", k)
         /\ subs' = Unset(subs, "code", k)
         /\ UNCHANGED <<cohorts, waves, eulas, order>>
    ELSE UNCHANGED tables

(* The delete of delete_cohort_if_unused.                                  *)
DeleteCohort(c) ==
    /\ cohorts' = cohorts \ {c}
    /\ codes' = Unset(codes, "cohort", c)
    /\ profiles' = Unset(profiles, "cohort", c)
    /\ UNCHANGED <<waves, subs, eulas, order>>

(* The delete of delete_beta_wave_if_unused.                               *)
DeleteWave(w) ==
    /\ waves' = [waves EXCEPT ![w] = "gone"]
    /\ codes' = Unset(codes, "wave", w)
    /\ profiles' = Unset(profiles, "wave", w)
    /\ subs' = Unset(subs, "wave", w)
    /\ UNCHANGED <<cohorts, eulas, order>>

(* create_beta_wave; the row gets an id of its own.                        *)
InsertWave(w) ==
    /\ waves' = [waves EXCEPT ![w] = "there"]
    /\ UNCHANGED <<codes, profiles, cohorts, subs, eulas, order>>

SetSubmission(e, row) ==
    /\ subs' = [subs EXCEPT ![e] = row]
    /\ UNCHANGED <<codes, profiles, cohorts, waves, eulas, order>>

(* link_invitation_to_submission: an update by id, whatever the row says.  *)
LinkSubmission(e, k, w) ==
    IF Exists(subs, e)
    THEN SetSubmission(e, [subs[e] EXCEPT !.code = k, !.status = "INVITED",
                                          !.wave = IF w = Null THEN @ ELSE w])
    ELSE UNCHANGED tables

SetEulas(f) ==
    /\ eulas' = f
    /\ UNCHANGED <<codes, profiles, cohorts, waves, subs, order>>

---------------------------------------------------------------------------
(* Requests.                                                               *)

Begin(r, new) == /\ rq[r] = Idle
                 /\ rq' = [rq EXCEPT ![r] = new]
                 /\ UNCHANGED <<tables, faults>>

At(r, op, label) == rq[r].op = op /\ rq[r].at = label

Goto(r, label) == rq' = [rq EXCEPT ![r].at = label]

(* A publish is the one request on EULA versions that brings no text.      *)
Publishes(r) == rq[r].op = "eula" /\ rq[r].text = Null

(* The answer.  Of a signup the model remembers who asked for which code,  *)
(* of a publish the version.                                               *)
Answer(r, text) ==
    LET done == [Idle EXCEPT !.at = "done", !.reply = text] IN
    rq' = [rq EXCEPT ![r] =
        IF rq[r].op = "signup"
        THEN [done EXCEPT !.op = "signup", !.user = rq[r].user, !.code = rq[r].code]
        ELSE IF Publishes(r)
        THEN [done EXCEPT !.op = "eula", !.version = rq[r].version]
        ELSE done]

(* A call of this request raises: the handler ends in an error answer.     *)
CallRaises(r) ==
    /\ rq[r].at \notin {"idle", "done"}
    /\ faults < MaxFaults
    /\ faults' = faults + 1
    /\ Answer(r, "error")
    /\ UNCHANGED tables

=============================================================================
