---------------------------- MODULE MCAccounts ----------------------------
(* Three requests over one unclaimed code, one free code, two users (one   *)
(* with a profile), one cohort, one wave and one to make, one address that  *)
(* may join the waitlist, one published version, two drafts that a publish *)
(* can swap it for, and a version to make.                                 *)
EXTENDS Accounts, TLC

CONSTANTS u1, u2, k1, k2, c1, w1, w2, v1, v2, v3, v4, t1, t2

MCStart == [
    codes |-> (k1 :> [to |-> "ann", type |-> "STANDARD", cohort |-> c1,
                      wave |-> Null, by |-> Null]) @@ (k2 :> Null),
    profiles |-> (u1 :> Null) @@ (u2 :> [type |-> "BETA_TESTER", code |-> Null,
                                         cohort |-> Null, wave |-> Null]),
    waves |-> {w1},
    subs |-> [a \in Addresses |-> Null],
    eulas |-> (v1 :> [status |-> "published", text |-> t1])
              @@ (v2 :> [status |-> "draft", text |-> t1])
              @@ (v3 :> [status |-> "draft", text |-> t1]) @@ (v4 :> Null)]
Symmetry == Permutations(Requests) \cup Permutations({v2, v3})
=============================================================================
