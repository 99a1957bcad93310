--------------------------- MODULE AccountsProofs ---------------------------
(* Theorems about Accounts, for any users, codes, cohorts, waves, versions *)
(* and requests.                                                           *)
EXTENDS Accounts, FiniteSetTheorems, TLAPS

TablesOK ==
    /\ codes \in [Codes -> Or(Invitation)]
    /\ order \in [Codes -> Nat]
    /\ profiles \in [Users -> Or(Profile)]
    /\ cohorts \subseteq Cohorts
    /\ waves \in [Waves -> {"free", "there", "gone"}]
    /\ subs \in [Addresses -> Or(Submission)]
    /\ eulas \in [Versions -> Or(Eula)]

(* What the tables hold at any time; the last part is the property itself. *)
IssuedOnce  == \A k \in Codes : order[k] = 0 => codes[k] = Null
WavesNamed  == \A k \in Codes : Exists(codes, k) /\ codes[k].wave # Null =>
                   waves[codes[k].wave] # "free"
OnePublished == \E v \in Versions : \A x \in Versions :
                   (Exists(eulas, x) /\ eulas[x].status = "published") = (x = v)
TablesInv == IssuedOnce /\ WavesNamed /\ OnePublished /\ ProfileMatchesInvitation

(* What a signup holds between its claim and its profile: the row as it was *)
(* claimed, of which a cohort or wave may be gone by now.                   *)
Granted(q) ==
    /\ q.op = "signup"
    /\ q.row \in Invitation
    /\ Exists(codes, q.code)
    /\ codes[q.code].by = q.user
    /\ codes[q.code].type = q.row.type
    /\ codes[q.code].cohort = q.row.cohort \/ ~CohortKnown(q.row.cohort)
    /\ codes[q.code].wave = q.row.wave \/ ~WaveKnown(q.row.wave)
    /\ q.row.wave # Null => waves[q.row.wave] # "free"

Serves(op, at) == /\ at \in {"lookup", "generate"} => op \in {"issue", "invite"}
                  /\ at \in {"validate", "claim"} => op \in {"claim", "signup"}

(* What the handler of a request may hold, by what it serves.               *)
RequestOK(q) ==
    /\ q.op \in {"issue", "invite"} => q.type \in Types
    /\ q.op \in {"invite", "submit", "patch"} => q.to \in Addresses
    /\ q.op = "invite" => q.sub \in Addresses
    /\ q.op \in {"claim", "signup"} => q.user \in Users
    /\ q.op \in {"claim", "signup", "revoke"} => q.code \in Codes
    /\ q.op \in {"issue", "invite"} /\ q.at \in {"insert", "link"} => q.code \in Codes
    /\ Serves(q.op, q.at)
    /\ q.op = "drop" => q.wave \in Waves \/ (q.wave = Null /\ q.cohort \in Cohorts)
    /\ q.op = "eula" => q.version \in Versions
    /\ q.op = "eula" /\ q.at \in {"draft", "edit"} => q.text \in Texts
    /\ q.op = "eula" /\ q.at \in {"rpc", "snapshot", "swap"} => q.text = Null
    /\ q.op = "eula" /\ q.at \in {"snapshot", "swap"} => Exists(eulas, q.version)
    /\ q.op = "submit" /\ q.at = "persist" /\ q.seen > 0 => Exists(subs, q.to)
    /\ q.op = "claim" /\ q.at # "profile" => Exists(profiles, q.user)
    /\ q.at = "provision" => Granted(q)
    /\ q.reply # "" => q.at = "done"

RequestsInv == \A r \in Requests : RequestOK(rq[r])

TypeInv == TypeOK /\ RequestsInv
Inv == TypeInv /\ TablesInv

(* What no step takes back.                                                *)
Keeps ==
    /\ \A e \in Addresses : Exists(subs, e) => Exists(subs', e)
    /\ \A u \in Users : Exists(profiles, u) => Exists(profiles', u)
    /\ cohorts' \subseteq cohorts
    /\ \A w \in Waves : /\ waves[w] # "free" => waves'[w] # "free"
                        /\ waves[w] = "gone" => waves'[w] = "gone"
    /\ \A k \in Codes : Exists(codes, k) /\ codes[k].by # Null =>
          /\ Exists(codes', k)
          /\ codes'[k].by = codes[k].by
          /\ codes'[k].type = codes[k].type
          /\ codes'[k].cohort = codes[k].cohort
                \/ (codes[k].cohort # Null /\ codes[k].cohort \notin cohorts')
          /\ codes'[k].wave = codes[k].wave
                \/ (codes[k].wave # Null /\ waves'[codes[k].wave] = "gone")
    /\ \A v \in Versions : Exists(eulas, v) =>
          /\ Exists(eulas', v)
          /\ eulas[v].status # "draft" =>
                eulas'[v].text = eulas[v].text /\ eulas'[v].status # "draft"

TablesStep == TablesOK' /\ TablesInv' /\ Keeps

-----------------------------------------------------------------------------
(* The writes                                                              *)

USE NullAssumption, RowsAssumption

LEMMA NothingWritten ==
    ASSUME TablesOK, TablesInv, UNCHANGED tables PROVE TablesStep
  BY DEF TablesStep, tables, TablesOK, TablesInv, Keeps, IssuedOnce, WavesNamed, OnePublished,
         ProfileMatchesInvitation, Exists

LEMMA UnsetCodes ==
    ASSUME codes \in [Codes -> Or(Invitation)], NEW col \in {"cohort", "wave"}, NEW key
    PROVE  LET new == Unset(codes, col, key)
           IN  /\ new \in [Codes -> Or(Invitation)]
               /\ \A k \in Codes : Exists(new, k) <=> Exists(codes, k)
               /\ \A k \in Codes : Exists(codes, k) =>
                     /\ new[k].by = codes[k].by /\ new[k].type = codes[k].type
                     /\ new[k].cohort = IF col = "cohort" /\ codes[k].cohort = key
                                        THEN Null ELSE codes[k].cohort
                     /\ new[k].wave = IF col = "wave" /\ codes[k].wave = key
                                      THEN Null ELSE codes[k].wave
<1> DEFINE new == Unset(codes, col, key)
<1>1. /\ new = [k \in Codes |-> new[k]]
      /\ \A k \in Codes : new[k] = IF Exists(codes, k) /\ codes[k][col] = key
                                   THEN [codes[k] EXCEPT ![col] = Null] ELSE codes[k]
  BY DEF Unset
<1> HIDE DEF new
<1>2. ASSUME NEW k \in Codes
      PROVE  /\ new[k] \in Or(Invitation)
             /\ Exists(new, k) <=> Exists(codes, k)
             /\ Exists(codes, k) =>
                     /\ new[k].by = codes[k].by /\ new[k].type = codes[k].type
                     /\ new[k].cohort = IF col = "cohort" /\ codes[k].cohort = key
                                        THEN Null ELSE codes[k].cohort
                     /\ new[k].wave = IF col = "wave" /\ codes[k].wave = key
                                      THEN Null ELSE codes[k].wave
  <2>1. CASE Exists(codes, k)
    <3>1. codes[k] \in Invitation
      BY <2>1 DEF Exists, Or
    <3>2. CASE col = "cohort"
      BY <1>1, <3>1, <3>2, <2>1 DEF Invitation, Exists, Or
    <3>3. CASE col = "wave"
      BY <1>1, <3>1, <3>3, <2>1 DEF Invitation, Exists, Or
    <3>4. QED
      BY <3>2, <3>3
  <2>2. CASE ~Exists(codes, k)
    BY <1>1, <2>2 DEF Exists
  <2>3. QED
    BY <2>1, <2>2
<1>3. QED
  BY <1>1, <1>2 DEF new

LEMMA UnsetProfiles ==
    ASSUME profiles \in [Users -> Or(Profile)], NEW col \in {"code", "cohort", "wave"}, NEW key
    PROVE  LET new == Unset(profiles, col, key)
           IN  /\ new \in [Users -> Or(Profile)]
               /\ \A u \in Users : Exists(new, u) <=> Exists(profiles, u)
               /\ \A u \in Users : Exists(profiles, u) =>
                     /\ new[u].type = profiles[u].type
                     /\ new[u].code = IF col = "code" /\ profiles[u].code = key
                                      THEN Null ELSE profiles[u].code
                     /\ new[u].cohort = IF col = "cohort" /\ profiles[u].cohort = key
                                        THEN Null ELSE profiles[u].cohort
                     /\ new[u].wave = IF col = "wave" /\ profiles[u].wave = key
                                      THEN Null ELSE profiles[u].wave
<1> DEFINE new == Unset(profiles, col, key)
<1>1. /\ new = [u \in Users |-> new[u]]
      /\ \A u \in Users : new[u] = IF Exists(profiles, u) /\ profiles[u][col] = key
                                   THEN [profiles[u] EXCEPT ![col] = Null] ELSE profiles[u]
  BY DEF Unset
<1> HIDE DEF new
<1>2. ASSUME NEW u \in Users
      PROVE  /\ new[u] \in Or(Profile)
             /\ Exists(new, u) <=> Exists(profiles, u)
             /\ Exists(profiles, u) =>
                     /\ new[u].type = profiles[u].type
                     /\ new[u].code = IF col = "code" /\ profiles[u].code = key
                                      THEN Null ELSE profiles[u].code
                     /\ new[u].cohort = IF col = "cohort" /\ profiles[u].cohort = key
                                        THEN Null ELSE profiles[u].cohort
                     /\ new[u].wave = IF col = "wave" /\ profiles[u].wave = key
                                      THEN Null ELSE profiles[u].wave
  <2>1. CASE Exists(profiles, u)
    <3>1. profiles[u] \in Profile
      BY <2>1 DEF Exists, Or
    <3>2. CASE col = "code"
      BY <1>1, <3>1, <3>2, <2>1 DEF Profile, Exists, Or
    <3>3. CASE col = "cohort"
      BY <1>1, <3>1, <3>3, <2>1 DEF Profile, Exists, Or
    <3>4. CASE col = "wave"
      BY <1>1, <3>1, <3>4, <2>1 DEF Profile, Exists, Or
    <3>5. QED
      BY <3>2, <3>3, <3>4
  <2>2. CASE ~Exists(profiles, u)
    BY <1>1, <2>2 DEF Exists
  <2>3. QED
    BY <2>1, <2>2
<1>3. QED
  BY <1>1, <1>2 DEF new

LEMMA UnsetSubs ==
    ASSUME subs \in [Addresses -> Or(Submission)], NEW col \in {"code", "wave"}, NEW key
    PROVE  LET new == Unset(subs, col, key)
           IN  /\ new \in [Addresses -> Or(Submission)]
               /\ \A e \in Addresses : Exists(new, e) <=> Exists(subs, e)
<1> DEFINE new == Unset(subs, col, key)
<1>1. /\ new = [e \in Addresses |-> new[e]]
      /\ \A e \in Addresses : new[e] = IF Exists(subs, e) /\ subs[e][col] = key
                                   THEN [subs[e] EXCEPT ![col] = Null] ELSE subs[e]
  BY DEF Unset
<1> HIDE DEF new
<1>2. ASSUME NEW e \in Addresses
      PROVE  new[e] \in Or(Submission) /\ (Exists(new, e) <=> Exists(subs, e))
  <2>1. CASE Exists(subs, e)
    <3>1. subs[e] \in Submission
      BY <2>1 DEF Exists, Or
    <3>2. CASE col = "code"
      BY <1>1, <3>1, <3>2, <2>1 DEF Submission, Exists, Or
    <3>3. CASE col = "wave"
      BY <1>1, <3>1, <3>3, <2>1 DEF Submission, Exists, Or
    <3>4. QED
      BY <3>2, <3>3
  <2>2. CASE ~Exists(subs, e)
    BY <1>1, <2>2 DEF Exists
  <2>3. QED
    BY <2>1, <2>2
<1>3. QED
  BY <1>1, <1>2 DEF new

(* The parts of TablesStep that a write to codes alone can disturb.        *)
LEMMA CodesStep ==
    ASSUME TablesOK, TablesInv,
           UNCHANGED <<profiles, cohorts, waves, subs, eulas>>,
           codes' \in [Codes -> Or(Invitation)], order' \in [Codes -> Nat],
           IssuedOnce', WavesNamed',
           \A k \in Codes : Exists(codes, k) /\ codes[k].by # Null =>
               Exists(codes', k) /\ codes'[k] = codes[k]
    PROVE  TablesStep
<1>1. TablesOK' /\ OnePublished'
  BY DEF TablesOK, TablesInv, OnePublished, Exists
<1>2. ASSUME NEW u \in Users, Exists(profiles, u), profiles[u].code # Null
      PROVE  LET p == profiles[u] i == codes'[p.code]
             IN  /\ Exists(codes', p.code) /\ i.by = u
                 /\ p.type = i.type /\ p.cohort = i.cohort /\ p.wave = i.wave
  <2>1. profiles[u] \in Profile /\ profiles[u].code \in Codes
    BY <1>2 DEF TablesOK, Exists, Or, Profile
  <2>2. Exists(codes, profiles[u].code) /\ codes[profiles[u].code].by = u
    BY <1>2 DEF TablesInv, ProfileMatchesInvitation
  <2>3. codes'[profiles[u].code] = codes[profiles[u].code] /\ Exists(codes', profiles[u].code)
    BY <2>1, <2>2
  <2>4. QED
    BY <1>2, <2>3 DEF TablesInv, ProfileMatchesInvitation
<1>3. ProfileMatchesInvitation'
  BY <1>2 DEF ProfileMatchesInvitation, Exists
<1>4. Keeps
  BY DEF Keeps, Exists
<1>5. QED
  BY <1>1, <1>3, <1>4 DEF TablesStep, TablesInv

LEMMA InsertCodeStep ==
    ASSUME TablesOK, TablesInv, NEW k \in Codes, NEW to \in Or(Addresses), NEW type \in Types,
           NEW cohort \in Or(Cohorts), NEW wave \in Or(Waves),
           order[k] = 0, WaveKnown(wave), InsertCode(k, to, type, cohort, wave)
    PROVE  TablesStep
<1> DEFINE row == [to |-> to, type |-> type, cohort |-> cohort, wave |-> wave, by |-> Null]
<1>1. row \in Invitation /\ row # Null
  BY DEF Invitation, Or
<1>2. codes' = [codes EXCEPT ![k] = row] /\ codes' \in [Codes -> Or(Invitation)]
  BY <1>1 DEF InsertCode, TablesOK, Or
<1>3. row.wave = wave
  OBVIOUS
<1> HIDE DEF row
<1>4. 1 + Cardinality({l \in Codes : order[l] > 0}) \in Nat \ {0}
  <2>1. IsFiniteSet({l \in Codes : order[l] > 0})
    BY BoundsAssumption, FS_Subset
  <2>2. QED
    BY <2>1, FS_CardinalityType
<1>5. order' \in [Codes -> Nat] /\ order'[k] # 0 /\ \A l \in Codes \ {k} : order'[l] = order[l]
  BY <1>4 DEF InsertCode, TablesOK
<1>6. codes[k] = Null
  BY DEF TablesInv, IssuedOnce
<1>7. IssuedOnce'
  BY <1>2, <1>5 DEF IssuedOnce, TablesInv, TablesOK
<1>8. WavesNamed'
  BY <1>2, <1>3 DEF WavesNamed, TablesInv, TablesOK, Exists, WaveKnown, InsertCode
<1>9. \A l \in Codes : Exists(codes, l) /\ codes[l].by # Null =>
          Exists(codes', l) /\ codes'[l] = codes[l]
  BY <1>2, <1>6 DEF Exists, TablesOK
<1>10. QED
  BY <1>2, <1>5, <1>7, <1>8, <1>9, CodesStep DEF InsertCode

LEMMA ClaimCodeStep ==
    ASSUME TablesOK, TablesInv, NEW k \in Codes, NEW u \in Users, ClaimCode(k, u)
    PROVE  /\ TablesStep
           /\ Claimable(k) => /\ codes[k] \in Invitation
                              /\ codes' = [codes EXCEPT ![k].by = u]
                              /\ Exists(codes', k) /\ codes'[k] = [codes[k] EXCEPT !.by = u]
           /\ ~Claimable(k) => codes' = codes
<1>1. CASE Claimable(k)
  <2>1. codes[k] \in Invitation /\ codes[k] # Null
    BY <1>1 DEF Claimable, Exists, TablesOK, Or
  <2> DEFINE row == [codes[k] EXCEPT !.by = u]
  <2>2. row \in Invitation /\ row # Null /\ row.wave = codes[k].wave
    BY <2>1 DEF Invitation, Or
  <2>3. codes' = [codes EXCEPT ![k] = row]
    BY <1>1 DEF ClaimCode
  <2>4. codes' \in [Codes -> Or(Invitation)] /\ codes'[k] = row /\ Exists(codes', k)
    BY <2>2, <2>3 DEF TablesOK, Or, Exists
  <2> HIDE DEF row
  <2>5. IssuedOnce'
    BY <2>1, <2>3 DEF IssuedOnce, TablesInv, ClaimCode, TablesOK
  <2>6. WavesNamed'
    BY <2>1, <2>2, <2>3, <2>4 DEF WavesNamed, TablesInv, ClaimCode, Exists, TablesOK
  <2>7. \A l \in Codes : Exists(codes, l) /\ codes[l].by # Null =>
          Exists(codes', l) /\ codes'[l] = codes[l]
    BY <1>1, <2>3 DEF Claimable, Exists, TablesOK
  <2>8. TablesStep
    BY <2>4, <2>5, <2>6, <2>7, CodesStep DEF ClaimCode, TablesOK
  <2>9. QED
    BY <1>1, <2>1, <2>4, <2>8 DEF ClaimCode, row
<1>2. CASE ~Claimable(k)
  <2>1. UNCHANGED tables
    BY <1>2 DEF ClaimCode, tables
  <2>2. QED
    BY <1>2, <2>1, NothingWritten DEF tables
<1>3. QED
  BY <1>1, <1>2

LEMMA UpsertProfileStep ==
    ASSUME TablesOK, TablesInv, NEW u \in Users, NEW k \in Codes, NEW inv \in Invitation,
           Exists(codes, k), codes[k].by = u, codes[k].type = inv.type,
           codes[k].cohort = inv.cohort, codes[k].wave = inv.wave,
           UpsertProfile(u, k, inv)
    PROVE  TablesStep /\ Exists(profiles', u)
<1> DEFINE row == [type |-> inv.type, code |-> k, cohort |-> inv.cohort, wave |-> inv.wave]
<1>1. row \in Profile /\ row # Null
  BY DEF Profile, Invitation, Or
<1>2. profiles' = [profiles EXCEPT ![u] = row]
  BY DEF UpsertProfile
<1>3. profiles' \in [Users -> Or(Profile)] /\ profiles'[u] = row
  BY <1>1, <1>2 DEF TablesOK, Or
<1>4. row.type = codes[k].type /\ row.code = k /\ row.cohort = codes[k].cohort /\ row.wave = codes[k].wave
  OBVIOUS
<1> HIDE DEF row
<1>5. TablesOK' /\ IssuedOnce' /\ WavesNamed' /\ OnePublished'
  BY <1>3 DEF TablesOK, TablesInv, IssuedOnce, WavesNamed, OnePublished, UpsertProfile, Exists
<1>6. ASSUME NEW x \in Users, Exists(profiles', x), profiles'[x].code # Null
      PROVE  LET p == profiles'[x] i == codes[p.code]
             IN  /\ Exists(codes, p.code) /\ i.by = x
                 /\ p.type = i.type /\ p.cohort = i.cohort /\ p.wave = i.wave
  <2>1. CASE x = u
    BY <2>1, <1>3, <1>4
  <2>2. CASE x # u
    BY <2>2, <1>2, <1>6 DEF TablesOK, TablesInv, ProfileMatchesInvitation, Exists
  <2>3. QED
    BY <2>1, <2>2
<1>7. ProfileMatchesInvitation'
  BY <1>6 DEF ProfileMatchesInvitation, UpsertProfile, Exists
<1>8. Exists(profiles', u)
  BY <1>1, <1>3 DEF Exists
<1>9. \A x \in Users : Exists(profiles, x) => Exists(profiles', x)
  BY <1>2, <1>8 DEF TablesOK, Exists
<1>10. Keeps
  BY <1>9 DEF Keeps, UpsertProfile, Exists
<1>11. QED
  BY <1>5, <1>7, <1>8, <1>10 DEF TablesStep, TablesInv

LEMMA DeleteUnclaimedStep ==
    ASSUME TablesOK, TablesInv, NEW k \in Codes, DeleteUnclaimed(k)
    PROVE  TablesStep
<1>1. CASE ~Claimable(k)
  BY <1>1, NothingWritten DEF DeleteUnclaimed
<1>2. CASE Claimable(k)
  <2>1. /\ codes' = [codes EXCEPT ![k] = Null]
        /\ profiles' = Unset(profiles, "code", k) /\ subs' = Unset(subs, "code", k)
        /\ UNCHANGED <<cohorts, waves, eulas, order>>
    BY <1>2 DEF DeleteUnclaimed
  <2>2. /\ profiles' \in [Users -> Or(Profile)]
        /\ \A u \in Users : Exists(profiles', u) <=> Exists(profiles, u)
        /\ \A u \in Users : Exists(profiles, u) =>
              /\ profiles'[u].type = profiles[u].type
              /\ profiles'[u].code = IF profiles[u].code = k THEN Null ELSE profiles[u].code
              /\ profiles'[u].cohort = profiles[u].cohort
              /\ profiles'[u].wave = profiles[u].wave
    <3>1. profiles \in [Users -> Or(Profile)]
      BY DEF TablesOK
    <3>2. QED
      BY <2>1, <3>1, UnsetProfiles
  <2>3. /\ subs' \in [Addresses -> Or(Submission)]
        /\ \A e \in Addresses : Exists(subs', e) <=> Exists(subs, e)
    <3>1. subs \in [Addresses -> Or(Submission)]
      BY DEF TablesOK
    <3>2. QED
      BY <2>1, <3>1, UnsetSubs
  <2>4. codes' \in [Codes -> Or(Invitation)]
    BY <2>1 DEF TablesOK, Or
  <2>5. TablesOK' /\ OnePublished'
    BY <2>1, <2>2, <2>3, <2>4 DEF TablesOK, TablesInv, OnePublished, Exists
  <2>6. IssuedOnce' /\ WavesNamed'
    BY <2>1 DEF TablesOK, TablesInv, IssuedOnce, WavesNamed, Exists
  <2>7. \A l \in Codes : Exists(codes, l) /\ codes[l].by # Null =>
            Exists(codes', l) /\ codes'[l] = codes[l]
    BY <1>2, <2>1 DEF Claimable, TablesOK, Exists
  <2>8. ASSUME NEW u \in Users, Exists(profiles', u), profiles'[u].code # Null
        PROVE  LET p == profiles'[u] i == codes'[p.code]
               IN  /\ Exists(codes', p.code) /\ i.by = u
                   /\ p.type = i.type /\ p.cohort = i.cohort /\ p.wave = i.wave
    <3>1. Exists(profiles, u) /\ profiles[u].code # k /\ profiles'[u].code = profiles[u].code
      BY <2>2, <2>8
    <3>2. profiles[u].code # Null
      BY <3>1, <2>8
    <3>3. profiles[u] \in Profile /\ profiles[u].code \in Codes
      BY <3>1, <3>2 DEF TablesOK, Exists, Or, Profile
    <3>4. codes'[profiles[u].code] = codes[profiles[u].code]
      BY <3>1, <3>3, <2>1 DEF TablesOK
    <3>5. QED
      BY <3>1, <3>2, <3>4, <2>2 DEF TablesInv, ProfileMatchesInvitation, Exists
  <2>9. ProfileMatchesInvitation'
    BY <2>8 DEF ProfileMatchesInvitation, Exists
  <2>10. Keeps
    BY <2>1, <2>2, <2>3, <2>7 DEF Keeps, Exists
  <2>11. QED
    BY <2>5, <2>6, <2>9, <2>10 DEF TablesStep, TablesInv
<1>3. QED
  BY <1>1, <1>2

(* A cohort or wave goes from codes and profiles alike, so a profile still  *)
(* agrees with its invitation.                                             *)
LEMMA BothUnset ==
    ASSUME TablesOK, TablesInv, NEW col \in {"cohort", "wave"}, NEW key,
           codes' = Unset(codes, col, key), profiles' = Unset(profiles, col, key)
    PROVE  ProfileMatchesInvitation'
<1>1. /\ codes \in [Codes -> Or(Invitation)]
      /\ profiles \in [Users -> Or(Profile)]
  BY DEF TablesOK
<1>2. /\ \A k \in Codes : Exists(codes', k) <=> Exists(codes, k)
      /\ \A k \in Codes : Exists(codes, k) =>
             /\ codes'[k].by = codes[k].by /\ codes'[k].type = codes[k].type
             /\ codes'[k].cohort = IF col = "cohort" /\ codes[k].cohort = key
                                        THEN Null ELSE codes[k].cohort
             /\ codes'[k].wave = IF col = "wave" /\ codes[k].wave = key
                                      THEN Null ELSE codes[k].wave
  BY <1>1, UnsetCodes
<1>3. /\ \A u \in Users : Exists(profiles', u) <=> Exists(profiles, u)
      /\ \A u \in Users : Exists(profiles, u) =>
             /\ profiles'[u].type = profiles[u].type
             /\ profiles'[u].code = profiles[u].code
             /\ profiles'[u].cohort = IF col = "cohort" /\ profiles[u].cohort = key
                                        THEN Null ELSE profiles[u].cohort
             /\ profiles'[u].wave = IF col = "wave" /\ profiles[u].wave = key
                                      THEN Null ELSE profiles[u].wave
  BY <1>1, UnsetProfiles
<1>4. ASSUME NEW u \in Users, Exists(profiles', u), profiles'[u].code # Null
      PROVE  LET p == profiles'[u] i == codes'[p.code]
             IN  /\ Exists(codes', p.code) /\ i.by = u
                 /\ p.type = i.type /\ p.cohort = i.cohort /\ p.wave = i.wave
  <2> PICK k : k = profiles[u].code
    OBVIOUS
  <2>1. Exists(profiles, u) /\ profiles'[u].code = k /\ k # Null
    BY <1>3, <1>4
  <2>2. profiles[u] \in Profile /\ k \in Codes
    BY <2>1 DEF TablesOK, Exists, Or, Profile
  <2>3. /\ Exists(codes, k) /\ codes[k].by = u /\ profiles[u].type = codes[k].type
        /\ profiles[u].cohort = codes[k].cohort /\ profiles[u].wave = codes[k].wave
    BY <2>1 DEF TablesInv, ProfileMatchesInvitation
  <2>4. QED
    BY <1>2, <1>3, <2>1, <2>2, <2>3
<1>5. QED
  BY <1>4 DEF ProfileMatchesInvitation, Exists

LEMMA DeleteCohortStep ==
    ASSUME TablesOK, TablesInv, NEW c \in Cohorts, DeleteCohort(c)
    PROVE  TablesStep
<1>1. /\ codes' \in [Codes -> Or(Invitation)]
      /\ \A k \in Codes : Exists(codes', k) <=> Exists(codes, k)
      /\ \A k \in Codes : Exists(codes, k) =>
             /\ codes'[k].by = codes[k].by /\ codes'[k].type = codes[k].type
             /\ codes'[k].cohort = IF codes[k].cohort = c THEN Null ELSE codes[k].cohort
             /\ codes'[k].wave = codes[k].wave
  <2>1. codes \in [Codes -> Or(Invitation)] /\ codes' = Unset(codes, "cohort", c)
    BY DEF TablesOK, DeleteCohort
  <2>2. QED
    BY <2>1, UnsetCodes
<1>2. /\ profiles' \in [Users -> Or(Profile)]
      /\ \A u \in Users : Exists(profiles', u) <=> Exists(profiles, u)
  <2>1. profiles \in [Users -> Or(Profile)] /\ profiles' = Unset(profiles, "cohort", c)
    BY DEF TablesOK, DeleteCohort
  <2>2. QED
    BY <2>1, UnsetProfiles
<1>3. TablesOK' /\ OnePublished'
  BY <1>1, <1>2 DEF TablesOK, TablesInv, OnePublished, DeleteCohort, Exists
<1>4. IssuedOnce' /\ WavesNamed'
  BY <1>1 DEF TablesInv, IssuedOnce, WavesNamed, DeleteCohort, Exists
<1>5. ProfileMatchesInvitation'
  BY BothUnset DEF DeleteCohort
<1>6. c # Null /\ cohorts' = cohorts \ {c}
  BY DEF DeleteCohort
<1>7. Keeps
  BY <1>1, <1>2, <1>6 DEF Keeps, DeleteCohort, Exists
<1>8. QED
  BY <1>3, <1>4, <1>5, <1>7 DEF TablesStep, TablesInv

LEMMA DeleteWaveStep ==
    ASSUME TablesOK, TablesInv, NEW w \in Waves, DeleteWave(w)
    PROVE  TablesStep
<1>1. /\ codes' \in [Codes -> Or(Invitation)]
      /\ \A k \in Codes : Exists(codes', k) <=> Exists(codes, k)
      /\ \A k \in Codes : Exists(codes, k) =>
             /\ codes'[k].by = codes[k].by /\ codes'[k].type = codes[k].type
             /\ codes'[k].wave = IF codes[k].wave = w THEN Null ELSE codes[k].wave
             /\ codes'[k].cohort = codes[k].cohort
  <2>1. codes \in [Codes -> Or(Invitation)] /\ codes' = Unset(codes, "wave", w)
    BY DEF TablesOK, DeleteWave
  <2>2. QED
    BY <2>1, UnsetCodes
<1>2. /\ profiles' \in [Users -> Or(Profile)]
      /\ \A u \in Users : Exists(profiles', u) <=> Exists(profiles, u)
  <2>1. profiles \in [Users -> Or(Profile)] /\ profiles' = Unset(profiles, "wave", w)
    BY DEF TablesOK, DeleteWave
  <2>2. QED
    BY <2>1, UnsetProfiles
<1>3. /\ subs' \in [Addresses -> Or(Submission)]
      /\ \A e \in Addresses : Exists(subs', e) <=> Exists(subs, e)
  <2>1. subs \in [Addresses -> Or(Submission)] /\ subs' = Unset(subs, "wave", w)
    BY DEF TablesOK, DeleteWave
  <2>2. QED
    BY <2>1, UnsetSubs
<1>4. /\ waves' \in [Waves -> {"free", "there", "gone"}]
      /\ waves'[w] = "gone" /\ \A x \in Waves \ {w} : waves'[x] = waves[x]
  BY DEF DeleteWave, TablesOK
<1>5. TablesOK' /\ OnePublished'
  BY <1>1, <1>2, <1>3, <1>4 DEF TablesOK, TablesInv, OnePublished, DeleteWave, Exists
<1>6. \A k \in Codes : Exists(codes, k) => codes[k].wave \in Or(Waves)
  BY DEF TablesOK, Exists, Or, Invitation
<1>7. IssuedOnce' /\ WavesNamed'
  BY <1>1, <1>4, <1>6 DEF TablesInv, IssuedOnce, WavesNamed, DeleteWave, Exists, Or
<1>8. ProfileMatchesInvitation'
  BY BothUnset DEF DeleteWave
<1>9. Keeps
  BY <1>1, <1>2, <1>3, <1>4 DEF Keeps, DeleteWave, Exists
<1>10. QED
  BY <1>5, <1>7, <1>8, <1>9 DEF TablesStep, TablesInv

LEMMA InsertWaveStep ==
    ASSUME TablesOK, TablesInv, NEW w \in Waves, waves[w] = "free", InsertWave(w)
    PROVE  TablesStep
<1>1. /\ waves' \in [Waves -> {"free", "there", "gone"}]
      /\ waves'[w] = "there" /\ \A x \in Waves \ {w} : waves'[x] = waves[x]
  BY DEF InsertWave, TablesOK
<1>2. TablesOK' /\ IssuedOnce' /\ OnePublished' /\ ProfileMatchesInvitation'
  BY <1>1 DEF TablesOK, TablesInv, IssuedOnce, OnePublished, ProfileMatchesInvitation,
              InsertWave, Exists
<1>3. \A k \in Codes : Exists(codes, k) => codes[k].wave \in Or(Waves)
  BY DEF TablesOK, Exists, Or, Invitation
<1>4. WavesNamed'
  BY <1>1, <1>3 DEF TablesInv, WavesNamed, InsertWave, Exists, Or
<1>5. Keeps
  BY <1>1 DEF Keeps, InsertWave, Exists
<1>6. QED
  BY <1>2, <1>4, <1>5 DEF TablesStep, TablesInv

LEMMA SubmissionStep ==
    ASSUME TablesOK, TablesInv, NEW e \in Addresses, NEW row \in Submission,
           subs' = [subs EXCEPT ![e] = row],
           UNCHANGED <<codes, profiles, cohorts, waves, eulas, order>>
    PROVE  TablesStep
<1>1. row # Null
  OBVIOUS
<1>2. TablesOK' /\ TablesInv'
  BY DEF TablesOK, TablesInv, IssuedOnce, WavesNamed, OnePublished, ProfileMatchesInvitation,
         Exists, Or
<1>3. \A x \in Addresses : Exists(subs, x) => Exists(subs', x)
  BY <1>1 DEF TablesOK, Exists
<1>4. Keeps
  BY <1>3 DEF Keeps, Exists
<1>5. QED
  BY <1>2, <1>4 DEF TablesStep

LEMMA LinkStep ==
    ASSUME TablesOK, TablesInv, NEW e \in Addresses, NEW k \in Codes, NEW w \in Or(Waves),
           LinkSubmission(e, k, w)
    PROVE  TablesStep
<1>1. CASE ~Exists(subs, e)
  <2>1. UNCHANGED tables
    BY <1>1 DEF LinkSubmission, tables
  <2>2. QED
    BY <2>1, NothingWritten
<1>2. CASE Exists(subs, e)
  <2>1. subs[e] \in Submission
    BY <1>2 DEF Exists, TablesOK, Or
  <2> DEFINE row == [subs[e] EXCEPT !.code = k, !.status = "INVITED",
                                    !.wave = IF w = Null THEN @ ELSE w]
  <2>2. row \in Submission
    BY <2>1 DEF Submission, Statuses, Or
  <2>3. SetSubmission(e, row)
    BY <1>2 DEF LinkSubmission
  <2> HIDE DEF row
  <2>4. QED
    BY <2>2, <2>3, SubmissionStep DEF SetSubmission
<1>3. QED
  BY <1>1, <1>2

LEMMA EulasStep ==
    ASSUME TablesOK, TablesInv, NEW f \in [Versions -> Or(Eula)], SetEulas(f),
           \E v \in Versions : \A x \in Versions :
               (Exists(f, x) /\ f[x].status = "published") = (x = v),
           \A v \in Versions : Exists(eulas, v) =>
               /\ Exists(f, v)
               /\ eulas[v].status # "draft" =>
                     f[v].text = eulas[v].text /\ f[v].status # "draft"
    PROVE  TablesStep
<1>1. eulas' = f
  BY DEF SetEulas
<1>2. TablesOK' /\ IssuedOnce' /\ WavesNamed' /\ ProfileMatchesInvitation'
  BY <1>1 DEF TablesOK, TablesInv, IssuedOnce, WavesNamed, ProfileMatchesInvitation, Exists,
              SetEulas
<1>3. OnePublished'
  BY <1>1 DEF OnePublished, Exists
<1>4. Keeps
  BY <1>1 DEF Keeps, SetEulas, Exists
<1>5. QED
  BY <1>2, <1>3, <1>4 DEF TablesStep, TablesInv

-----------------------------------------------------------------------------
(* The requests                                                            *)

LEMMA IdleTyped == Idle \in Request
  BY DEF Idle, Request, Ops, Labels, Replies, Or

(* What a request holds stays right when another one writes.               *)
LEMMA GrantedKept ==
    ASSUME TablesOK, TablesOK', Keeps, NEW q \in Request, Granted(q),
           q.user \in Users, q.code \in Codes
    PROVE  Granted(q)'
<1> DEFINE i == codes[q.code]
<1>1. Exists(codes, q.code) /\ codes[q.code].by # Null
  BY DEF Granted
<1>2. /\ Exists(codes', q.code)
      /\ codes'[q.code].by = q.user
      /\ codes'[q.code].type = q.row.type
      /\ codes'[q.code].cohort = codes[q.code].cohort
            \/ (codes[q.code].cohort # Null /\ codes[q.code].cohort \notin cohorts')
      /\ codes'[q.code].wave = codes[q.code].wave
            \/ (codes[q.code].wave # Null /\ waves'[codes[q.code].wave] = "gone")
  BY <1>1 DEF Keeps, Granted
<1>3. q.row \in Invitation /\ q.row.wave \in Or(Waves)
  BY DEF Granted, Invitation
<1>4. codes'[q.code].cohort = q.row.cohort \/ ~CohortKnown(q.row.cohort)'
  BY <1>2 DEF Granted, CohortKnown, Keeps
<1>5. q.row.wave # Null => waves'[q.row.wave] # "free" /\ (waves[q.row.wave] = "gone" => waves'[q.row.wave] = "gone")
  BY <1>3 DEF Granted, Keeps, Or
<1>6. codes'[q.code].wave = q.row.wave \/ ~WaveKnown(q.row.wave)'
  <2>1. CASE codes[q.code].wave = q.row.wave
    BY <2>1, <1>2 DEF WaveKnown
  <2>2. CASE ~WaveKnown(q.row.wave)
    <3>1. q.row.wave \in Waves /\ waves[q.row.wave] = "gone"
      BY <2>2, <1>3 DEF WaveKnown, Or, Granted, TablesOK
    <3>2. QED
      BY <3>1, <1>5 DEF WaveKnown
  <2>3. QED
    BY <2>1, <2>2 DEF Granted
<1>7. QED
  BY <1>2, <1>3, <1>4, <1>5, <1>6 DEF Granted, Exists

LEMMA RequestKept ==
    ASSUME TablesOK, TablesOK', Keeps, NEW q \in Request, RequestOK(q)
    PROVE  RequestOK(q)'
<1>1. q.at = "provision" => Granted(q)'
  BY GrantedKept DEF RequestOK, Serves, Granted
<1>2. q.op = "submit" /\ q.at = "persist" /\ q.seen > 0 => Exists(subs, q.to)'
  BY DEF RequestOK, Serves, Keeps, Exists
<1>3. q.op = "claim" /\ q.at # "profile" => Exists(profiles, q.user)'
  BY DEF RequestOK, Serves, Keeps, Exists
<1>4. q.op = "eula" /\ q.at \in {"snapshot", "swap"} => Exists(eulas, q.version)'
  BY DEF RequestOK, Keeps, Exists
<1>5. QED
  BY <1>1, <1>2, <1>3, <1>4 DEF RequestOK, Serves

LEMMA HeldByNext ==
    ASSUME NEW x \in Requests, NEW p, rq'[x] = p, RequestOK(p)' PROVE RequestOK(rq[x])'
<1>1. rq'[x].op = "eula" /\ rq'[x].at \in {"snapshot", "swap"} => Exists(eulas, rq[x].version)'
  BY DEF RequestOK, Exists
<1>2. Exists(subs, p.to)' => Exists(subs, rq[x].to)'
  BY DEF Exists
<1>3. Exists(profiles, p.user)' => Exists(profiles, rq[x].user)'
  BY DEF Exists
<1>4. Granted(p)' => Granted(rq[x])'
  BY DEF Granted, Exists
<1> DEFINE n == rq'[x]
<1>5. /\ n.op \in {"issue", "invite"} => n.type \in Types
      /\ n.op \in {"invite", "submit", "patch"} => n.to \in Addresses
      /\ n.op = "invite" => n.sub \in Addresses
      /\ n.op \in {"claim", "signup"} => n.user \in Users
      /\ n.op \in {"claim", "signup", "revoke"} => n.code \in Codes
      /\ n.op \in {"issue", "invite"} /\ n.at \in {"insert", "link"} => n.code \in Codes
      /\ Serves(n.op, n.at)
  BY DEF RequestOK, Serves
<1>6. /\ n.op = "drop" => n.wave \in Waves \/ (n.wave = Null /\ n.cohort \in Cohorts)
      /\ n.op = "eula" => n.version \in Versions
      /\ n.op = "eula" /\ n.at \in {"draft", "edit"} => n.text \in Texts
      /\ n.op = "eula" /\ n.at \in {"rpc", "snapshot", "swap"} => n.text = Null
  BY DEF RequestOK
<1>7. /\ n.op = "submit" /\ n.at = "persist" /\ n.seen > 0 => Exists(subs, rq[x].to)'
      /\ n.op = "claim" /\ n.at # "profile" => Exists(profiles, rq[x].user)'
      /\ n.at = "provision" => Granted(rq[x])'
      /\ n.reply # "" => n.at = "done"
  BY <1>2, <1>3, <1>4 DEF RequestOK
<1>8. QED
  BY <1>1, <1>5, <1>6, <1>7 DEF RequestOK, Serves

(* A request moves on: its new locals must be right, the others' stay so.  *)
LEMMA Moves ==
    ASSUME TypeInv, TablesOK', Keeps, NEW r \in Requests, NEW q \in Request, RequestOK(q)',
           rq' = [rq EXCEPT ![r] = q]
    PROVE  rq' \in [Requests -> Request] /\ RequestsInv'
<1>1. rq \in [Requests -> Request] /\ TablesOK
  BY DEF TypeInv, TypeOK, TablesOK
<1>2. rq' \in [Requests -> Request]
  BY <1>1
<1>3. ASSUME NEW x \in Requests PROVE RequestOK(rq[x])'
  <2>1. CASE x = r
    <3>1. rq'[x] = q
      BY <1>1, <2>1
    <3>2. QED
      BY <3>1, HeldByNext
  <2>2. CASE x # r
    <3> PICK p : p = rq[x]
      OBVIOUS
    <3>1. p \in Request /\ RequestOK(p)
      BY <1>1 DEF TypeInv, RequestsInv
    <3>2. rq'[x] = p
      BY <1>1, <2>2
    <3>3. RequestOK(p)'
      BY <3>1, <1>1, RequestKept
    <3>4. QED
      BY <3>2, <3>3, HeldByNext
  <2>3. QED
    BY <2>1, <2>2
<1>4. QED
  BY <1>2, <1>3 DEF RequestsInv

LEMMA AnswerMoves ==
    ASSUME TypeInv, TablesOK', Keeps, NEW r \in Requests, NEW text \in Replies, Answer(r, text)
    PROVE  rq' \in [Requests -> Request] /\ RequestsInv'
<1> PICK p : p = rq[r]
  OBVIOUS
<1> DEFINE done == [Idle EXCEPT !.at = "done", !.reply = text]
           q == IF p.op = "signup"
                THEN [done EXCEPT !.op = "signup", !.user = p.user, !.code = p.code]
                ELSE IF p.op = "eula" /\ p.text = Null
                THEN [done EXCEPT !.op = "eula", !.version = p.version] ELSE done
<1>1. p \in Request /\ RequestOK(p) /\ rq' = [rq EXCEPT ![r] = q]
  BY DEF TypeInv, TypeOK, RequestsInv, Answer, Publishes
<1>2. /\ done \in Request /\ done.at = "done" /\ done.op = "none"
  BY IdleTyped DEF Request, Idle, Labels
<1>3. q \in Request /\ q.at = "done" /\ q.op \in {"none", "signup", "eula"}
      /\ (q.op = "signup" => q.user = p.user /\ q.code = p.code /\ p.op = "signup")
      /\ (q.op = "eula" => q.version = p.version /\ p.op = "eula")
  <2> HIDE DEF done
  <2>1. CASE p.op = "signup"
    BY <1>1, <1>2, <2>1 DEF Request, Ops
  <2>2. CASE p.op # "signup" /\ p.op = "eula" /\ p.text = Null
    BY <1>1, <1>2, <2>2 DEF Request, Ops
  <2>3. CASE p.op # "signup" /\ ~(p.op = "eula" /\ p.text = Null)
    BY <1>2, <2>3
  <2>4. QED
    BY <2>1, <2>2, <2>3
<1>4. /\ q.op = "signup" => q.user \in Users /\ q.code \in Codes
      /\ q.op = "eula" => q.version \in Versions
  BY <1>1, <1>3 DEF RequestOK, Serves
<1> HIDE DEF q
<1>5. RequestOK(q)'
  BY <1>3, <1>4 DEF RequestOK, Serves
<1>6. QED
  BY <1>1, <1>3, <1>5, Moves

(* A request that is about to make its next call keeps its locals.         *)
LEMMA GotoMoves ==
    ASSUME TypeInv, TablesOK', Keeps, NEW r \in Requests, NEW label \in Labels, Goto(r, label),
           RequestOK([rq[r] EXCEPT !.at = label])
    PROVE  rq' \in [Requests -> Request] /\ RequestsInv'
<1> PICK q : q = [rq[r] EXCEPT !.at = label]
  OBVIOUS
<1>1. rq[r] \in Request
  BY DEF TypeInv, TypeOK
<1>2. q \in Request
  BY <1>1 DEF Request
<1>3. RequestOK(q)'
  <2>1. TablesOK
    BY DEF TypeInv, TypeOK, TablesOK
  <2>2. QED
    BY <2>1, <1>2, RequestKept
<1>4. rq' = [rq EXCEPT ![r] = q]
  BY <1>1 DEF Goto, TypeInv, TypeOK
<1>5. QED
  BY <1>2, <1>3, <1>4, Moves

LEMMA BeginMoves ==
    ASSUME TypeInv, TablesInv, NEW r \in Requests, NEW q \in Request, Begin(r, q), RequestOK(q)
    PROVE  TypeInv' /\ TablesStep
<1>1. TablesOK /\ TablesStep
  BY NothingWritten DEF Begin, TypeInv, TypeOK, TablesOK
<1>2. RequestOK(q)'
  BY <1>1, RequestKept DEF TablesStep
<1>3. rq' \in [Requests -> Request] /\ RequestsInv'
  BY <1>1, <1>2, Moves DEF Begin, TablesStep
<1>4. QED
  BY <1>1, <1>3 DEF Begin, TypeInv, TypeOK, TablesStep, TablesOK
-----------------------------------------------------------------------------
(* Every action keeps the tables, and every handler what it holds.         *)

Step == TypeInv' /\ TablesStep

LEMMA Combined ==
    ASSUME TablesStep, rq' \in [Requests -> Request], RequestsInv', faults' \in 0..MaxFaults
    PROVE  Step
  BY DEF Step, TypeInv, TypeOK, TablesStep, TablesOK

LEMMA Answers ==
    ASSUME TypeInv, TablesStep, NEW r \in Requests, NEW text \in Replies, Answer(r, text),
           faults' \in 0..MaxFaults
    PROVE  Step
  BY AnswerMoves, Combined DEF TablesStep

LEMMA Continues ==
    ASSUME TypeInv, TablesStep, NEW r \in Requests, NEW label \in Labels, Goto(r, label),
           RequestOK([rq[r] EXCEPT !.at = label]), faults' \in 0..MaxFaults
    PROVE  Step
  BY GotoMoves, Combined DEF TablesStep

LEMMA NothingElse ==
    ASSUME TypeInv, TablesInv, UNCHANGED <<tables, faults>>
    PROVE  TablesStep /\ faults' \in 0..MaxFaults
<1>1. TablesOK /\ faults \in 0..MaxFaults
  BY DEF TypeInv, TypeOK, TablesOK
<1>2. QED
  BY <1>1, NothingWritten

Free == Labels \ {"insert", "link", "persist", "draft", "edit", "rpc", "snapshot", "swap",
                  "provision"}

(* Most labels ask nothing of the locals beyond what was there before.     *)
LEMMA AnyLabel ==
    ASSUME NEW q \in Request, RequestOK(q), q.at # "done", q.op = "claim" => q.at # "profile",
           NEW label \in Free,
           Serves(q.op, label)
    PROVE  RequestOK([q EXCEPT !.at = label])
<1> USE DEF Free
<1> DEFINE n == [q EXCEPT !.at = label]
<1>1. /\ n.op = q.op /\ n.at = label /\ n.user = q.user /\ n.code = q.code /\ n.to = q.to
      /\ n.sub = q.sub
      /\ n.cohort = q.cohort /\ n.wave = q.wave /\ n.type = q.type /\ n.version = q.version
      /\ n.text = q.text /\ n.seen = q.seen /\ n.reply = q.reply
  BY DEF Request
<1> HIDE DEF n
<1>2. RequestOK(n)
  BY <1>1 DEF RequestOK, Serves
<1>3. QED
  BY <1>2 DEF n

(* The call of a handler that only reads: it answers or goes on.           *)
LEMMA AnswersAlone ==
    ASSUME TypeInv, TablesInv, NEW r \in Requests, UNCHANGED <<tables, faults>>,
           NEW text \in Replies, Answer(r, text)
    PROVE  Step
  BY NothingElse, Answers

LEMMA ContinuesAlone ==
    ASSUME TypeInv, TablesInv, NEW r \in Requests, UNCHANGED <<tables, faults>>,
           rq[r].at # "done", rq[r].op = "claim" => rq[r].at # "profile",
           NEW label \in Free, Goto(r, label),
           Serves(rq[r].op, label)
    PROVE  Step
<1>1. TablesStep /\ faults' \in 0..MaxFaults
  BY NothingElse
<1>2. rq[r] \in Request /\ RequestOK(rq[r])
  BY DEF TypeInv, TypeOK, RequestsInv
<1>3. RequestOK([rq[r] EXCEPT !.at = label])
  BY <1>2, AnyLabel
<1>4. QED
  BY <1>1, <1>3, Continues DEF Free

(* What the type invariant says of one request.                            *)
LEMMA RequestTyped ==
    ASSUME TypeInv, NEW r \in Requests
    PROVE  /\ rq \in [Requests -> Request] /\ rq[r] \in Request /\ RequestOK(rq[r])
           /\ TablesOK /\ faults \in 0..MaxFaults
  BY DEF TypeInv, TypeOK, RequestsInv, TablesOK

(* A handler that only reads, and remembers what it read.                  *)
LEMMA MovesAlone ==
    ASSUME TypeInv, TablesInv, NEW r \in Requests, NEW n \in Request, RequestOK(n),
           rq' = [rq EXCEPT ![r] = n], UNCHANGED <<tables, faults>>
    PROVE  Step
<1>1. TablesStep /\ faults' \in 0..MaxFaults
  BY NothingElse
<1>2. RequestOK(n)'
  BY <1>1, RequestTyped, RequestKept DEF TablesStep
<1>3. QED
  BY <1>1, <1>2, Moves, Combined DEF TablesStep

LEMMA NewCode ==
    ASSUME NEW q \in Request, RequestOK(q), q.op \in {"issue", "invite"}, q.at # "done",
           NEW k \in Or(Codes), NEW label \in Labels,
           label \in {"cohort", "insert", "link"}, label # "cohort" => k \in Codes
    PROVE  LET n == [q EXCEPT !.code = k, !.at = label] IN n \in Request /\ RequestOK(n)
<1> DEFINE n == [q EXCEPT !.code = k, !.at = label]
<1>1. n \in Request
  BY DEF Request
<1>2. /\ n.op = q.op /\ n.at = label /\ n.user = q.user /\ n.code = k /\ n.to = q.to
      /\ n.sub = q.sub
      /\ n.cohort = q.cohort /\ n.wave = q.wave /\ n.type = q.type /\ n.version = q.version
      /\ n.text = q.text /\ n.seen = q.seen /\ n.reply = q.reply
  BY DEF Request
<1> HIDE DEF n
<1>3. RequestOK(n)
  BY <1>2 DEF RequestOK, Serves
<1>4. QED
  BY <1>1, <1>3 DEF n

LEMMA Begins ==
    ASSUME TypeInv, TablesInv, NEW r \in Requests,
           \E q \in Request : RequestOK(q) /\ Begin(r, q)
    PROVE  Step
  BY BeginMoves DEF Step

LEMMA ArriveStep ==
    ASSUME TypeInv, TablesInv, NEW r \in Requests, Arrive(r)
    PROVE  Step
<1> USE DEF Idle, Ops, Labels, Replies
<1>1. CASE Issue(r)
  <2>1. PICK to \in Or(Addresses), t \in Types, c \in Or(Cohorts), w \in Or(Minted) :
          Begin(r, [Idle EXCEPT !.op = "issue", !.at = "cohort", !.to = to,
                                !.type = t, !.cohort = c, !.wave = w])
    BY <1>1 DEF Issue
  <2> DEFINE q == [Idle EXCEPT !.op = "issue", !.at = "cohort", !.to = to,
                             !.type = t, !.cohort = c, !.wave = w]
  <2>2. q \in Request /\ RequestOK(q)
    BY DEF Request, RequestOK, Serves, Or, Minted
  <2> HIDE DEF q
  <2>3. QED
    BY <2>1, <2>2, Begins DEF q
<1>2. CASE InviteFromWaitlist(r)
  <2>1. PICK e \in Addresses, to \in Addresses, t \in Types, c \in Or(Cohorts),
             w \in Or(Minted) :
          Begin(r, [Idle EXCEPT !.op = "invite", !.at = "submission", !.sub = e,
                                !.to = to, !.type = t, !.cohort = c, !.wave = w])
    BY <1>2 DEF InviteFromWaitlist
  <2> DEFINE q == [Idle EXCEPT !.op = "invite", !.at = "submission", !.sub = e,
                             !.to = to, !.type = t, !.cohort = c, !.wave = w]
  <2>2. q \in Request /\ RequestOK(q)
    BY DEF Request, RequestOK, Serves, Or, Minted
  <2> HIDE DEF q
  <2>3. QED
    BY <2>1, <2>2, Begins DEF q
<1>3. CASE Claim(r)
  <2>1. PICK u \in Users, k \in Codes :
          Begin(r, [Idle EXCEPT !.op = "claim", !.at = "profile", !.user = u, !.code = k])
    BY <1>3 DEF Claim
  <2> DEFINE q == [Idle EXCEPT !.op = "claim", !.at = "profile", !.user = u, !.code = k]
  <2>2. q \in Request /\ RequestOK(q)
    BY DEF Request, RequestOK, Serves, Or
  <2> HIDE DEF q
  <2>3. QED
    BY <2>1, <2>2, Begins DEF q
<1>4. CASE ClaimForSignup(r)
  <2>1. PICK u \in Users, k \in Codes :
          Begin(r, [Idle EXCEPT !.op = "signup", !.at = "validate", !.user = u, !.code = k])
    BY <1>4 DEF ClaimForSignup
  <2> DEFINE q == [Idle EXCEPT !.op = "signup", !.at = "validate", !.user = u, !.code = k]
  <2>2. q \in Request /\ RequestOK(q)
    BY DEF Request, RequestOK, Serves, Or
  <2> HIDE DEF q
  <2>3. QED
    BY <2>1, <2>2, Begins DEF q
<1>5. CASE Revoke(r)
  <2>1. PICK k \in Codes :
          Begin(r, [Idle EXCEPT !.op = "revoke", !.at = "check", !.code = k])
    BY <1>5 DEF Revoke
  <2> DEFINE q == [Idle EXCEPT !.op = "revoke", !.at = "check", !.code = k]
  <2>2. q \in Request /\ RequestOK(q)
    BY DEF Request, RequestOK, Serves, Or
  <2> HIDE DEF q
  <2>3. QED
    BY <2>1, <2>2, Begins DEF q
<1>6. CASE RemoveCohort(r)
  <2>1. PICK c \in Cohorts :
          Begin(r, [Idle EXCEPT !.op = "drop", !.at = "exists", !.cohort = c])
    BY <1>6 DEF RemoveCohort
  <2> DEFINE q == [Idle EXCEPT !.op = "drop", !.at = "exists", !.cohort = c]
  <2>2. q \in Request /\ RequestOK(q)
    BY DEF Request, RequestOK, Serves, Or
  <2> HIDE DEF q
  <2>3. QED
    BY <2>1, <2>2, Begins DEF q
<1>7. CASE RemoveWave(r)
  <2>1. PICK w \in Minted :
          Begin(r, [Idle EXCEPT !.op = "drop", !.at = "exists", !.wave = w])
    BY <1>7 DEF RemoveWave
  <2> DEFINE q == [Idle EXCEPT !.op = "drop", !.at = "exists", !.wave = w]
  <2>2. q \in Request /\ RequestOK(q)
    BY DEF Request, RequestOK, Serves, Or, Minted
  <2> HIDE DEF q
  <2>3. QED
    BY <2>1, <2>2, Begins DEF q
<1>8. CASE CreateWave(r)
  <2>1. Begin(r, [Idle EXCEPT !.op = "wave", !.at = "key"])
    BY <1>8 DEF CreateWave
  <2> DEFINE q == [Idle EXCEPT !.op = "wave", !.at = "key"]
  <2>2. q \in Request /\ RequestOK(q)
    BY DEF Request, RequestOK, Serves, Or
  <2> HIDE DEF q
  <2>3. QED
    BY <2>1, <2>2, Begins DEF q
<1>9. CASE Submit(r)
  <2>1. PICK e \in Addresses :
          Begin(r, [Idle EXCEPT !.op = "submit", !.at = "lookup email", !.to = e])
    BY <1>9 DEF Submit
  <2> DEFINE q == [Idle EXCEPT !.op = "submit", !.at = "lookup email", !.to = e]
  <2>2. q \in Request /\ RequestOK(q)
    BY DEF Request, RequestOK, Serves, Or
  <2> HIDE DEF q
  <2>3. QED
    BY <2>1, <2>2, Begins DEF q
<1>10. CASE PatchSubmission(r)
  <2>1. PICK e \in Addresses, w \in Or(Minted) :
          Begin(r, [Idle EXCEPT !.op = "patch", !.at = "wave", !.to = e, !.wave = w])
    BY <1>10 DEF PatchSubmission
  <2> DEFINE q == [Idle EXCEPT !.op = "patch", !.at = "wave", !.to = e, !.wave = w]
  <2>2. q \in Request /\ RequestOK(q)
    BY DEF Request, RequestOK, Serves, Or, Minted
  <2> HIDE DEF q
  <2>3. QED
    BY <2>1, <2>2, Begins DEF q
<1>11. CASE CreateDraft(r)
  <2>1. PICK v \in Versions, t \in Texts :
          Begin(r, [Idle EXCEPT !.op = "eula", !.at = "draft", !.version = v, !.text = t])
    BY <1>11 DEF CreateDraft
  <2> DEFINE q == [Idle EXCEPT !.op = "eula", !.at = "draft", !.version = v, !.text = t]
  <2>2. q \in Request /\ RequestOK(q)
    BY DEF Request, RequestOK, Serves, Or
  <2> HIDE DEF q
  <2>3. QED
    BY <2>1, <2>2, Begins DEF q
<1>12. CASE CopyVersion(r)
  <2>1. PICK v \in Versions, src \in Versions :
          Exists(eulas, src) /\
          Begin(r, [Idle EXCEPT !.op = "eula", !.at = "draft", !.version = v,
                                !.text = eulas[src].text])
    BY <1>12 DEF CopyVersion
  <2> DEFINE q == [Idle EXCEPT !.op = "eula", !.at = "draft", !.version = v,
                             !.text = eulas[src].text]
  <2>2. eulas[src].text \in Texts
    BY <2>1 DEF TypeInv, TypeOK, Exists, Or, Eula
  <2>3. q \in Request /\ RequestOK(q)
    BY <2>2 DEF Request, RequestOK, Serves, Or
  <2> HIDE DEF q
  <2>4. QED
    BY <2>1, <2>3, Begins DEF q
<1>13. CASE EditDraft(r)
  <2>1. PICK v \in Versions, t \in Texts :
          Begin(r, [Idle EXCEPT !.op = "eula", !.at = "read", !.version = v, !.text = t])
    BY <1>13 DEF EditDraft
  <2> DEFINE q == [Idle EXCEPT !.op = "eula", !.at = "read", !.version = v, !.text = t]
  <2>2. q \in Request /\ RequestOK(q)
    BY DEF Request, RequestOK, Serves, Or
  <2> HIDE DEF q
  <2>3. QED
    BY <2>1, <2>2, Begins DEF q
<1>14. CASE Publish(r)
  <2>1. PICK v \in Versions :
          Begin(r, [Idle EXCEPT !.op = "eula", !.at = "read", !.version = v])
    BY <1>14 DEF Publish
  <2> DEFINE q == [Idle EXCEPT !.op = "eula", !.at = "read", !.version = v]
  <2>2. q \in Request /\ RequestOK(q)
    BY DEF Request, RequestOK, Serves, Or
  <2> HIDE DEF q
  <2>3. QED
    BY <2>1, <2>2, Begins DEF q
<1>15. CASE SignupWithInvitation(r)
  <2>1. Answer(r, "error") 
    BY <1>15 DEF SignupWithInvitation
  <2>2. QED
    BY <1>15, <2>1, AnswersAlone DEF SignupWithInvitation
<1>16. CASE CreateCohort(r)
  <2>1. Answer(r, "409") 
    BY <1>16 DEF CreateCohort
  <2>2. QED
    BY <1>16, <2>1, AnswersAlone DEF CreateCohort
<1>17. QED
  BY <1>1, <1>2, <1>3, <1>4, <1>5, <1>6, <1>7, <1>8, <1>9, <1>10, <1>11, <1>12, <1>13, <1>14, <1>15, <1>16 DEF Arrive
(* Issuing an invitation, alone or from the waitlist.                      *)
LEMMA IssueSteps ==
    ASSUME TypeInv, TablesInv, NEW r \in Requests,
           \/ CheckCohort(r) \/ CheckWave(r) \/ LookupIssued(r) \/ GenerateCode(r)
           \/ CreateCode(r) \/ ReadSubmission(r) \/ AlreadyLinked(r) \/ Link(r)
    PROVE  Step
<1> DEFINE q == rq[r]
<1>1. q \in Request /\ RequestOK(q) /\ TablesOK /\ rq \in [Requests -> Request]
  BY RequestTyped
<1>2. CASE CheckCohort(r)
  <2>1. UNCHANGED <<tables, faults>> /\ q.at = "cohort" /\ (Goto(r, "wave") \/ Answer(r, "400"))
    BY <1>2 DEF CheckCohort
  <2>2. CASE Goto(r, "wave")
    BY <2>1, <2>2, ContinuesAlone DEF Labels, Free, Serves
  <2>3. CASE Answer(r, "400")
    BY <2>1, <2>3, AnswersAlone DEF Replies
  <2>4. QED
    BY <2>1, <2>2, <2>3
<1>3. CASE CheckWave(r)
  <2>1. /\ UNCHANGED <<tables, faults>> /\ q.at = "wave" /\ q.op \in {"issue", "invite"}
        /\ Goto(r, "linked") \/ Goto(r, "lookup") \/ Answer(r, "400")
    BY <1>3 DEF CheckWave
  <2>2. CASE Goto(r, "linked") \/ Goto(r, "lookup")
    BY <2>1, <2>2, ContinuesAlone DEF Labels, Free, Serves
  <2>3. CASE Answer(r, "400")
    BY <2>1, <2>3, AnswersAlone DEF Replies
  <2>4. QED
    BY <2>1, <2>2, <2>3
<1>4. CASE LookupIssued(r)
  <2>1. UNCHANGED <<tables, faults>> /\ q.at = "lookup"
    BY <1>4 DEF LookupIssued
  <2>5. q.op \in {"issue", "invite"}
    BY <1>1, <2>1 DEF RequestOK, Serves
  <2>2. CASE Goto(r, "generate") \/ Answer(r, "ok")
    BY <2>1, <2>2, <2>5, ContinuesAlone, AnswersAlone DEF Labels, Free, Serves, Replies
  <2>3. ASSUME NEW k \in Codes, rq' = [rq EXCEPT ![r].code = k, ![r].at = "link"]
        PROVE  Step
    <3> DEFINE n == [q EXCEPT !.code = k, !.at = "link"]
    <3>1. n \in Request /\ RequestOK(n)
      BY <1>1, <2>1, <2>5, NewCode DEF Or, Labels
    <3>2. rq' = [rq EXCEPT ![r] = n]
      BY <1>1, <2>3
    <3> HIDE DEF n
    <3>3. QED
      BY <1>1, <2>1, <3>1, <3>2, MovesAlone
  <2>4. QED
    BY <1>4, <2>2, <2>3 DEF LookupIssued, Oldest, IssuedTo
<1>5. CASE GenerateCode(r)
  <2>1. PICK k \in Codes : rq' = [rq EXCEPT ![r].code = k, ![r].at = "insert"]
    BY <1>5 DEF GenerateCode
  <2>2. UNCHANGED <<tables, faults>> /\ q.at = "generate"
    BY <1>5 DEF GenerateCode
  <2>6. q.op \in {"issue", "invite"}
    BY <1>1, <2>2 DEF RequestOK, Serves
  <2> DEFINE n == [q EXCEPT !.code = k, !.at = "insert"]
  <2>3. n \in Request /\ RequestOK(n)
    BY <1>1, <2>2, <2>6, NewCode DEF Or, Labels
  <2>4. rq' = [rq EXCEPT ![r] = n]
    BY <1>1, <2>1
  <2> HIDE DEF n
  <2>5. QED
    BY <1>1, <2>2, <2>3, <2>4, MovesAlone
<1>6. CASE CreateCode(r)
  <2>1. faults' \in 0..MaxFaults
    BY <1>6, RequestTyped DEF CreateCode
  <2>2. CASE Answer(r, "error") /\ UNCHANGED tables
    BY <1>1, <2>1, <2>2, NothingWritten, Answers DEF Replies
  <2>3. CASE ~(Answer(r, "error") /\ UNCHANGED tables)
    <3>1. /\ q.at = "insert" /\ q.op \in {"issue", "invite"}
          /\ order[q.code] = 0 /\ WaveKnown(q.wave)
          /\ InsertCode(q.code, q.to, q.type, q.cohort, q.wave)
          /\ IF q.op = "issue" THEN Answer(r, "ok") ELSE Goto(r, "link")
      BY <1>6, <2>3 DEF CreateCode
    <3>2. /\ q.code \in Codes /\ q.type \in Types /\ q.to \in Or(Addresses)
          /\ q.cohort \in Or(Cohorts) /\ q.wave \in Or(Waves)
      BY <1>1, <3>1 DEF Request, RequestOK, Serves
    <3>3. TablesStep
      BY <1>1, <3>1, <3>2, InsertCodeStep
    <3>4. RequestOK([q EXCEPT !.at = "link"])
      BY <1>1, <3>1, <3>2 DEF Request, RequestOK, Serves
    <3>5. QED
      BY <2>1, <3>1, <3>3, <3>4, Answers, Continues DEF Labels, Replies
  <2>4. QED
    BY <2>2, <2>3
<1>7. CASE ReadSubmission(r)
  <2>1. UNCHANGED <<tables, faults>> /\ q.at = "submission" /\ q.op = "invite"
    BY <1>7 DEF ReadSubmission, At
  <2>2. CASE Answer(r, "404")
    BY <2>1, <2>2, AnswersAlone DEF Replies
  <2>3. CASE ~Answer(r, "404")
    <3> PICK k : k = subs[q.sub].code
      OBVIOUS
    <3>1. Exists(subs, q.sub) /\ rq' = [rq EXCEPT ![r].code = k, ![r].at = "cohort"]
      BY <1>7, <2>3 DEF ReadSubmission
    <3>2. q.sub \in Addresses
      BY <1>1, <2>1 DEF RequestOK, Serves
    <3>3. k \in Or(Codes)
      BY <1>1, <3>1, <3>2 DEF TablesOK, Exists, Or, Submission
    <3> DEFINE n == [q EXCEPT !.code = k, !.at = "cohort"]
    <3>4. n \in Request /\ RequestOK(n)
      BY <1>1, <2>1, <3>3, NewCode DEF Labels
    <3>5. rq' = [rq EXCEPT ![r] = n]
      BY <1>1, <3>1
    <3> HIDE DEF n
    <3>6. QED
      BY <1>1, <2>1, <3>4, <3>5, MovesAlone
  <2>4. QED
    BY <2>2, <2>3
<1>8. CASE AlreadyLinked(r)
  BY <1>8, AnswersAlone DEF AlreadyLinked, At, Replies
<1>9. CASE Link(r)
  <2>1. faults' \in 0..MaxFaults
    BY <1>9, RequestTyped DEF Link
  <2>2. CASE Answer(r, "error") /\ UNCHANGED tables
    BY <1>1, <2>1, <2>2, NothingWritten, Answers DEF Replies
  <2>3. CASE ~(Answer(r, "error") /\ UNCHANGED tables)
    <3>1. /\ q.op = "invite" /\ q.at = "link"
          /\ LinkSubmission(q.sub, q.code, q.wave) /\ Answer(r, "ok")
      BY <1>9, <2>3 DEF Link, At
    <3>2. q.code \in Codes /\ q.sub \in Addresses /\ q.wave \in Or(Waves)
      BY <1>1, <3>1 DEF Request, RequestOK, Serves
    <3>3. TablesStep
      BY <1>1, <3>1, <3>2, LinkStep
    <3>4. QED
      BY <2>1, <3>1, <3>3, Answers DEF Replies
  <2>4. QED
    BY <2>2, <2>3
<1>10. QED
  BY <1>2, <1>3, <1>4, <1>5, <1>6, <1>7, <1>8, <1>9

(* Claiming a code, making the profile, and revoking a code.               *)
LEMMA ClaimSteps ==
    ASSUME TypeInv, TablesInv, NEW r \in Requests,
           \/ RequireProfile(r) \/ ValidateCode(r) \/ TakeCode(r) \/ Provision(r)
           \/ CheckUnclaimed(r) \/ DeleteCode(r)
    PROVE  Step
<1> DEFINE q == rq[r]
<1>1. q \in Request /\ RequestOK(q) /\ TablesOK /\ rq \in [Requests -> Request]
  BY RequestTyped
<1>2. CASE RequireProfile(r)
  <2>1. UNCHANGED <<tables, faults>> /\ q.at = "profile" /\ q.op = "claim"
    BY <1>2 DEF RequireProfile, At
  <2>2. CASE Answer(r, "403")
    BY <2>1, <2>2, AnswersAlone DEF Replies
  <2>3. CASE ~Answer(r, "403")
    <3>1. Goto(r, "validate") /\ Exists(profiles, q.user)
      BY <1>2, <2>3 DEF RequireProfile
    <3> DEFINE n == [q EXCEPT !.at = "validate"]
    <3>2. /\ n.op = q.op /\ n.at = "validate" /\ n.user = q.user /\ n.code = q.code
          /\ n.reply = q.reply
      BY <1>1 DEF Request
    <3> HIDE DEF n
    <3>3. RequestOK(n)
      BY <1>1, <2>1, <3>1, <3>2 DEF RequestOK, Serves
    <3>4. TablesStep /\ faults' \in 0..MaxFaults
      BY <2>1, NothingElse
    <3>5. QED
      BY <3>1, <3>3, <3>4, Continues DEF n, Labels
  <2>4. QED
    BY <2>2, <2>3
<1>3. CASE ValidateCode(r)
  <2>1. /\ UNCHANGED <<tables, faults>> /\ q.at = "validate" /\ q.op \in {"claim", "signup"}
        /\ Goto(r, "claim") \/ Answer(r, "400")
    BY <1>1, <1>3 DEF ValidateCode, RequestOK, Serves
  <2>2. CASE Goto(r, "claim")
    BY <2>1, <2>2, ContinuesAlone DEF Labels, Free, Serves
  <2>3. CASE Answer(r, "400")
    BY <2>1, <2>3, AnswersAlone DEF Replies
  <2>4. QED
    BY <2>1, <2>2, <2>3
<1>4. CASE TakeCode(r)
  <2>1. /\ faults' \in 0..MaxFaults /\ q.at = "claim" /\ ClaimCode(q.code, q.user)
        /\ q.op \in {"claim", "signup"}
    BY <1>1, <1>4, RequestTyped DEF TakeCode, RequestOK, Serves
  <2>2. q.code \in Codes /\ q.user \in Users
    BY <1>1, <2>1 DEF RequestOK
  <2>3. TablesStep
    BY <1>1, <2>1, <2>2, ClaimCodeStep
  <2>4. CASE Answer(r, "400") \/ Answer(r, "ok")
    BY <2>1, <2>3, <2>4, Answers DEF Replies
  <2>5. CASE ~(Answer(r, "400") \/ Answer(r, "ok"))
    <3> PICK row : row = codes[q.code]
      OBVIOUS
    <3>1. /\ Claimable(q.code) /\ q.op = "signup"
          /\ rq' = [rq EXCEPT ![r].at = "provision", ![r].row = row]
      BY <1>4, <2>1, <2>5 DEF TakeCode
    <3>2. /\ row \in Invitation /\ Exists(codes', q.code)
          /\ codes'[q.code] = [row EXCEPT !.by = q.user]
      BY <1>1, <2>1, <2>2, <3>1, ClaimCodeStep
    <3>3. /\ codes'[q.code].by = q.user /\ codes'[q.code].type = row.type
          /\ codes'[q.code].cohort = row.cohort /\ codes'[q.code].wave = row.wave
      BY <3>2 DEF Invitation
    <3>4. row.wave # Null => waves'[row.wave] # "free"
      BY <2>1, <2>2, <3>1 DEF ClaimCode, TablesInv, WavesNamed, Claimable
    <3>5. PICK n : n = [q EXCEPT !.at = "provision", !.row = row]
      OBVIOUS
    <3>6. /\ n \in Request /\ n.op = "signup" /\ n.at = "provision" /\ n.user = q.user
          /\ n.code = q.code /\ n.row = row /\ n.reply = q.reply
      <4>1. row \in Or(Invitation) /\ "provision" \in Labels
        BY <3>2 DEF Or, Labels
      <4>2. [q EXCEPT !.at = "provision"] \in Request
        BY <1>1, <4>1 DEF Request
      <4>3. n \in Request
        BY <1>1, <3>5, <4>1, <4>2 DEF Request
      <4>4. QED
        BY <1>1, <3>1, <3>5, <4>3 DEF Request
    <3>7. PICK u, k : u = q.user /\ k = q.code
      OBVIOUS
    <3>8. Granted(n)'
      BY <3>2, <3>3, <3>4, <3>6, <3>7 DEF Granted, Exists
    <3>9. RequestOK(n)'
      BY <1>1, <2>1, <2>2, <3>6, <3>8 DEF RequestOK, Serves
    <3>10. rq' = [rq EXCEPT ![r] = n]
      BY <1>1, <3>1, <3>5
    <3>11. QED
      BY <2>1, <2>3, <3>6, <3>9, <3>10, Moves, Combined DEF TablesStep
  <2>6. QED
    BY <2>4, <2>5
<1>5. CASE Provision(r)
  <2>1. faults' \in 0..MaxFaults
    BY <1>5, RequestTyped DEF Provision
  <2>2. CASE Answer(r, "error") /\ UNCHANGED tables
    BY <1>1, <2>1, <2>2, NothingWritten, Answers DEF Replies
  <2>3. CASE ~(Answer(r, "error") /\ UNCHANGED tables)
    <3>1. /\ q.at = "provision" /\ q.op = "signup"
          /\ CohortKnown(q.row.cohort) /\ WaveKnown(q.row.wave)
          /\ UpsertProfile(q.user, q.code, q.row) /\ Answer(r, "ok")
      BY <1>5, <2>3 DEF Provision, At
    <3>2. Granted(q) /\ q.user \in Users /\ q.code \in Codes
      BY <1>1, <3>1 DEF RequestOK
    <3>3. TablesStep
      BY <1>1, <3>1, <3>2, UpsertProfileStep DEF Granted
    <3>4. QED
      BY <2>1, <3>1, <3>3, Answers DEF Replies
  <2>4. QED
    BY <2>2, <2>3
<1>6. CASE CheckUnclaimed(r)
  <2>1. /\ UNCHANGED <<tables, faults>> /\ q.at = "check" /\ q.op = "revoke"
        /\ Goto(r, "delete") \/ Answer(r, "404") \/ Answer(r, "409")
    BY <1>6 DEF CheckUnclaimed, At
  <2>2. CASE Goto(r, "delete")
    BY <2>1, <2>2, ContinuesAlone DEF Labels, Free, Serves
  <2>3. CASE Answer(r, "404") \/ Answer(r, "409")
    BY <2>1, <2>3, AnswersAlone DEF Replies
  <2>4. QED
    BY <2>1, <2>2, <2>3
<1>7. CASE DeleteCode(r)
  <2>1. /\ faults' \in 0..MaxFaults /\ q.op = "revoke"
        /\ DeleteUnclaimed(q.code) /\ Answer(r, "ok")
    BY <1>7, RequestTyped DEF DeleteCode, At
  <2>2. q.code \in Codes
    BY <1>1, <2>1 DEF RequestOK
  <2>3. TablesStep
    BY <1>1, <2>1, <2>2, DeleteUnclaimedStep
  <2>4. QED
    BY <2>1, <2>3, Answers DEF Replies
<1>8. QED
  BY <1>2, <1>3, <1>4, <1>5, <1>6, <1>7

(* Removing a cohort or a wave, and making a wave.                         *)
LEMMA RemoveSteps ==
    ASSUME TypeInv, TablesInv, NEW r \in Requests,
           \/ CheckExists(r) \/ CheckReferences(r) \/ Remove(r)
           \/ CheckWaveKey(r) \/ CreateWaveRow(r)
    PROVE  Step
<1> DEFINE q == rq[r]
<1>1. q \in Request /\ RequestOK(q) /\ TablesOK /\ rq \in [Requests -> Request]
  BY RequestTyped
<1>2. CASE CheckExists(r)
  <2>1. /\ UNCHANGED <<tables, faults>> /\ q.at = "exists" /\ q.op = "drop"
        /\ Goto(r, "incodes") \/ Goto(r, "insubs") \/ Answer(r, "404")
    BY <1>2 DEF CheckExists, At
  <2>2. CASE Goto(r, "incodes") \/ Goto(r, "insubs")
    BY <2>1, <2>2, ContinuesAlone DEF Labels, Free, Serves
  <2>3. CASE Answer(r, "404")
    BY <2>1, <2>3, AnswersAlone DEF Replies
  <2>4. QED
    BY <2>1, <2>2, <2>3
<1>3. CASE CheckReferences(r)
  <2>1. /\ UNCHANGED <<tables, faults>> /\ q.at # "done" /\ q.op = "drop"
        /\ Goto(r, "incodes") \/ Goto(r, "inprofiles") \/ Goto(r, "remove") \/ Answer(r, "409")
    BY <1>3 DEF CheckReferences
  <2>2. CASE Goto(r, "incodes") \/ Goto(r, "inprofiles") \/ Goto(r, "remove")
    BY <2>1, <2>2, ContinuesAlone DEF Labels, Free, Serves
  <2>3. CASE Answer(r, "409")
    BY <2>1, <2>3, AnswersAlone DEF Replies
  <2>4. QED
    BY <2>1, <2>2, <2>3
<1>4. CASE Remove(r)
  <2>1. /\ faults' \in 0..MaxFaults /\ q.op = "drop" /\ Answer(r, "ok")
        /\ IF q.wave = Null THEN DeleteCohort(q.cohort) ELSE DeleteWave(q.wave)
    BY <1>4, RequestTyped DEF Remove, At
  <2>2. q.wave \in Waves \/ (q.wave = Null /\ q.cohort \in Cohorts)
    BY <1>1, <2>1 DEF RequestOK
  <2>3. TablesStep
    BY <1>1, <2>1, <2>2, DeleteCohortStep, DeleteWaveStep
  <2>4. QED
    BY <2>1, <2>3, Answers DEF Replies
<1>5. CASE CheckWaveKey(r)
  <2>1. /\ UNCHANGED <<tables, faults>> /\ q.at = "key" /\ q.op = "wave"
        /\ Goto(r, "insert") \/ Answer(r, "409")
    BY <1>5 DEF CheckWaveKey, At
  <2>2. CASE Goto(r, "insert")
    <3> DEFINE n == [q EXCEPT !.at = "insert"]
    <3>1. /\ n.op = "wave" /\ n.at = "insert" /\ n.reply = q.reply
      BY <1>1, <2>1 DEF Request
    <3> HIDE DEF n
    <3>2. RequestOK(n)
      BY <1>1, <2>1, <3>1 DEF RequestOK, Serves
    <3>3. TablesStep /\ faults' \in 0..MaxFaults
      BY <2>1, NothingElse
    <3>4. QED
      BY <2>2, <3>2, <3>3, Continues DEF n, Labels
  <2>3. CASE Answer(r, "409")
    BY <2>1, <2>3, AnswersAlone DEF Replies
  <2>4. QED
    BY <2>1, <2>2, <2>3
<1>6. CASE CreateWaveRow(r)
  <2>1. faults' \in 0..MaxFaults
    BY <1>6, RequestTyped DEF CreateWaveRow
  <2>2. CASE Answer(r, "error") /\ UNCHANGED tables
    BY <1>1, <2>1, <2>2, NothingWritten, Answers DEF Replies
  <2>3. ASSUME NEW w \in Waves, waves[w] = "free", InsertWave(w), Answer(r, "ok")
        PROVE  Step
    <3>1. TablesStep
      BY <1>1, <2>3, InsertWaveStep
    <3>2. QED
      BY <2>1, <2>3, <3>1, Answers DEF Replies
  <2>4. QED
    BY <1>6, <2>2, <2>3 DEF CreateWaveRow
<1>7. QED
  BY <1>2, <1>3, <1>4, <1>5, <1>6

(* The waitlist.                                                           *)
LEMMA WaitlistSteps ==
    ASSUME TypeInv, TablesInv, NEW r \in Requests,
           \/ LookupEmail(r) \/ Persist(r) \/ CheckPatchWave(r) \/ UpdateSubmission(r)
    PROVE  Step
<1> DEFINE q == rq[r]
<1>1. q \in Request /\ RequestOK(q) /\ TablesOK /\ rq \in [Requests -> Request]
  BY RequestTyped
<1>2. \A e \in Addresses : Exists(subs, e) => subs[e] \in Submission
  BY <1>1 DEF TablesOK, Exists, Or
<1>3. CASE LookupEmail(r)
  <2> PICK seen : seen = IF Exists(subs, q.to) THEN subs[q.to].count ELSE 0
    OBVIOUS
  <2>1. /\ UNCHANGED <<tables, faults>> /\ q.at = "lookup email" /\ q.op = "submit"
        /\ rq' = [rq EXCEPT ![r].at = "persist", ![r].seen = seen]
    BY <1>3 DEF LookupEmail, At
  <2>2. q.to \in Addresses /\ seen \in Nat /\ (seen > 0 => Exists(subs, q.to))
    <3>1. q.to \in Addresses
      BY <1>1, <2>1 DEF RequestOK
    <3>2. CASE Exists(subs, q.to)
      BY <1>2, <3>1, <3>2 DEF Submission
    <3>3. CASE ~Exists(subs, q.to)
      BY <3>1, <3>3
    <3>4. QED
      BY <3>2, <3>3
  <2>3. PICK n : n = [q EXCEPT !.at = "persist", !.seen = seen]
    OBVIOUS
  <2>4. n \in Request
    BY <1>1, <2>2, <2>3 DEF Request, Labels
  <2>5. /\ n.op = "submit" /\ n.at = "persist" /\ n.to = q.to /\ n.seen = seen
        /\ n.reply = q.reply
    BY <1>1, <2>1, <2>3 DEF Request
  <2>6. RequestOK(n)
    BY <1>1, <2>1, <2>2, <2>5 DEF RequestOK, Serves
  <2>7. rq' = [rq EXCEPT ![r] = n]
    BY <1>1, <2>1, <2>3
  <2>8. QED
    BY <2>1, <2>4, <2>6, <2>7, MovesAlone
<1>4. CASE Persist(r)
  <2> DEFINE new == [count |-> 1, status |-> "PENDING_REVIEW", code |-> Null, wave |-> Null]
             row == [subs[q.to] EXCEPT !.count = q.seen + 1]
  <2>1. faults' \in 0..MaxFaults /\ q.op = "submit" /\ q.at = "persist"
    BY <1>4, RequestTyped DEF Persist, At
  <2>2. q.to \in Addresses /\ q.seen \in Nat
    BY <1>1, <2>1 DEF RequestOK, Request
  <2>3. CASE Answer(r, "error") /\ UNCHANGED tables
    BY <1>1, <2>1, <2>3, NothingWritten, Answers DEF Replies
  <2>4. CASE q.seen > 0 /\ SetSubmission(q.to, row) /\ Answer(r, "ok")
    <3>1. Exists(subs, q.to)
      BY <1>1, <2>1, <2>4 DEF RequestOK
    <3>2. subs[q.to] \in Submission
      BY <1>2, <2>2, <3>1
    <3>3. row \in Submission
      BY <2>2, <3>2 DEF Submission
    <3> HIDE DEF row
    <3>4. TablesStep
      BY <1>1, <2>2, <2>4, <3>3, SubmissionStep DEF SetSubmission
    <3>5. QED
      BY <2>1, <2>4, <3>4, Answers DEF Replies
  <2>5. CASE SetSubmission(q.to, new) /\ Answer(r, "ok")
    <3>1. new \in Submission
      BY DEF Submission, Statuses, Or
    <3> HIDE DEF new
    <3>2. TablesStep
      BY <1>1, <2>2, <2>5, <3>1, SubmissionStep DEF SetSubmission
    <3>3. QED
      BY <2>1, <2>5, <3>2, Answers DEF Replies
  <2>6. QED
    BY <1>4, <2>3, <2>4, <2>5 DEF Persist
<1>5. CASE CheckPatchWave(r)
  <2>1. /\ UNCHANGED <<tables, faults>> /\ q.at = "wave" /\ q.op = "patch"
        /\ Goto(r, "update") \/ Answer(r, "400")
    BY <1>5 DEF CheckPatchWave, At
  <2>2. CASE Goto(r, "update")
    BY <2>1, <2>2, ContinuesAlone DEF Labels, Free, Serves
  <2>3. CASE Answer(r, "400")
    BY <2>1, <2>3, AnswersAlone DEF Replies
  <2>4. QED
    BY <2>1, <2>2, <2>3
<1>6. CASE UpdateSubmission(r)
  <2>1. faults' \in 0..MaxFaults /\ q.op = "patch"
    BY <1>6, RequestTyped DEF UpdateSubmission, At
  <2>2. q.to \in Addresses /\ q.wave \in Or(Waves)
    BY <1>1, <2>1 DEF RequestOK, Request
  <2>3. CASE (Answer(r, "404") \/ Answer(r, "error")) /\ UNCHANGED tables
    BY <1>1, <2>1, <2>3, NothingWritten, Answers DEF Replies
  <2>4. CASE ~((Answer(r, "404") \/ Answer(r, "error")) /\ UNCHANGED tables)
    <3>1. Exists(subs, q.to) /\ Answer(r, "ok")
      BY <1>6, <2>4 DEF UpdateSubmission
    <3>2. PICK status \in Statuses,
               wave \in {q.wave} \cup IF q.wave = Null THEN {subs[q.to].wave} ELSE {} :
               SetSubmission(q.to, [subs[q.to] EXCEPT !.wave = wave, !.status = status])
      BY <1>6, <2>4 DEF UpdateSubmission
    <3> DEFINE row == [subs[q.to] EXCEPT !.wave = wave, !.status = status]
    <3>3. subs[q.to] \in Submission
      BY <1>2, <2>2, <3>1
    <3>4. status \in Statuses /\ wave \in Or(Waves)
      BY <2>2, <3>3 DEF Submission, Statuses
    <3>5. row \in Submission
      BY <3>3, <3>4 DEF Submission
    <3>6. SetSubmission(q.to, row)
      BY <3>2
    <3> HIDE DEF row
    <3>7. TablesStep
      BY <1>1, <2>2, <3>5, <3>6, SubmissionStep DEF SetSubmission
    <3>8. QED
      BY <2>1, <3>1, <3>7, Answers DEF Replies
  <2>5. QED
    BY <2>3, <2>4
<1>7. QED
  BY <1>3, <1>4, <1>5, <1>6

(* A publish makes its next call.                                          *)
LEMMA PublishGoesOn ==
    ASSUME TypeInv, TablesInv, NEW r \in Requests, UNCHANGED <<tables, faults>>,
           rq[r].op = "eula", rq[r].at # "done", rq[r].text = Null,
           NEW label \in {"rpc", "snapshot"}, Goto(r, label),
           label = "snapshot" => Exists(eulas, rq[r].version)
    PROVE  Step
<1> DEFINE q == rq[r]
           n == [q EXCEPT !.at = label]
<1>1. q \in Request /\ RequestOK(q)
  BY RequestTyped
<1>2. /\ n.op = "eula" /\ n.at = label /\ n.version = q.version /\ n.text = Null
      /\ n.reply = q.reply
  BY <1>1 DEF Request
<1> HIDE DEF n
<1>3. RequestOK(n)
  BY <1>1, <1>2 DEF RequestOK, Serves
<1>4. TablesStep /\ faults' \in 0..MaxFaults
  BY NothingElse
<1>5. QED
  BY <1>3, <1>4, Continues DEF n, Labels

(* What the end of a publish writes.                                       *)
LEMMA SwapWrites ==
    ASSUME TypeInv, TablesInv, NEW r \in Requests, Swap(r),
           ~(Answer(r, "error") /\ UNCHANGED tables)
    PROVE  TablesStep /\ Answer(r, "ok")
<1> DEFINE q == rq[r]
           f == Published(q.version, q.prior)
<1>1. /\ q \in Request /\ RequestOK(q) /\ TablesOK /\ q.op = "eula" /\ q.at = "swap"
      /\ q.version \in Versions /\ Exists(eulas, q.version)
  BY RequestTyped DEF Swap, At, RequestOK
<1>2. /\ ~\E x \in Versions \ {q.version, q.prior} : IsPublished(x)
      /\ SetEulas(f) /\ Answer(r, "ok")
  BY DEF Swap
<1>3. /\ f = [x \in Versions |-> f[x]]
      /\ \A x \in Versions : f[x] =
            IF x = q.version THEN [eulas[x] EXCEPT !.status = "published"]
            ELSE IF x = q.prior /\ IsPublished(x)
                 THEN [eulas[x] EXCEPT !.status = "archived"] ELSE eulas[x]
  BY DEF Published
<1> HIDE DEF f
<1>4. ASSUME NEW x \in Versions
      PROVE  /\ f[x] \in Or(Eula)
             /\ Exists(f, x) <=> Exists(eulas, x)
             /\ (Exists(f, x) /\ f[x].status = "published") = (x = q.version)
             /\ Exists(eulas, x) /\ eulas[x].status # "draft" =>
                    f[x].text = eulas[x].text /\ f[x].status # "draft"
  <2>1. CASE Exists(eulas, x)
    <3>1. eulas[x] \in Eula
      BY <1>1, <2>1 DEF TablesOK, Exists, Or
    <3>2. CASE x = q.version
      BY <1>3, <2>1, <3>1, <3>2 DEF Eula, Or, Exists
    <3>3. CASE x # q.version
      BY <1>2, <1>3, <2>1, <3>1, <3>3 DEF Eula, Or, Exists, IsPublished
    <3>4. QED
      BY <3>2, <3>3
  <2>2. CASE ~Exists(eulas, x)
    BY <1>1, <1>3, <2>2 DEF Exists, Or, IsPublished
  <2>3. QED
    BY <2>1, <2>2
<1>5. f \in [Versions -> Or(Eula)]
  BY <1>3, <1>4
<1>6. \E v \in Versions : \A x \in Versions :
         (Exists(f, x) /\ f[x].status = "published") = (x = v)
  BY <1>1, <1>4
<1>7. QED
  BY <1>1, <1>2, <1>4, <1>5, <1>6, EulasStep

(* The EULA versions.                                                      *)
LEMMA EulaSteps ==
    ASSUME TypeInv, TablesInv, NEW r \in Requests,
           \/ InsertDraft(r) \/ ReadVersion(r) \/ UpdateDraft(r)
           \/ PublishRpc(r) \/ FindPublished(r) \/ Swap(r)
    PROVE  Step
<1> DEFINE q == rq[r]
<1>1. q \in Request /\ RequestOK(q) /\ TablesOK /\ rq \in [Requests -> Request]
  BY RequestTyped
<1>2. \A v \in Versions : Exists(eulas, v) => eulas[v] \in Eula
  BY <1>1 DEF TablesOK, Exists, Or
<1>3. CASE InsertDraft(r)
  <2> DEFINE row == [status |-> "draft", text |-> q.text]
             f == [eulas EXCEPT ![q.version] = row]
  <2>1. faults' \in 0..MaxFaults /\ q.op = "eula" /\ q.at = "draft"
    BY <1>3, RequestTyped DEF InsertDraft, At
  <2>2. q.version \in Versions /\ q.text \in Texts
    BY <1>1, <2>1 DEF RequestOK
  <2>3. CASE Answer(r, "400") /\ UNCHANGED tables
    BY <1>1, <2>1, <2>3, NothingWritten, Answers DEF Replies
  <2>4. CASE ~(Answer(r, "400") /\ UNCHANGED tables)
    <3>1. ~Exists(eulas, q.version) /\ SetEulas(f) /\ Answer(r, "ok")
      BY <1>3, <2>4 DEF InsertDraft
    <3>2. row \in Eula /\ row.status = "draft" /\ row # Null
      BY <2>2 DEF Eula
    <3>3. f \in [Versions -> Or(Eula)] /\ f[q.version] = row
          /\ \A v \in Versions \ {q.version} : f[v] = eulas[v]
      BY <1>1, <2>2, <3>2 DEF TablesOK, Or
    <3> HIDE DEF f, row
    <3>4. \E v \in Versions : \A x \in Versions :
             (Exists(f, x) /\ f[x].status = "published") = (x = v)
      BY <3>1, <3>2, <3>3 DEF TablesInv, OnePublished, Exists
    <3>5. \A v \in Versions : Exists(eulas, v) => v # q.version /\ f[v] = eulas[v] /\ Exists(f, v)
      BY <3>1, <3>3 DEF Exists
    <3>6. TablesStep
      BY <1>1, <3>1, <3>3, <3>4, <3>5, EulasStep
    <3>7. QED
      BY <2>1, <3>1, <3>6, Answers DEF Replies
  <2>5. QED
    BY <2>3, <2>4
<1>4. CASE ReadVersion(r)
  <2>1. UNCHANGED <<tables, faults>> /\ q.at = "read" /\ q.op = "eula"
    BY <1>4 DEF ReadVersion, At
  <2>2. CASE Answer(r, "404") \/ Answer(r, "400")
    BY <2>1, <2>2, AnswersAlone DEF Replies
  <2>3. CASE q.text = Null /\ Goto(r, "rpc")
    BY <2>1, <2>3, PublishGoesOn DEF Serves
  <2>4. CASE q.text # Null /\ Goto(r, "edit")
    <3> DEFINE n == [q EXCEPT !.at = "edit"]
    <3>1. /\ n.op = "eula" /\ n.at = "edit" /\ n.reply = q.reply
          /\ n.version = q.version /\ n.text = q.text
      BY <1>1, <2>1 DEF Request
    <3>2. q.text \in Texts
      BY <1>1, <2>4 DEF Request, Or
    <3> HIDE DEF n
    <3>3. RequestOK(n)
      BY <1>1, <2>1, <3>1, <3>2 DEF RequestOK, Serves
    <3>4. TablesStep /\ faults' \in 0..MaxFaults
      BY <2>1, NothingElse
    <3>5. QED
      BY <2>4, <3>3, <3>4, Continues DEF n, Labels
  <2>5. QED
    BY <1>4, <2>2, <2>3, <2>4 DEF ReadVersion
<1>5. CASE UpdateDraft(r)
  <2> DEFINE row == [eulas[q.version] EXCEPT !.text = q.text]
             f == [eulas EXCEPT ![q.version] = row]
  <2>1. faults' \in 0..MaxFaults /\ q.op = "eula" /\ q.at = "edit"
    BY <1>5, RequestTyped DEF UpdateDraft, At
  <2>2. q.version \in Versions /\ q.text \in Texts
    BY <1>1, <2>1 DEF RequestOK
  <2>3. CASE Answer(r, "404") /\ UNCHANGED tables
    BY <1>1, <2>1, <2>3, NothingWritten, Answers DEF Replies
  <2>4. CASE ~(Answer(r, "404") /\ UNCHANGED tables)
    <3>1. IsDraft(q.version) /\ SetEulas(f) /\ Answer(r, "ok")
      BY <1>5, <2>4 DEF UpdateDraft
    <3>2. eulas[q.version] \in Eula /\ eulas[q.version].status = "draft"
      BY <1>2, <2>2, <3>1 DEF IsDraft
    <3>3. row \in Eula /\ row.status = "draft" /\ row # Null
      BY <2>2, <3>2 DEF Eula
    <3>4. f \in [Versions -> Or(Eula)] /\ f[q.version] = row
          /\ \A v \in Versions \ {q.version} : f[v] = eulas[v]
      BY <1>1, <2>2, <3>3 DEF TablesOK, Or
    <3> HIDE DEF f, row
    <3>5. \E v \in Versions : \A x \in Versions :
             (Exists(f, x) /\ f[x].status = "published") = (x = v)
      BY <3>2, <3>3, <3>4 DEF TablesInv, OnePublished, Exists
    <3>6. \A v \in Versions : Exists(eulas, v) =>
             Exists(f, v) /\ (eulas[v].status # "draft" => f[v] = eulas[v])
      BY <3>2, <3>3, <3>4 DEF Exists
    <3>7. TablesStep
      BY <1>1, <3>1, <3>4, <3>5, <3>6, EulasStep
    <3>8. QED
      BY <2>1, <3>1, <3>7, Answers DEF Replies
  <2>5. QED
    BY <2>3, <2>4
<1>6. CASE PublishRpc(r)
  <2>1. UNCHANGED <<tables, faults>> /\ q.at = "rpc" /\ q.op = "eula"
    BY <1>6 DEF PublishRpc, At
  <2>2. CASE Answer(r, "400")
    BY <2>1, <2>2, AnswersAlone DEF Replies
  <2>3. CASE Goto(r, "snapshot")
    <3>1. q.text = Null /\ (~Answer(r, "400") => Exists(eulas, q.version))
      BY <1>1, <1>6, <2>1 DEF RequestOK, PublishRpc, IsDraft
    <3>2. QED
      BY <2>1, <2>2, <2>3, <3>1, PublishGoesOn
  <2>4. QED
    BY <1>6, <2>2, <2>3 DEF PublishRpc
<1>7. CASE FindPublished(r)
  <2>1. UNCHANGED <<tables, faults>> /\ q.at = "snapshot" /\ q.op = "eula"
    BY <1>7 DEF FindPublished, At
  <2>2. PICK p \in Or(Versions) : rq' = [rq EXCEPT ![r].prior = p, ![r].at = "swap"]
    BY <1>7 DEF FindPublished, Or
  <2> DEFINE n == [q EXCEPT !.prior = p, !.at = "swap"]
  <2>3. /\ n \in Request /\ n.op = "eula" /\ n.at = "swap" /\ n.version = q.version
        /\ n.text = q.text /\ n.reply = q.reply
    BY <1>1, <2>1 DEF Request, Labels
  <2>4. rq' = [rq EXCEPT ![r] = n]
    BY <1>1, <2>2
  <2> HIDE DEF n
  <2>5. RequestOK(n)
    BY <1>1, <2>1, <2>3 DEF RequestOK, Serves
  <2>6. QED
    BY <2>1, <2>3, <2>4, <2>5, MovesAlone
<1>8. CASE Swap(r)
  <2>1. faults' \in 0..MaxFaults
    BY <1>8, RequestTyped DEF Swap
  <2>2. CASE Answer(r, "error") /\ UNCHANGED tables
    BY <1>1, <2>1, <2>2, NothingWritten, Answers DEF Replies
  <2>3. CASE ~(Answer(r, "error") /\ UNCHANGED tables)
    BY <1>1, <1>8, <2>1, <2>3, SwapWrites, Answers DEF Swap, Replies, TypeInv
  <2>4. QED
    BY <2>2, <2>3
<1>9. QED
  BY <1>3, <1>4, <1>5, <1>6, <1>7, <1>8

-----------------------------------------------------------------------------
(* The invariant                                                           *)

LEMMA InitInv == Init => Inv
<1> SUFFICES ASSUME Init PROVE Inv
  OBVIOUS
<1>1. /\ codes \in [Codes -> Or({i \in Invitation : i.by = Null})]
      /\ profiles \in [Users -> Or({p \in Profile : p.code = Null})]
      /\ subs \in [Addresses -> Or({s \in Submission : s.code = Null})]
      /\ eulas \in [Versions -> Or(Eula)]
  BY StartAssumption DEF Init
<1>2. TablesOK
  BY <1>1, StartAssumption DEF Init, TablesOK, Or
<1>3. rq \in [Requests -> Request] /\ \A r \in Requests : RequestOK(rq[r])
  BY IdleTyped DEF Init, RequestOK, Serves, Idle
<1>4. TypeInv
  BY <1>2, <1>3, BoundsAssumption DEF Init, TypeInv, TypeOK, TablesOK, RequestsInv
<1>5. IssuedOnce
  BY DEF Init, IssuedOnce, Exists
<1>6. WavesNamed
  BY <1>1, StartAssumption DEF Init, WavesNamed, Backed, Or, Exists
<1>7. OnePublished
  BY StartAssumption DEF Init, OnePublished, Exists
<1>8. ProfileMatchesInvitation
  BY <1>1 DEF ProfileMatchesInvitation, Exists, Or
<1>9. QED
  BY <1>4, <1>5, <1>6, <1>7, <1>8 DEF Inv, TablesInv

LEMMA NextStep ==
    ASSUME TypeInv, TablesInv, Next
    PROVE  Step
<1>1. PICK r \in Requests : Arrive(r) \/ Handle(r) \/ CallRaises(r)
  BY DEF Next
<1>2. CASE Arrive(r)
  BY <1>1, <1>2, ArriveStep
<1>3. CASE Handle(r)
  BY <1>1, <1>3, IssueSteps, ClaimSteps, RemoveSteps, WaitlistSteps, EulaSteps DEF Handle
<1>4. CASE CallRaises(r)
  <2>1. UNCHANGED tables /\ Answer(r, "error") /\ faults < MaxFaults /\ faults' = faults + 1
    BY <1>4 DEF CallRaises
  <2>2. TablesOK /\ faults \in 0..MaxFaults
    BY <1>1, RequestTyped
  <2>3. TablesStep /\ faults' \in 0..MaxFaults
    BY <2>1, <2>2, NothingWritten, BoundsAssumption
  <2>4. QED
    BY <1>1, <2>1, <2>3, Answers DEF Replies
<1>5. QED
  BY <1>1, <1>2, <1>3, <1>4

LEMMA InvStep == Inv /\ [Next]_authVars => Inv' /\ Keeps
<1> SUFFICES ASSUME Inv, [Next]_authVars PROVE Inv' /\ Keeps
  OBVIOUS
<1>1. CASE Next
  BY <1>1, NextStep DEF Inv, Step, TablesStep
<1>2. CASE UNCHANGED authVars
  <2>1. UNCHANGED <<tables, faults>> /\ UNCHANGED rq
    BY <1>2 DEF authVars, tables
  <2>2. TablesStep /\ faults' \in 0..MaxFaults
    BY <2>1, NothingElse DEF Inv
  <2>3. RequestsInv'
    <3>1. ASSUME NEW r \in Requests PROVE RequestOK(rq[r])'
      <4> PICK p : p = rq[r]
        OBVIOUS
      <4>1. p \in Request /\ RequestOK(p) /\ TablesOK
        BY <3>1, RequestTyped DEF Inv
      <4>2. RequestOK(p)'
        BY <2>2, <4>1, RequestKept DEF TablesStep
      <4>3. rq'[r] = p
        BY <2>1
      <4>4. QED
        BY <4>2, <4>3, HeldByNext
    <3>2. QED
      BY <3>1 DEF RequestsInv
  <2>4. rq' \in [Requests -> Request]
    BY <2>1 DEF Inv, TypeInv, TypeOK
  <2>5. QED
    BY <2>2, <2>3, <2>4, Combined DEF Inv, Step, TablesStep
<1>3. QED
  BY <1>1, <1>2

(* Every row of the account tables and every handler's locals keep their   *)
(* types, whatever requests interleave and fail.                           *)
THEOREM AccountsTypeCorrect == Spec => []TypeOK
<1>1. Inv => TypeOK
  BY DEF Inv, TypeInv
<1>2. QED
  BY <1>1, InitInv, InvStep, PTL DEF Spec

(* The profile of an invited user says what the invitation says, whoever   *)
(* removes cohorts and waves between the claim and the profile.            *)
THEOREM ProfilesMatch == Spec => []ProfileMatchesInvitation
<1>1. Inv => ProfileMatchesInvitation
  BY DEF Inv, TablesInv
<1>2. QED
  BY <1>1, InitInv, InvStep, PTL DEF Spec

(* A claimed code is not claimed again, deleted or changed.                *)
THEOREM ClaimsAreFinal == Spec => ClaimIsFinal
<1>1. Keeps => [\A k \in Codes : Exists(codes, k) /\ codes[k].by # Null =>
          /\ Exists(codes', k)
          /\ codes'[k].by = codes[k].by
          /\ codes'[k].type = codes[k].type]_authVars
  BY DEF Keeps
<1>2. QED
  BY <1>1, InitInv, InvStep, PTL DEF Spec, ClaimIsFinal

-----------------------------------------------------------------------------
(* Codes are spent for profiles                                            *)

(* A step of r that neither claims a code nor ends a signup under way.     *)
NoNewClaim == \A k \in Codes : Exists(codes', k) /\ codes'[k].by # Null =>
                  Exists(codes, k) /\ codes[k].by = codes'[k].by
Quiet(r) == /\ rq[r].at \notin {"provision", "done"}
            /\ NoNewClaim
            /\ \A x \in Requests \ {r} : rq'[x] = rq[x]

LEMMA OneMoves ==
    ASSUME TypeInv, NEW r \in Requests,
           (\E text : Answer(r, text)) \/ (\E label : Goto(r, label)) \/ (\E q : Begin(r, q))
    PROVE  \A x \in Requests \ {r} : rq'[x] = rq[x]
  BY RequestTyped DEF Answer, Goto, Begin

LEMMA QuietArrival ==
    ASSUME TypeInv, NEW r \in Requests, Arrive(r)
    PROVE  Quiet(r)
<1>1. rq[r] = Idle /\ codes' = codes
  BY DEF Arrive, Issue, InviteFromWaitlist, Claim, ClaimForSignup, SignupWithInvitation, Revoke,
         CreateCohort, RemoveCohort, RemoveWave, CreateWave, Submit, PatchSubmission,
         CreateDraft, CopyVersion, EditDraft, Publish, Begin, tables
<1>2. (\E text : Answer(r, text)) \/ (\E q : Begin(r, q))
  BY DEF Arrive, Issue, InviteFromWaitlist, Claim, ClaimForSignup, SignupWithInvitation, Revoke,
         CreateCohort, RemoveCohort, RemoveWave, CreateWave, Submit, PatchSubmission,
         CreateDraft, CopyVersion, EditDraft, Publish
<1>3. \A x \in Requests \ {r} : rq'[x] = rq[x]
  BY <1>2, OneMoves
<1>4. rq[r].at = "idle"
  <2>1. Idle.at = "idle"
    BY DEF Idle
  <2>2. QED
    BY <1>1, <2>1
<1>5. QED
  BY <1>1, <1>3, <1>4 DEF Quiet, NoNewClaim, Exists

LEMMA QuietWrites ==
    ASSUME TypeInv,
           \/ codes' = codes
           \/ \E k \in Codes : \E to, type, cohort, wave : InsertCode(k, to, type, cohort, wave)
           \/ \E k \in Codes : DeleteUnclaimed(k)
           \/ \E c \in Cohorts : DeleteCohort(c)
           \/ \E w \in Waves : DeleteWave(w)
    PROVE  NoNewClaim
<1>1. codes \in [Codes -> Or(Invitation)]
  BY DEF TypeInv, TypeOK
<1>2. CASE codes' = codes
  BY <1>2 DEF NoNewClaim, Exists
<1>3. ASSUME NEW k \in Codes, NEW to, NEW type, NEW cohort, NEW wave,
             InsertCode(k, to, type, cohort, wave)
      PROVE  NoNewClaim
  BY <1>1, <1>3 DEF InsertCode, NoNewClaim, Exists
<1>4. ASSUME NEW k \in Codes, DeleteUnclaimed(k) PROVE NoNewClaim
  BY <1>1, <1>4 DEF DeleteUnclaimed, NoNewClaim, Exists, tables
<1>5. ASSUME NEW c \in Cohorts, DeleteCohort(c) PROVE NoNewClaim
  <2>1. codes' = Unset(codes, "cohort", c)
    BY <1>5 DEF DeleteCohort
  <2>2. QED
    BY <1>1, <2>1, UnsetCodes DEF NoNewClaim, Exists
<1>6. ASSUME NEW w \in Waves, DeleteWave(w) PROVE NoNewClaim
  <2>1. codes' = Unset(codes, "wave", w)
    BY <1>6 DEF DeleteWave
  <2>2. QED
    BY <1>1, <2>1, UnsetCodes DEF NoNewClaim, Exists
<1>7. QED
  BY <1>2, <1>3, <1>4, <1>5, <1>6

LEMMA QuietHandling ==
    ASSUME TypeInv, NEW r \in Requests, Handle(r), ~TakeCode(r), ~Provision(r)
    PROVE  Quiet(r)
<1> DEFINE q == rq[r]
<1>1. q \in Request /\ RequestOK(q) /\ rq \in [Requests -> Request]
  BY RequestTyped
<1>2. ASSUME NEW text, Answer(r, text) \/ Goto(r, text)
      PROVE  \A x \in Requests \ {r} : rq'[x] = rq[x]
  BY <1>2, OneMoves
<1>3. CASE CheckCohort(r) \/ CheckWave(r) \/ LookupIssued(r) \/ GenerateCode(r)
           \/ ReadSubmission(r) \/ AlreadyLinked(r)
  <2>1. codes' = codes /\ q.at \notin {"provision", "done"}
    BY <1>3 DEF CheckCohort, CheckWave, LookupIssued, GenerateCode, ReadSubmission,
                AlreadyLinked, At, tables
  <2>2. NoNewClaim
    BY <2>1, QuietWrites
  <2>3. \A x \in Requests \ {r} : rq'[x] = rq[x]
    BY <1>1, <1>2, <1>3 DEF CheckCohort, CheckWave, LookupIssued, GenerateCode, ReadSubmission,
                            AlreadyLinked
  <2>4. QED
    BY <2>1, <2>2, <2>3 DEF Quiet
<1>4. CASE CreateCode(r)
  <2>1. q.at = "insert" /\ q.op \in {"issue", "invite"}
    BY <1>4 DEF CreateCode
  <2>2. q.code \in Codes
    BY <1>1, <2>1 DEF RequestOK
  <2>3. NoNewClaim
    BY <1>4, <2>2, QuietWrites DEF CreateCode, tables
  <2>4. QED
    BY <1>2, <1>4, <2>1, <2>3 DEF CreateCode, Quiet
<1>5. CASE Link(r)
  <2>1. codes' = codes /\ q.at \notin {"provision", "done"}
    BY <1>5 DEF Link, At, LinkSubmission, SetSubmission, tables
  <2>2. NoNewClaim
    BY <2>1, QuietWrites
  <2>3. QED
    BY <1>2, <1>5, <2>1, <2>2 DEF Link, Quiet
<1>6. CASE RequireProfile(r) \/ ValidateCode(r) \/ CheckUnclaimed(r)
  <2>1. codes' = codes /\ q.at \notin {"provision", "done"}
    BY <1>6 DEF RequireProfile, ValidateCode, CheckUnclaimed, At, tables
  <2>2. NoNewClaim
    BY <2>1, QuietWrites
  <2>3. QED
    BY <1>2, <1>6, <2>1, <2>2 DEF RequireProfile, ValidateCode, CheckUnclaimed, Quiet
<1>7. CASE DeleteCode(r)
  <2>1. q.at = "delete" /\ q.op = "revoke"
    BY <1>7 DEF DeleteCode, At
  <2>2. q.code \in Codes
    BY <1>1, <2>1 DEF RequestOK
  <2>3. NoNewClaim
    BY <1>7, <2>2, QuietWrites DEF DeleteCode
  <2>4. QED
    BY <1>2, <1>7, <2>1, <2>3 DEF DeleteCode, Quiet
<1>8. CASE CheckExists(r) \/ CheckReferences(r) \/ CheckWaveKey(r)
  <2>1. codes' = codes /\ q.at \notin {"provision", "done"}
    BY <1>8 DEF CheckExists, CheckReferences, CheckWaveKey, At, tables
  <2>2. NoNewClaim
    BY <2>1, QuietWrites
  <2>3. QED
    BY <1>2, <1>8, <2>1, <2>2 DEF CheckExists, CheckReferences, CheckWaveKey, Quiet
<1>9. CASE Remove(r)
  <2>1. q.at = "remove" /\ q.op = "drop"
    BY <1>9 DEF Remove, At
  <2>2. q.wave \in Waves \/ (q.wave = Null /\ q.cohort \in Cohorts)
    BY <1>1, <2>1 DEF RequestOK
  <2>3. NoNewClaim
    BY <1>9, <2>2, QuietWrites DEF Remove
  <2>4. QED
    BY <1>2, <1>9, <2>1, <2>3 DEF Remove, Quiet
<1>10. CASE CreateWaveRow(r) \/ LookupEmail(r) \/ Persist(r) \/ CheckPatchWave(r)
            \/ UpdateSubmission(r)
  <2>1. codes' = codes /\ q.at \notin {"provision", "done"}
    BY <1>10 DEF CreateWaveRow, LookupEmail, Persist, CheckPatchWave, UpdateSubmission, At,
                 InsertWave, SetSubmission, tables
  <2>2. NoNewClaim
    BY <2>1, QuietWrites
  <2>3. \A x \in Requests \ {r} : rq'[x] = rq[x]
    BY <1>1, <1>2, <1>10 DEF CreateWaveRow, LookupEmail, Persist, CheckPatchWave,
                             UpdateSubmission
  <2>4. QED
    BY <2>1, <2>2, <2>3 DEF Quiet
<1>11. CASE \/ InsertDraft(r) \/ ReadVersion(r) \/ UpdateDraft(r)
            \/ PublishRpc(r) \/ FindPublished(r) \/ Swap(r)
  <2>1. codes' = codes /\ q.at \notin {"provision", "done"}
    BY <1>11 DEF InsertDraft, ReadVersion, UpdateDraft, PublishRpc, FindPublished, Swap, At,
                 SetEulas, tables
  <2>2. NoNewClaim
    BY <2>1, QuietWrites
  <2>3. QED
    BY <1>1, <1>2, <1>11, <2>1, <2>2 DEF InsertDraft, ReadVersion, UpdateDraft, PublishRpc,
                                         FindPublished, Swap, Quiet
<1>12. QED
  BY <1>3, <1>4, <1>5, <1>6, <1>7, <1>8, <1>9, <1>10, <1>11 DEF Handle

(* The signup under way, or ended by a raising call, for a claimed code.   *)
Pending(k, x) == /\ rq[x].op = "signup" /\ rq[x].code = k /\ rq[x].user = codes[k].by
                 /\ rq[x].at = "provision" \/ rq[x].reply = "error"

LEMMA AnsweredSignup ==
    ASSUME TypeInv, NEW r \in Requests, rq[r].op = "signup", Answer(r, "error")
    PROVE  /\ rq'[r].op = "signup" /\ rq'[r].user = rq[r].user /\ rq'[r].code = rq[r].code
           /\ rq'[r].reply = "error"
<1> PICK p : p = rq[r]
  OBVIOUS
<1> DEFINE done == [Idle EXCEPT !.at = "done", !.reply = "error"]
<1>1. rq'[r] = [done EXCEPT !.op = "signup", !.user = p.user, !.code = p.code]
  BY RequestTyped DEF Answer
<1>2. done \in Request /\ done.reply = "error"
  BY IdleTyped DEF Request, Idle, Labels, Replies
<1> HIDE DEF done
<1>3. QED
  BY <1>1, <1>2 DEF Request

LEMMA ClaimedStep ==
    ASSUME Inv, ClaimedHasProfile, Next
    PROVE  ClaimedHasProfile'
<1>1. TypeInv /\ TablesInv /\ Keeps /\ TablesOK /\ TablesOK'
  BY NextStep, RequestTyped DEF Inv, Step, TablesStep, TypeInv, TypeOK, TablesOK
<1>2. PICK r \in Requests : Arrive(r) \/ Handle(r) \/ CallRaises(r)
  BY DEF Next
<1>3. \A k \in Codes : Exists(codes, k) /\ codes[k].by # Null =>
          codes[k].by \in Users
  BY <1>1 DEF TablesOK, Exists, Or, Invitation
<1>4. \A k \in Codes : Exists(codes, k) /\ codes[k].by # Null =>
          codes'[k].by = codes[k].by /\ (Exists(profiles, codes[k].by) => Exists(profiles', codes[k].by))
  BY <1>1, <1>3 DEF Keeps
<1>5. ASSUME NEW k \in Codes, Exists(codes, k), codes[k].by # Null,
             \A x \in Requests : Pending(k, x) =>
                 (\E y \in Requests : Pending(k, y)') \/ Exists(profiles', codes[k].by)
      PROVE  Exists(profiles', codes'[k].by) \/ \E y \in Requests : Pending(k, y)'
  BY <1>4, <1>5 DEF ClaimedHasProfile, Pending
<1>6. ASSUME NEW k \in Codes, Exists(codes, k), codes[k].by # Null, NEW x \in Requests \ {r},
             Pending(k, x), rq'[x] = rq[x]
      PROVE  Pending(k, x)'
  BY <1>4, <1>6 DEF Pending
<1>7. CASE Quiet(r)
  <2>1. ASSUME NEW k \in Codes, Exists(codes', k), codes'[k].by # Null
        PROVE  Exists(profiles', codes'[k].by) \/ \E y \in Requests : Pending(k, y)'
    <3>1. Exists(codes, k) /\ codes[k].by # Null
      BY <1>7, <2>1 DEF Quiet, NoNewClaim
    <3>2. ~Pending(k, r)
      BY <1>2, <1>7, <1>1, RequestTyped DEF Quiet, Pending, RequestOK
    <3>3. QED
      BY <1>5, <1>6, <1>7, <3>1, <3>2 DEF Quiet
  <2>2. QED
    BY <2>1 DEF ClaimedHasProfile, Pending, Exists
<1>8. CASE TakeCode(r)
  <2> DEFINE q == rq[r]
  <2>1. /\ q \in Request /\ RequestOK(q) /\ q.at = "claim" /\ ClaimCode(q.code, q.user)
        /\ q.op \in {"claim", "signup"}
    BY <1>1, <1>8, RequestTyped DEF TakeCode, RequestOK, Serves
  <2>2. /\ q.code \in Codes /\ q.user \in Users
        /\ ~Pending(q.code, r)
    BY <2>1 DEF RequestOK, Pending
  <2>3. \A x \in Requests \ {r} : rq'[x] = rq[x]
    BY <1>1, <1>8, OneMoves, RequestTyped DEF TakeCode
  <2>4. ASSUME NEW k \in Codes, Exists(codes', k), codes'[k].by # Null
        PROVE  Exists(profiles', codes'[k].by) \/ \E y \in Requests : Pending(k, y)'
    <3>1. CASE Exists(codes, k) /\ codes[k].by # Null
      <4>1. ~Pending(k, r)
        BY <2>1 DEF RequestOK, Pending
      <4>2. QED
        BY <1>5, <1>6, <2>3, <3>1, <4>1
    <3>2. CASE ~(Exists(codes, k) /\ codes[k].by # Null)
      <4>1. k = q.code /\ Claimable(k) /\ codes'[k] = [codes[k] EXCEPT !.by = q.user]
            /\ codes[k] \in Invitation
        <5>1. codes' # codes
          BY <2>4, <3>2 DEF Exists
        <5>2. Claimable(q.code) /\ codes' = [codes EXCEPT ![q.code].by = q.user]
          BY <2>1, <5>1 DEF ClaimCode
        <5>3. k = q.code
          BY <1>1, <2>4, <3>2, <5>2 DEF TablesOK, Exists
        <5>4. codes[k] \in Invitation
          BY <1>1, <5>2, <5>3 DEF TablesOK, Claimable, Exists, Or
        <5>5. QED
          BY <1>1, <5>2, <5>3, <5>4 DEF TablesOK
      <4>2. codes'[k].by = q.user
        BY <4>1 DEF Invitation
      <4>3. CASE q.op = "claim"
        BY <1>1, <2>1, <2>2, <4>2, <4>3 DEF RequestOK, Keeps
      <4>4. CASE q.op = "signup"
        <5>1. rq' = [rq EXCEPT ![r].at = "provision", ![r].row = codes[q.code]]
          BY <1>8, <4>1, <4>4 DEF TakeCode
        <5>2. rq \in [Requests -> Request]
          BY <1>1, RequestTyped
        <5>3. /\ rq'[r].at = "provision" /\ rq'[r].op = "signup" /\ rq'[r].user = q.user
              /\ rq'[r].code = k
          BY <2>1, <4>1, <4>4, <5>1, <5>2 DEF Request
        <5>4. Pending(k, r)'
          BY <4>2, <5>3 DEF Pending
        <5>5. QED
          BY <5>4
      <4>5. QED
        BY <2>1, <4>3, <4>4
    <3>3. QED
      BY <3>1, <3>2
  <2>5. QED
    BY <2>4 DEF ClaimedHasProfile, Pending, Exists
<1>9. CASE Provision(r) \/ CallRaises(r)
  <2> DEFINE q == rq[r]
  <2>1. q \in Request /\ RequestOK(q) /\ q.at # "done"
    BY <1>1, <1>9, RequestTyped DEF Provision, CallRaises, At
  <2>2. codes' = codes
    BY <1>9 DEF Provision, CallRaises, UpsertProfile, tables
  <2>3. \A x \in Requests \ {r} : rq'[x] = rq[x]
    BY <1>1, <1>9, OneMoves DEF Provision, CallRaises
  <2>4. ASSUME NEW k \in Codes, Exists(codes, k), codes[k].by # Null, Pending(k, r)
        PROVE  Pending(k, r)' \/ Exists(profiles', codes[k].by)
    <3>1. q.op = "signup" /\ q.code = k /\ q.user = codes[k].by /\ q.user \in Users
      BY <2>1, <2>4 DEF Pending, RequestOK
    <3>2. CASE Answer(r, "error")
      <4>1. /\ rq'[r].op = "signup" /\ rq'[r].user = q.user /\ rq'[r].code = q.code
            /\ rq'[r].reply = "error"
        BY <1>1, <3>1, <3>2, AnsweredSignup
      <4>2. QED
        BY <2>2, <3>1, <4>1 DEF Pending
    <3>3. CASE ~Answer(r, "error")
      <4>1. UpsertProfile(q.user, q.code, q.row) /\ Granted(q)
        BY <1>9, <2>1, <3>3 DEF Provision, CallRaises, RequestOK, At
      <4>2. profiles' = [profiles EXCEPT ![q.user] = [type |-> q.row.type, code |-> q.code,
                             cohort |-> q.row.cohort, wave |-> q.row.wave]]
        BY <4>1 DEF UpsertProfile
      <4>3. [type |-> q.row.type, code |-> q.code, cohort |-> q.row.cohort,
             wave |-> q.row.wave] \in Profile
        BY <2>1, <3>1, <4>1 DEF Granted, Invitation, Profile, Or
      <4>4. QED
        BY <1>1, <3>1, <4>2, <4>3 DEF TablesOK, Exists
    <3>4. QED
      BY <3>2, <3>3
  <2>5. ASSUME NEW k \in Codes, Exists(codes', k), codes'[k].by # Null
        PROVE  Exists(profiles', codes'[k].by) \/ \E y \in Requests : Pending(k, y)'
    <3>1. Exists(codes, k) /\ codes[k].by # Null
      BY <2>2, <2>5 DEF Exists
    <3>2. QED
      BY <1>5, <1>6, <2>3, <2>4, <3>1
  <2>6. QED
    BY <2>5 DEF ClaimedHasProfile, Pending, Exists
<1>10. QED
  BY <1>1, <1>2, <1>7, <1>8, <1>9, QuietArrival, QuietHandling

(* Whoever claimed a code has a profile, is about to get it, or had a call *)
(* fail on the way.                                                        *)
THEOREM ClaimsBuyProfiles == Spec => []ClaimedHasProfile
<1>1. Init => ClaimedHasProfile
  <2> SUFFICES ASSUME Init PROVE ClaimedHasProfile
    OBVIOUS
  <2>1. codes \in [Codes -> Or({i \in Invitation : i.by = Null})]
    BY StartAssumption DEF Init
  <2>2. QED
    BY <2>1 DEF ClaimedHasProfile, Exists, Or
<1>2. Inv /\ ClaimedHasProfile /\ [Next]_authVars => ClaimedHasProfile'
  <2> SUFFICES ASSUME Inv, ClaimedHasProfile, [Next]_authVars PROVE ClaimedHasProfile'
    OBVIOUS
  <2>1. CASE UNCHANGED authVars
    BY <2>1 DEF ClaimedHasProfile, authVars, Exists
  <2>2. QED
    BY <2>1, ClaimedStep
<1>3. QED
  BY <1>1, <1>2, InitInv, InvStep, PTL DEF Spec
-----------------------------------------------------------------------------
(* A version is published again only by one of two overlapping publishes   *)

(* r has published v.                                                      *)
Did(r, v) == /\ rq[r].op = "eula" /\ rq[r].at = "done"
             /\ rq[r].version = v /\ rq[r].reply = "ok"

Swapping(r) == rq[r].op = "eula" /\ rq[r].at \in {"snapshot", "swap"}

(* A publish that passed the check of the status and finds that its        *)
(* version is no draft any more was overtaken by another publish of it.    *)
Overtaken == \A r \in Requests : Swapping(r) =>
    \/ eulas[rq[r].version].status = "draft"
    \/ \E s \in Requests : Did(s, rq[r].version)

(* Only the end of a publish changes the status of a row.                  *)
SameStatus == \A v \in Versions : Exists(eulas, v) => eulas'[v].status = eulas[v].status

LEMMA Answered ==
    ASSUME TypeInv, NEW r \in Requests, NEW text, Answer(r, text)
    PROVE  rq'[r].at = "done"
<1> PICK p : p = rq[r]
  OBVIOUS
<1> DEFINE done == [Idle EXCEPT !.at = "done", !.reply = text]
           q == IF p.op = "signup"
                THEN [done EXCEPT !.op = "signup", !.user = p.user, !.code = p.code]
                ELSE IF p.op = "eula" /\ p.text = Null
                THEN [done EXCEPT !.op = "eula", !.version = p.version] ELSE done
<1>1. rq'[r] = q
  BY RequestTyped DEF Answer, Publishes
<1>2. q.at = "done"
  BY DEF Idle
<1>3. QED
  BY <1>1, <1>2

LEMMA ArrivalsSwapNothing ==
    ASSUME TypeInv, NEW r \in Requests, Arrive(r)
    PROVE  ~Swapping(r)'
<1>1. rq \in [Requests -> Request]
  BY RequestTyped
<1>2. ASSUME NEW text, Answer(r, text) PROVE ~Swapping(r)'
  BY <1>1, <1>2, Answered DEF Swapping
<1>3. ASSUME NEW q, Begin(r, q), q.at \notin {"snapshot", "swap"} PROVE ~Swapping(r)'
  BY <1>1, <1>3 DEF Begin, Swapping
<1>4. CASE Issue(r) \/ InviteFromWaitlist(r) \/ Claim(r) \/ ClaimForSignup(r) \/ Revoke(r)
  BY <1>3, <1>4 DEF Issue, InviteFromWaitlist, Claim, ClaimForSignup, Revoke, Idle
<1>5. CASE RemoveCohort(r) \/ RemoveWave(r) \/ CreateWave(r) \/ Submit(r) \/ PatchSubmission(r)
  BY <1>3, <1>5 DEF RemoveCohort, RemoveWave, CreateWave, Submit, PatchSubmission, Idle
<1>6. CASE CreateDraft(r) \/ CopyVersion(r) \/ EditDraft(r) \/ Publish(r)
  BY <1>3, <1>6 DEF CreateDraft, CopyVersion, EditDraft, Publish, Idle
<1>7. QED
  BY <1>2, <1>4, <1>5, <1>6 DEF Arrive, SignupWithInvitation, CreateCohort

LEMMA OthersSwapNothing ==
    ASSUME TypeInv, NEW r \in Requests, Handle(r), ~PublishRpc(r), ~FindPublished(r)
    PROVE  ~Swapping(r)'
<1>1. rq \in [Requests -> Request] /\ rq[r] \in Request
  BY RequestTyped
<1>2. ASSUME NEW text, Answer(r, text) PROVE ~Swapping(r)'
  BY <1>1, <1>2, Answered DEF Swapping
<1>3. ASSUME NEW label, Goto(r, label), label \notin {"snapshot", "swap"} PROVE ~Swapping(r)'
  <2>1. rq'[r].at = label
    BY <1>1, <1>3 DEF Goto, Request
  <2>2. QED
    BY <1>3, <2>1 DEF Swapping
<1>4. CASE CheckCohort(r) \/ CheckWave(r) \/ CreateCode(r) \/ AlreadyLinked(r) \/ Link(r)
  BY <1>2, <1>3, <1>4 DEF CheckCohort, CheckWave, CreateCode, AlreadyLinked, Link
<1>5. CASE LookupIssued(r) \/ GenerateCode(r) \/ ReadSubmission(r)
  <2>1. \/ \E text : Answer(r, text)
        \/ Goto(r, "generate")
        \/ \E k : \/ rq' = [rq EXCEPT ![r].code = k, ![r].at = "link"]
                 \/ rq' = [rq EXCEPT ![r].code = k, ![r].at = "insert"]
                 \/ rq' = [rq EXCEPT ![r].code = k, ![r].at = "cohort"]
    BY <1>5 DEF LookupIssued, GenerateCode, ReadSubmission
  <2>2. ASSUME NEW k, \/ rq' = [rq EXCEPT ![r].code = k, ![r].at = "link"]
                     \/ rq' = [rq EXCEPT ![r].code = k, ![r].at = "insert"]
                     \/ rq' = [rq EXCEPT ![r].code = k, ![r].at = "cohort"]
        PROVE ~Swapping(r)'
    <3>1. rq'[r].at \in {"link", "insert", "cohort"}
      BY <1>1, <2>2 DEF Request
    <3>2. QED
      BY <3>1 DEF Swapping
  <2>3. QED
    BY <1>2, <1>3, <2>1, <2>2
<1>6. CASE RequireProfile(r) \/ ValidateCode(r) \/ Provision(r) \/ CheckUnclaimed(r) \/ DeleteCode(r)
  BY <1>2, <1>3, <1>6 DEF RequireProfile, ValidateCode, Provision, CheckUnclaimed, DeleteCode
<1>7. CASE TakeCode(r)
  <2>1. \/ \E text : Answer(r, text)
        \/ rq' = [rq EXCEPT ![r].at = "provision", ![r].row = codes[rq[r].code]]
    BY <1>7 DEF TakeCode
  <2>2. ASSUME NEW row, rq' = [rq EXCEPT ![r].at = "provision", ![r].row = row]
        PROVE  ~Swapping(r)'
    <3>1. rq'[r].at = "provision"
      BY <1>1, <2>2 DEF Request
    <3>2. QED
      BY <3>1 DEF Swapping
  <2>3. QED
    BY <1>2, <2>1, <2>2
<1>8. CASE CheckExists(r) \/ CheckReferences(r) \/ Remove(r) \/ CheckWaveKey(r) \/ CreateWaveRow(r)
  BY <1>2, <1>3, <1>8 DEF CheckExists, CheckReferences, Remove, CheckWaveKey, CreateWaveRow
<1>9. CASE LookupEmail(r)
  <2>1. PICK seen : rq' = [rq EXCEPT ![r].at = "persist", ![r].seen = seen]
    BY <1>9 DEF LookupEmail
  <2>2. rq'[r].at = "persist"
    BY <1>1, <2>1 DEF Request
  <2>3. QED
    BY <2>2 DEF Swapping
<1>10. CASE Persist(r) \/ CheckPatchWave(r) \/ UpdateSubmission(r)
  BY <1>2, <1>3, <1>10 DEF Persist, CheckPatchWave, UpdateSubmission
<1>11. CASE InsertDraft(r) \/ ReadVersion(r) \/ UpdateDraft(r) \/ Swap(r)
  BY <1>2, <1>3, <1>11 DEF InsertDraft, ReadVersion, UpdateDraft, Swap
<1>12. QED
  BY <1>4, <1>5, <1>6, <1>7, <1>8, <1>9, <1>10, <1>11 DEF Handle

LEMMA StatusKept ==
    ASSUME TypeInv, NEW r \in Requests, Arrive(r) \/ Handle(r) \/ CallRaises(r), ~Swap(r)
    PROVE  SameStatus
<1> DEFINE q == rq[r]
<1>1. q \in Request /\ RequestOK(q) /\ TablesOK
  BY RequestTyped
<1>2. ASSUME eulas' = eulas PROVE SameStatus
  BY <1>2 DEF SameStatus
<1>3. CASE Arrive(r)
  <2>1. eulas' = eulas
    BY <1>3 DEF Arrive, Issue, InviteFromWaitlist, Claim, ClaimForSignup, SignupWithInvitation,
         Revoke, CreateCohort, RemoveCohort, RemoveWave, CreateWave, Submit, PatchSubmission,
         CreateDraft, CopyVersion, EditDraft, Publish, Begin, tables
  <2>2. QED
    BY <1>2, <2>1
<1>4. CASE \/ CheckCohort(r) \/ CheckWave(r) \/ LookupIssued(r) \/ GenerateCode(r) \/ CreateCode(r)
           \/ ReadSubmission(r) \/ AlreadyLinked(r) \/ Link(r)
  <2>1. eulas' = eulas
    BY <1>4 DEF CheckCohort, CheckWave, LookupIssued, GenerateCode, CreateCode, ReadSubmission,
                AlreadyLinked, Link, InsertCode, LinkSubmission, SetSubmission, tables
  <2>2. QED
    BY <1>2, <2>1
<1>5. CASE \/ RequireProfile(r) \/ ValidateCode(r) \/ TakeCode(r) \/ Provision(r)
           \/ CheckUnclaimed(r) \/ DeleteCode(r)
  <2>1. eulas' = eulas
    BY <1>5 DEF RequireProfile, ValidateCode, TakeCode, Provision, CheckUnclaimed, DeleteCode,
                ClaimCode, UpsertProfile, DeleteUnclaimed, tables
  <2>2. QED
    BY <1>2, <2>1
<1>6. CASE \/ CheckExists(r) \/ CheckReferences(r) \/ Remove(r) \/ CheckWaveKey(r)
           \/ CreateWaveRow(r)
  <2>1. eulas' = eulas
    BY <1>6 DEF CheckExists, CheckReferences, Remove, CheckWaveKey, CreateWaveRow, DeleteCohort,
                DeleteWave, InsertWave, tables
  <2>2. QED
    BY <1>2, <2>1
<1>7. CASE LookupEmail(r) \/ Persist(r) \/ CheckPatchWave(r) \/ UpdateSubmission(r)
  <2>1. eulas' = eulas
    BY <1>7 DEF LookupEmail, Persist, CheckPatchWave, UpdateSubmission, SetSubmission, tables
  <2>2. QED
    BY <1>2, <2>1
<1>8. CASE ReadVersion(r) \/ PublishRpc(r) \/ FindPublished(r) \/ CallRaises(r)
  <2>1. eulas' = eulas
    BY <1>8 DEF ReadVersion, PublishRpc, FindPublished, CallRaises, tables
  <2>2. QED
    BY <1>2, <2>1
<1>9. CASE InsertDraft(r)
  <2>1. q.version \in Versions
    BY <1>1, <1>9 DEF InsertDraft, At, RequestOK
  <2>2. QED
    BY <1>1, <1>2, <1>9, <2>1 DEF InsertDraft, SetEulas, SameStatus, TablesOK, Exists, tables
<1>10. CASE UpdateDraft(r)
  <2>1. q.version \in Versions
    BY <1>1, <1>10 DEF UpdateDraft, At, RequestOK
  <2>2. CASE eulas' = [eulas EXCEPT ![q.version].text = q.text]
    BY <1>1, <2>1, <2>2 DEF SameStatus, TablesOK, Exists, Or, Eula
  <2>3. QED
    BY <1>2, <1>10, <2>2 DEF UpdateDraft, SetEulas, tables
<1>11. QED
  BY <1>3, <1>4, <1>5, <1>6, <1>7, <1>8, <1>9, <1>10 DEF Handle

(* What the end of a publish does to the statuses, and its answer.         *)
LEMMA SwapStatus ==
    ASSUME TypeInv, NEW r \in Requests, Swap(r)
    PROVE  \/ SameStatus
           \/ /\ PublishedBy(r, rq[r].version)
              /\ \A v \in Versions \ {rq[r].version} : Exists(eulas, v) =>
                    \/ eulas'[v].status = eulas[v].status
                    \/ eulas'[v].status = "archived" /\ eulas[v].status = "published"
<1> DEFINE q == rq[r]
<1>1. /\ rq \in [Requests -> Request] /\ q \in Request /\ RequestOK(q) /\ TablesOK
      /\ q.op = "eula" /\ q.at = "swap" /\ q.text = Null
  BY RequestTyped DEF Swap, At, RequestOK
<1>2. CASE UNCHANGED tables
  BY <1>2 DEF tables, SameStatus
<1>3. CASE eulas' = Published(q.version, q.prior) /\ Answer(r, "ok")
  <2>1. PublishedBy(r, q.version)
    <3> PICK p : p = rq[r]
      OBVIOUS
    <3> DEFINE done == [Idle EXCEPT !.at = "done", !.reply = "ok"]
    <3>1. rq'[r] = [done EXCEPT !.op = "eula", !.version = p.version]
      BY <1>1, <1>3 DEF Answer, Publishes
    <3>2. done \in Request /\ done.reply = "ok" /\ done.at = "done"
      BY IdleTyped DEF Request, Idle, Labels, Replies
    <3> HIDE DEF done
    <3>3. QED
      BY <3>1, <3>2 DEF Request, PublishedBy
  <2>2. ASSUME NEW v \in Versions \ {q.version}, Exists(eulas, v)
        PROVE  \/ eulas'[v].status = eulas[v].status
               \/ eulas'[v].status = "archived" /\ eulas[v].status = "published"
    <3>1. eulas[v] \in Eula
      BY <1>1, <2>2 DEF TablesOK, Exists, Or
    <3>2. eulas'[v] = IF v = q.prior /\ IsPublished(v)
                      THEN [eulas[v] EXCEPT !.status = "archived"] ELSE eulas[v]
      BY <1>3, <2>2 DEF Published
    <3>3. QED
      BY <3>1, <3>2 DEF IsPublished, Eula
  <2>3. QED
    BY <2>1, <2>2
<1>4. QED
  BY <1>2, <1>3 DEF Swap, SetEulas

(* What a step says of the publishes.                                      *)
LEMMA PublishStep ==
    ASSUME Inv, Overtaken, Next
    PROVE  /\ Overtaken'
           /\ \A v \in Versions : Exists(eulas, v) /\ eulas[v].status = "archived"
                                   /\ eulas'[v].status = "published" =>
                  \E r, s \in Requests : r # s /\ PublishedBy(r, v) /\ PublishedBy(s, v)
<1>1. TypeInv /\ Keeps /\ TablesOK /\ TypeInv'
  BY NextStep, RequestTyped DEF Inv, Step, TablesStep, TypeInv, TypeOK, TablesOK
<1>2. PICK r \in Requests : Arrive(r) \/ Handle(r) \/ CallRaises(r)
  BY DEF Next
<1>3. rq[r].at # "done" /\ \A x \in Requests \ {r} : rq'[x] = rq[x]
  <2>1. CASE TakeCode(r) \/ Provision(r) \/ CallRaises(r)
    BY <1>1, <2>1, OneMoves, RequestTyped DEF TakeCode, Provision, CallRaises, At
  <2>2. CASE ~(TakeCode(r) \/ Provision(r) \/ CallRaises(r))
    BY <1>1, <1>2, <2>2, QuietArrival, QuietHandling DEF Quiet
  <2>3. QED
    BY <2>1, <2>2
<1>4. \A v \in Versions, s \in Requests : Did(s, v) => s # r /\ PublishedBy(s, v)
  BY <1>3 DEF Did, PublishedBy
<1>5. \A x \in Requests : Swapping(x) =>
          rq[x].version \in Versions /\ Exists(eulas, rq[x].version)
  BY <1>1 DEF TypeInv, RequestsInv, RequestOK, Swapping
<1>6. ASSUME NEW x \in Requests, Swapping(x),
             \/ eulas'[rq[x].version].status = "draft"
             \/ \E s \in Requests : PublishedBy(s, rq[x].version)
             \/ eulas'[rq[x].version].status = eulas[rq[x].version].status
      PROVE  \/ eulas'[rq[x].version].status = "draft"
             \/ \E s \in Requests : PublishedBy(s, rq[x].version)
  BY <1>4, <1>5, <1>6 DEF Overtaken
<1>7. CASE SameStatus
  <2>1. ASSUME NEW x \in Requests, Swapping(x)'
        PROVE  \/ eulas'[rq'[x].version].status = "draft"
               \/ \E s \in Requests : PublishedBy(s, rq'[x].version)
    <3>1. CASE x # r
      <4>1. Swapping(x) /\ rq'[x] = rq[x]
        BY <1>3, <2>1, <3>1 DEF Swapping
      <4>2. QED
        BY <1>5, <1>6, <1>7, <4>1 DEF SameStatus
    <3>2. CASE x = r
      <4>1. CASE PublishRpc(r)
        <5>1. Goto(r, "snapshot") /\ IsDraft(rq[r].version) /\ eulas' = eulas
          BY <1>1, <2>1, <3>2, <4>1, Answered DEF PublishRpc, Swapping, tables
        <5>2. rq'[r].version = rq[r].version
          BY <1>1, <5>1, RequestTyped DEF Goto, Request
        <5>3. QED
          BY <3>2, <5>1, <5>2 DEF IsDraft
      <4>2. CASE FindPublished(r)
        <5>1. PICK p : rq' = [rq EXCEPT ![r].prior = p, ![r].at = "swap"]
          BY <4>2 DEF FindPublished
        <5>2. rq'[r].version = rq[r].version
          BY <1>1, <5>1, RequestTyped DEF Request
        <5>3. Swapping(r)
          BY <4>2 DEF FindPublished, At, Swapping
        <5>4. QED
          BY <1>5, <1>6, <1>7, <3>2, <5>2, <5>3 DEF SameStatus
      <4>3. CASE ~PublishRpc(r) /\ ~FindPublished(r)
        <5>1. ~CallRaises(r)
          BY <1>1, <2>1, <3>2, Answered DEF CallRaises, Swapping
        <5>2. QED
          BY <1>1, <1>2, <2>1, <3>2, <4>3, <5>1, ArrivalsSwapNothing, OthersSwapNothing
      <4>4. QED
        BY <4>1, <4>2, <4>3
    <3>3. QED
      BY <3>1, <3>2
  <2>2. QED
    BY <1>7, <2>1 DEF Overtaken, Did, PublishedBy, SameStatus
<1>8. CASE ~SameStatus
  <2>1. Swap(r)
    BY <1>1, <1>2, <1>8, StatusKept
  <2>2. /\ PublishedBy(r, rq[r].version) /\ Swapping(r)
        /\ \A v \in Versions \ {rq[r].version} : Exists(eulas, v) =>
              \/ eulas'[v].status = eulas[v].status
              \/ eulas'[v].status = "archived" /\ eulas[v].status = "published"
    BY <1>1, <1>8, <2>1, SwapStatus DEF Swap, At, Swapping
  <2>3. ASSUME NEW x \in Requests, Swapping(x)'
        PROVE  \/ eulas'[rq'[x].version].status = "draft"
               \/ \E s \in Requests : PublishedBy(s, rq'[x].version)
    <3>1. x # r
      BY <2>2, <2>3 DEF Swapping, PublishedBy
    <3>2. Swapping(x) /\ rq'[x] = rq[x]
      BY <1>3, <2>3, <3>1 DEF Swapping
    <3>3. CASE rq[x].version = rq[r].version
      BY <2>2, <3>2, <3>3
    <3>4. CASE eulas[rq[x].version].status # "draft"
      BY <1>5, <1>6, <3>2, <3>4, <1>4 DEF Overtaken
    <3>5. CASE rq[x].version # rq[r].version /\ eulas[rq[x].version].status = "draft"
      BY <1>5, <2>2, <3>2, <3>5
    <3>6. QED
      BY <3>3, <3>4, <3>5
  <2>4. ASSUME NEW v \in Versions, Exists(eulas, v), eulas[v].status = "archived",
               eulas'[v].status = "published"
        PROVE  \E s, t \in Requests : s # t /\ PublishedBy(s, v) /\ PublishedBy(t, v)
    <3>1. v = rq[r].version
      BY <2>2, <2>4
    <3>2. PICK s \in Requests : Did(s, v)
      BY <2>2, <2>4, <3>1 DEF Overtaken
    <3>3. s # r /\ PublishedBy(s, v) /\ PublishedBy(r, v)
      BY <1>4, <2>2, <3>1, <3>2
    <3>4. QED
      BY <3>3
  <2>5. QED
    BY <2>3, <2>4 DEF Overtaken, Did, PublishedBy
<1>9. QED
  BY <1>7, <1>8

(* One version is published at any time, what was published keeps its text *)
(* and is no draft again, and an archived version is published again only  *)
(* by one of two publishes of it that overlapped.                          *)
THEOREM EulasKept == Spec => EulaHistory
<1>1. Init => Overtaken
  <2> SUFFICES ASSUME Init, NEW r \in Requests PROVE ~Swapping(r)
    BY DEF Overtaken
  <2>1. rq[r] = Idle /\ Idle.op = "none"
    BY DEF Init, Idle
  <2>2. QED
    BY <2>1 DEF Swapping
<1>2. Inv /\ Overtaken /\ [Next]_authVars => Overtaken'
  <2>1. CASE UNCHANGED authVars
    BY <2>1 DEF Overtaken, Swapping, Did, authVars
  <2>2. QED
    BY <2>1, PublishStep
<1>3. Inv /\ Inv' /\ Keeps /\ Overtaken /\ [Next]_authVars => [
          /\ \E v \in Versions : \A x \in Versions :
                (Exists(eulas', x) /\ eulas'[x].status = "published") = (x = v)
          /\ \A v \in Versions : Exists(eulas, v) /\ eulas[v].status # "draft" =>
                /\ eulas'[v].text = eulas[v].text
                /\ eulas'[v].status # "draft"
                /\ eulas[v].status = "archived" /\ eulas'[v].status = "published" =>
                      \E r, s \in Requests : r # s /\ PublishedBy(r, v) /\ PublishedBy(s, v)
          ]_authVars
  <2> SUFFICES ASSUME Inv, Inv', Keeps, Overtaken, [Next]_authVars, ~UNCHANGED authVars
               PROVE  /\ \E v \in Versions : \A x \in Versions :
                            (Exists(eulas', x) /\ eulas'[x].status = "published") = (x = v)
                      /\ \A v \in Versions : Exists(eulas, v) /\ eulas[v].status # "draft" =>
                            /\ eulas'[v].text = eulas[v].text
                            /\ eulas'[v].status # "draft"
                            /\ eulas[v].status = "archived" /\ eulas'[v].status = "published" =>
                                  \E r, s \in Requests :
                                      r # s /\ PublishedBy(r, v) /\ PublishedBy(s, v)
    OBVIOUS
  <2>1. \E v \in Versions : \A x \in Versions :
            (Exists(eulas', x) /\ eulas'[x].status = "published") = (x = v)
    BY DEF Inv, TablesInv, OnePublished, Exists
  <2>2. \A v \in Versions : Exists(eulas, v) /\ eulas[v].status # "draft" =>
            eulas'[v].text = eulas[v].text /\ eulas'[v].status # "draft"
    BY DEF Keeps
  <2>3. QED
    BY <2>1, <2>2, PublishStep
<1>4. QED
  BY <1>1, <1>2, <1>3, InitInv, InvStep, PTL DEF Spec, EulaHistory

=============================================================================
