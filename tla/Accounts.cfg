SPECIFICATION Spec
CONSTANTS
    Requests = {r1, r2, r3}
    Users = {u1, u2}
    Codes = {k1, k2}
    Addresses = {"ann"}
    Cohorts = {c1}
    Waves = {w1, w2}
    Types = {"STANDARD", "BETA_TESTER"}
    Versions = {v1, v2, v3, v4}
    Texts = {t1, t2}
    Null = Null
    MaxFaults = 1
    Start <- MCStart
    u1 = u1
    u2 = u2
    k1 = k1
    k2 = k2
    c1 = c1
    w1 = w1
    w2 = w2
    v1 = v1
    v2 = v2
    v3 = v3
    v4 = v4
    t1 = t1
    t2 = t2
SYMMETRY Symmetry
CHECK_DEADLOCK FALSE
INVARIANTS TypeOK ProfileMatchesInvitation ClaimedHasProfile
PROPERTIES ClaimIsFinal EulaHistory
