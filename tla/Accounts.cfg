\* Two handlers, the first administrator and two accounts that share a login
\* in turn, two records that may expect it.
CONSTANTS
    adm = adm
    tom = tom
    ann = ann
    bob = bob
    l1 = l1
    g1 = g1
    g2 = g2
    r1 = r1
    r2 = r2
    k1 = k1
    Account = {adm, tom, ann, bob}
    Bootstrap = adm
    Staff <- MCStaff
    Login = {l1}
    Group = {g1, g2}
    Record = {r1, r2}
    Imported <- MCImported
    Handler = {h1, h2}
    Nobody = Nobody
    Call <- MCCall
    MaxRequests = 3
    MaxSessions = 4
SYMMETRY MCSymmetry
SPECIFICATION Spec
INVARIANTS
    OwnersAdmitted
    ChainLinear
    SessionsAudited
PROPERTIES
    ImplementsClaims
    ReplayNeverConflicts
CHECK_DEADLOCK FALSE
