SPECIFICATION Spec
CONSTANTS
    Requests = {r1, r2}
    Users = {u1, u2, u3}
    Names = {n1, n2}
    Sessions = {s1, s2}
    Tokens = {k1}
    NoRow = NoRow
    OneOwner = TRUE
    MailMayFail = TRUE
    MaxRevocations = 1
INVARIANTS
    TypeOK
    SingleUse
    SetupOnce
    LastOwner
    RevocationComplete
    AcceptedKept
SYMMETRY Symmetry
