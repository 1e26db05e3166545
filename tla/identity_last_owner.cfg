SPECIFICATION Spec
CONSTANTS
    Requests = {r1, r2}
    Users = {u1, u2}
    Names = {n1, n2}
    Sessions = {s1, s2}
    Tokens = {k1}
    NoRow = NoRow
    OneOwner = FALSE
    MailMayFail = FALSE
    MaxRevocations = 1
INVARIANTS
    LastOwner
SYMMETRY Symmetry
