\* Codes exchanged twice, rotation and deletion of the user, while time passes.
SPECIFICATION Spec
CONSTANTS
    None = None
    Clients = {c1}
    Users = {u1}
    Iots = {o1}
    ClientOf <- OneHome
    Codes = {k1}
    Refreshes = {f1, f2}
    Accesses = {a1, a2, a3}
    Reqs = {r1, r2}
    Kinds = {"authorize", "code", "refresh"}
    Removals = {"user", "iot"}
    AskedScopes <- Plain
    TokenTypes <- AllTypes
    OpenIdClients = {}
    AskAuthorization = TRUE
    CodeLife = 0
    AccessLife = 0
    RefreshLife = 1
    MaxTime = 1
    DbFails = FALSE
SYMMETRY SafetySymmetry
INVARIANT TypeOK
INVARIANT OwnersAgree
INVARIANT NothingFromTheDead
INVARIANT AnsweredTokensStored
PROPERTY TokensLive
CHECK_DEADLOCK FALSE
