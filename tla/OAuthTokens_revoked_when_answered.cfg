\* A revocation is answered before it is written.
SPECIFICATION Spec
CONSTANTS
    None = None
    Clients = {c1}
    Users = {u1}
    Iots = {}
    ClientOf <- OneHome
    Codes = {}
    Refreshes = {f1}
    Accesses = {a1}
    Reqs = {r1}
    Kinds = {"password", "revoke"}
    Removals = {}
    AskedScopes <- Plain
    TokenTypes <- AllTypes
    OpenIdClients = {}
    AskAuthorization = TRUE
    CodeLife = 0
    AccessLife = 0
    RefreshLife = 1
    MaxTime = 0
    DbFails = FALSE
SYMMETRY SafetySymmetry
INVARIANT RevokedWhenAnswered
CHECK_DEADLOCK FALSE
