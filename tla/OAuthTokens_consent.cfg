\* Consents, implicit tokens, permanent tokens and jwts, with failing writes.
SPECIFICATION Spec
CONSTANTS
    None = None
    Clients = {c1}
    Users = {u1}
    Iots = {}
    ClientOf <- OneHome
    Codes = {}
    Refreshes = {f1}
    Accesses = {a1, a2}
    Reqs = {r1, r2}
    Kinds = {"implicit", "password", "client", "revoke", "bearer"}
    Removals = {"client"}
    AskedScopes <- Special
    TokenTypes <- AllTypes
    OpenIdClients = {}
    AskAuthorization = TRUE
    CodeLife = 0
    AccessLife = 0
    RefreshLife = 1
    MaxTime = 0
    DbFails = TRUE
SYMMETRY SafetySymmetry
INVARIANT TokensConsented
CHECK_DEADLOCK FALSE
