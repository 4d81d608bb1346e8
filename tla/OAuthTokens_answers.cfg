\* Every request is answered and revocations take effect.
SPECIFICATION FairSpec
CONSTANTS
    None = None
    Clients = {c1}
    Users = {u1}
    Iots = {}
    ClientOf <- OneHome
    Codes = {}
    Refreshes = {f1, f2}
    Accesses = {a1, a2}
    Reqs = {r1, r2}
    Kinds = {"password", "refresh", "revoke"}
    Removals = {"consent"}
    AskedScopes <- Plain
    TokenTypes <- AllTypes
    OpenIdClients = {}
    AskAuthorization = TRUE
    CodeLife = 0
    AccessLife = 0
    RefreshLife = 1
    MaxTime = 0
    DbFails = FALSE
INVARIANT OneAccessPerRefresh
INVARIANT RevocationCovers
PROPERTY RequestsAnswered
PROPERTY RevocationSticks
CHECK_DEADLOCK FALSE
