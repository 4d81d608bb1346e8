\* Sign-ups, links and resets while accounts come, go and change address.
SPECIFICATION Spec
CONSTANTS
    None = None
    Ids = {u1, u2}
    Emails = {e1, e2}
    Keys = {k1, k2}
    Profiles = {p1, p2}
    Browsers = {b1}
    Reqs = {r1, r2}
    Kinds = {"signup", "activate", "resend", "forgot", "reset", "email", "verify"}
    Others = {"edit", "enable", "delete"}
    KeyLife = 0
    MaxTime = 0
SYMMETRY SafetySymmetry
INVARIANT TypeOK
INVARIANT EmailsUnique
INVARIANT ProfilesOwned
INVARIANT LinksServeTheirAccount
CHECK_DEADLOCK FALSE
