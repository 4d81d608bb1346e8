\* Requests about links are answered.
SPECIFICATION FairSpec
CONSTANTS
    None = None
    Ids = {u1, u2}
    Emails = {e1, e2}
    Keys = {k1, k2}
    Profiles = {p1, p2}
    Browsers = {b1}
    Reqs = {r1}
    Kinds = {"activate", "resend", "forgot", "email", "verify"}
    Others = {"create", "delete"}
    KeyLife = 0
    MaxTime = 1
PROPERTY LinksAnswered
CHECK_DEADLOCK FALSE
