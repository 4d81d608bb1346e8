\* Requests that pass through the check of permissions, under fairness.
SPECIFICATION FairSpec
CONSTANTS
    None = None
    Users = {u1, u2}
    Orgs = {o1}
    Apps = {a1, a2}
    Roles = {x1}
    Perms = {p1}
    Agents = {}
    Proxies = {}
    First = {u1, u2, o1, a1, x1, p1}
    Second = a2
    Home = a1
    Reqs = {r1, r2}
    Scenarios <- Checked
    MaxRows = 6
PROPERTY AllowedAnswered
CHECK_DEADLOCK FALSE
