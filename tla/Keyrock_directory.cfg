\* Pairs of requests about one application and one organization.
SPECIFICATION Spec
CONSTANTS
    None = None
    Users = {u1, u2}
    Orgs = {o1, o2}
    Apps = {a1, a2}
    Roles = {x1, x2}
    Perms = {p1, p2}
    Agents = {i1, i2}
    Proxies = {y1}
    First = {u1, u2, o1, a1, x1, p1, i1}
    Second = a2
    Home = a1
    Reqs = {r1, r2}
    Scenarios <- Pairs
    MaxRows = 6
CONSTRAINT OneDecision
SYMMETRY SafetySymmetry
INVARIANT RowsFit
INVARIANT CheckExact
INVARIANT DecisionExact
INVARIANT SavedAsPosted
INVARIANT CreationsComplete
INVARIANT MembersOnce
CHECK_DEADLOCK FALSE
