\* An address changes hands while it is being changed.
SPECIFICATION Spec
CONSTANTS
    None = None
    Ids = {u1, u2}
    Emails = {e1, e2, e3}
    Keys = {k1}
    Profiles = {p1}
    Browsers = {b1}
    Reqs = {r1}
    Kinds = {"email", "verify"}
    Others = {"create", "edit"}
    KeyLife = 0
    MaxTime = 0
SYMMETRY SafetySymmetry
INVARIANT EmailLinkServesItsAccount
CHECK_DEADLOCK FALSE
