\* The dialogs, the page of roles, the page of accounts and the lists, one at a time.
SPECIFICATION BrowserSpec
CONSTANTS
  Parts = {"dialogs", "roles", "accounts", "lists"}
  None = None
  Things = {t1, t2}
  AppRoles = {x1}
  Kinds = {"members", "users", "organizations", "administrators", "trusted"}
  NaN = NaN
  MaxOpens = 2
  MaxRows = 3
  Ids = {provider, r1, r2}
  Perms = {p1}
  Policies = {q1}
  Provider = provider
  MaxClicks = 3
  MaxActs = 3
  Users = {u1, u2}
  Names = {a, b, x}
  Refused = {x}
  Filters = {a, Everyone}
  Everyone = Everyone
  Sizes = {1, 2}
  MaxFlight = 2
  MaxUnanswered = 2
  MaxAsked = 2
  Items = {i1, i2, i3}
  Orgs = {o1, o2}
  Tabs = {"provider", "other", "owner", "member"}
  Texts = {{i1}, {i2}, {i2, i3}, {}}
  PageSize = 1
CONSTRAINT Careful
INVARIANT PostedAsShown
INVARIANT UntouchedKept
INVARIANT SavedAsChosen
INVARIANT MarksAgree
INVARIANT ListAgrees
INVARIANT TicksAgree
INVARIANT ShownAgrees
INVARIANT Reachable
CHECK_DEADLOCK FALSE
