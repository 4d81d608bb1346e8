\* The second factor, the tokens of the API and the captures, one at a time.
SPECIFICATION ServerSpec
CONSTANTS
  Parts = {"factor", "links", "tokens", "issue", "capture", "overlap"}
  None = None
  Browsers = {b1, b2, b3}
  Phones = {b3}
  Agents = {"desktop", "phone"}
  AgentOf <- ByKind
  Secrets = {s1, s2}
  Links = {k1, k2}
  Infos = {i1}
  MaxWrites = 2
  Null = Null
  Members = {u1, u2}
  Proxies = {y1}
  Admins = {u1}
  Tokens = {t1, t2}
  Callers = {c1}
  Calls = {"create", "info", "delete", "use", "access"}
  Passwords = {w1, w2}
  Webs = {p1}
  Listeners = {l1}
  Traffic <- SomeTraffic
  MaxCaptures = 3
  MaxFaults = 1
  MaxTries = 2
CONSTRAINT Bounds
INVARIANT RememberedByCode
INVARIANT LastLinkWorks
INVARIANT KeptToOwners
INVARIANT KeptOnce
INVARIANT CapturedOnce
INVARIANT KeptIsShown
INVARIANT ShownSinceBegun
PROPERTY ApiTokensLive
PROPERTY CallsAnswered
PROPERTY CaptureReturns
CHECK_DEADLOCK FALSE
