-------------------------- MODULE Requests_proofs ---------------------------
(***************************************************************************)
(* What the handlers of Keyrock have done when they answer, for any number *)
(* of accounts, organizations, applications and requests.                  *)
(* RInv is inductive beside KInv of Keyrock_proofs.  It says of a request  *)
(* that nothing has disturbed what each stage has made sure of so far      *)
(* (Exact), of every request what its kind names (Names), and whose the    *)
(* passwords are (PassOK).  MInv holds the tickets: who has found, or made *)
(* sure, that an organization has no members is alone in that.             *)
(***************************************************************************)
EXTENDS Keyrock_proofs

\* The check, stage by stage.
MemExact(q) == q.mem = Memberships(q.by)
HeldExact(q) == q.held = {x \in AllRoles : Holds(q.by, q.app, x)}
CheckOK(q) ==
    /\ q.kind \in AppKinds =>
          /\ q.st = "held" => MemExact(q)
          /\ q.st = "can" => HeldExact(q)
          /\ q.st \in {"denied", "silent"} => ~Entitled(q)
          /\ q.st \in {"params", "go"} => Entitled(q)
    /\ q.st = "params" => q.kind \in AppKinds \cup {"addRole", "removeRole"}

\* The decisions.
AppsExact(q) == q.apps = {t[2] : t \in {t \in trust : t[1] = q.who}}
HeldOwn(q) == q.held = {x \in Roles : Holds(q.by, q.app, x)}
CanExact(q) == q.can = UNION {PermsOf(x) : x \in q.held}
Judged(q) ==
    /\ q.st = "permit" => MayThere(q)
    /\ q.st = "deny" => ~MayThere(q)
    /\ q.who \in {None, q.app} \/ <<q.who, q.app>> \in trust
Informed(q) ==
    /\ HeldOwn(q)
    /\ q.st = "ok" <=> \E x \in AllRoles : Holds(q.by, q.app, x)
DecideOK(q) ==
    /\ q.kind = "resource_request" =>
          /\ q.st \in {"member", "held", "can", "go"} => AppsExact(q)
          /\ q.st = "held" => MemExact(q)
          /\ q.st \in {"can", "go"} => HeldOwn(q)
          /\ q.st = "go" => CanExact(q)
    /\ q.kind = "access_token_info" =>
          /\ q.st = "held" => MemExact(q)
          /\ q.st \in {"ok", "refused"} => Informed(q)
    /\ q.st \in {"permit", "deny"} => Judged(q)

\* The dialogs and the API on the tables that link two others.
FormCleared(q, kind) ==
    /\ AssignedRoles(q) \subseteq q.changeable
    /\ \A k \in Keys(q, kind) : k.role \in q.changeable => assign[k] = 0
FormOK(q, kind) == /\ q.st = "fill" => FormCleared(q, kind)
                   /\ q.st = "ok" => FormHeld(q, kind)
GrantsCleared(q) == \A k \in Grantable : k.role \in FormRoles(q) => grant[k] = 0
GrantsHeld(q) == \A k \in Grantable : k.role \in FormRoles(q) =>
                    grant[k] = IF k \in q.form THEN 1 ELSE 0
TrustHeld(q) == {t[2] : t \in TrustedBy(q.app)} = q.form \ {q.app}
MembersOf(o) == {m \in member : m.org = o}
MembersHeld(q) == {[user |-> m.user, role |-> m.role] : m \in MembersOf(q.org)} = q.form
AdminsAdded(q) == admin = q.admins \cup {u \in q.form \ q.admins : Here(u)}
FoundIts(q) == q.found # None =>
    q.found \in member /\ q.found.org = q.org /\ q.found.user = q.who
MemberAdded(q) == \E m \in member : m.org = q.org /\ m.user = q.who /\ m.role = q.how
SavedOK(q) ==
    /\ q.kind = "authorize_users" => FormOK(q, Users1)
    /\ q.kind = "authorize_organizations" => FormOK(q, Orgs1)
    /\ q.kind = "role_permissions_assign" =>
          /\ q.st = "fill" => GrantsCleared(q)
          /\ q.st = "ok" => GrantsHeld(q)
    /\ q.kind = "authorize_trusted_applications" =>
          /\ q.st = "fill" => TrustedBy(q.app) = {}
          /\ q.st = "ok" => TrustHeld(q)
    /\ q.kind = "add_members" =>
          /\ q.st = "fill" => MembersOf(q.org) = {}
          /\ q.st = "ok" => MembersHeld(q)
    /\ q.kind = "update_administrators" =>
          /\ q.st = "change" => q.admins = admin
          /\ q.st = "second" => AdminsAdded(q)
          /\ q.st = "ok" => admin = {u \in q.form : Here(u)}
    /\ q.kind \in {"api_user_addRole", "api_org_role_addRole"} /\ q.st = "ok" =>
          assign[ItsRow(q)] > 0
    /\ q.kind = "addRole" =>
          /\ q.st = "change" => FoundIts(q)
          /\ q.st = "ok" => MemberAdded(q)

\* The creations.
Working == {"go", "fill", "second", "provider", "change"}
CreateOK(q) ==
    /\ q.kind \in AppMakers =>
          /\ q.st \in Working => Here(q.by)
          /\ q.st \in {"fill", "provider", "ok"} => Here(q.app)
          /\ q.st \in {"provider", "ok"} => assign[ProviderKey(q)] > 0
          /\ q.st = "failed" => ~Here(q.app) /\ assign[ProviderKey(q)] = 0
    /\ q.kind \in OrgMakers =>
          /\ q.st \in {"go", "second"} => Here(q.by)
          /\ q.st = "second" => Here(q.org)
          /\ q.st = "ok" => OwnerRows(q.org, q.by) # {}
          /\ q.st # "failed"

\* Agents and proxies.
Equipped(r, q) == IF pass[q.who] = r THEN Matches(q) ELSE ~Here(q.who)
EquipOK(r, q) ==
    /\ q.kind = "api_iot_update" /\ q.st = "go" => Matches(q)
    /\ q.kind = "api_pep_update" /\ q.st = "change" => Matches(q)
    /\ q.who \in Agents \cup Proxies /\ q.st = "ok" => Equipped(r, q)

Exact(r) == req[r].quiet =>
    /\ CheckOK(req[r]) /\ DecideOK(req[r]) /\ SavedOK(req[r]) /\ CreateOK(req[r])
    /\ EquipOK(r, req[r])

\* What the kind of a request says about it for good.
EquipKinds == AgentMakers \cup ProxyMakers
    \cup {"delete_iot", "reset_password_iot", "api_iot_update", "api_iot_delete",
          "delete_pep", "reset_password_pep", "api_pep_update", "api_pep_delete"}
Names(q) ==
    /\ q.kind \in scene.kinds \cup {"none"}
    /\ q.kind = "resource_request" => q.form \subseteq Perms
    /\ q.who \in Agents \cup Proxies => q.kind \in EquipKinds

\* Only who has answered has made a password.
PassOK == \A x \in Agents \cup Proxies :
             pass[x] \in Reqs => req[pass[x]].st = "ok" /\ req[pass[x]].who = x

RInv == PassOK /\ \A r \in Reqs : Names(req[r]) /\ Exact(r)

\* A request that is about to put the first members into an organization.
Ticket(q, o) ==
    /\ q.org = o
    /\ \/ q.kind = "add_members" /\ q.st = "fill"
       \/ q.kind \in OrgMakers /\ q.st \in {"params", "go", "second"}
TicketsOK ==
    /\ \A r \in Reqs, o \in Orgs : Ticket(req[r], o) => MembersOf(o) = {}
    /\ \A r, s \in Reqs, o \in Orgs : Ticket(req[r], o) /\ Ticket(req[s], o) => r = s
MInv == "addRole" \notin scene.kinds => TicketsOK /\ MembersOnce

-----------------------------------------------------------------------------
(* One request goes on: the others stay as they were, or are disturbed. *)

Others(r) ==
    /\ scene' = scene /\ req[r].st # "ok"
    /\ \A s \in Reqs \ {r} :
          \/ req'[s] = req[s] /\ UNCHANGED tables
          \/ ~req'[s].quiet /\ SameParams(req[s], req'[s]) /\ req'[s].st = req[s].st
Kept(p, q) ==
    /\ p.kind = q.kind /\ p.by = q.by /\ p.app = q.app /\ p.org = q.org
    /\ p.role = q.role /\ p.perm = q.perm /\ p.how = q.how /\ p.form = q.form
    /\ p.who = q.who \/ p.kind \in {"api_pep_update", "api_pep_delete"}
    /\ p.quiet = q.quiet

LEMMA SameExact ==
  ASSUME NEW s \in Reqs, UNCHANGED tables, req'[s] = req[s], Exact(s)
  PROVE  Exact(s)'
<1>1. /\ row' = row /\ of' = of /\ member' = member /\ assign' = assign
      /\ grant' = grant /\ trust' = trust /\ admin' = admin /\ pass' = pass
  BY DEF tables
<1>2. CheckOK(req[s]) => CheckOK(req[s])'
  BY <1>1 DEF CheckOK, MemExact, Memberships, HeldExact, Holds, Entitled, May, PermsOf
<1>3. DecideOK(req[s]) => DecideOK(req[s])'
  <2>1. AppsExact(req[s]) => AppsExact(req[s])'
    BY <1>1 DEF AppsExact
  <2>2. MemExact(req[s]) => MemExact(req[s])'
    BY <1>1 DEF MemExact, Memberships
  <2>3. HeldOwn(req[s]) => HeldOwn(req[s])'
    BY <1>1 DEF HeldOwn, Holds
  <2>4. CanExact(req[s]) => CanExact(req[s])'
    BY <1>1 DEF CanExact, PermsOf
  <2>5. MayThere(req[s])' <=> MayThere(req[s])
    BY <1>1 DEF MayThere, Holds, Here
  <2>6. Judged(req[s]) => Judged(req[s])'
    BY <1>1, <2>5 DEF Judged
  <2>7. Informed(req[s]) => Informed(req[s])'
    BY <1>1, <2>3 DEF Informed, Holds
  <2> QED
    BY <2>1, <2>2, <2>3, <2>4, <2>6, <2>7 DEF DecideOK
<1>4. SavedOK(req[s]) => SavedOK(req[s])'
  BY <1>1 DEF SavedOK, FormOK, FormCleared, FormHeld, GrantsCleared, GrantsHeld, TrustHeld,
     TrustedBy, MembersHeld, MembersOf, AdminsAdded, Here, FoundIts, MemberAdded, ItsRow
<1>5. CreateOK(req[s]) => CreateOK(req[s])'
  BY <1>1 DEF CreateOK, Here, ProviderKey, OwnerRows
<1>6. EquipOK(s, req[s]) => EquipOK(s, req[s])'
  BY <1>1 DEF EquipOK, Equipped, Matches, Here
<1> QED
  BY <1>2, <1>3, <1>4, <1>5, <1>6 DEF Exact

LEMMA NamesStay ==
  ASSUME NEW s \in Reqs, Names(req[s]), scene' = scene,
         Kept(req[s], req'[s]) \/ SameParams(req[s], req'[s])
  PROVE  Names(req[s])'
  BY DEF Names, Kept, SameParams, EquipKinds

LEMMA OthersStay ==
  ASSUME RInv, NEW r \in Reqs, Others(r), NEW s \in Reqs \ {r}
  PROVE  Names(req[s])' /\ Exact(s)'
<1>1. Names(req[s]) /\ Exact(s)
  BY DEF RInv
<1>2. CASE req'[s] = req[s] /\ UNCHANGED tables
  <2>1. Names(req[s])'
    BY <1>1, <1>2 DEF Names, Others
  <2> QED
    BY <1>1, <1>2, <2>1, SameExact
<1>3. CASE ~req'[s].quiet /\ SameParams(req[s], req'[s])
  <2>1. Names(req[s])'
    BY <1>1, <1>3, NamesStay DEF Others
  <2> QED
    BY <1>3, <2>1 DEF Exact
<1> QED
  BY <1>2, <1>3 DEF Others

LEMMA PassStays ==
  ASSUME RInv, NEW r \in Reqs, Others(r), UNCHANGED pass
  PROVE  PassOK'
<1> SUFFICES ASSUME NEW x \in Agents \cup Proxies, pass[x] \in Reqs
             PROVE  req'[pass[x]].st = "ok" /\ req'[pass[x]].who = x
  BY DEF PassOK
<1>1. req[pass[x]].st = "ok" /\ req[pass[x]].who = x
  BY DEF RInv, PassOK
<1> QED
  BY <1>1 DEF Others, SameParams

\* Whoever goes on shows what it has made sure of.
LEMMA GoesOn ==
  ASSUME RInv, NEW r \in Reqs, Others(r), Kept(req[r], req'[r]), PassOK', Exact(r)'
  PROVE  RInv'
<1>1. Names(req[r])'
  BY NamesStay DEF RInv, Others
<1>2. \A s \in Reqs : Names(req[s])' /\ Exact(s)'
  BY <1>1, OthersStay
<1> QED
  BY <1>2 DEF RInv

\* The statements, and what they do to the requests.
LEMMA ReadActs ==
  ASSUME KInv, NEW r \in Reqs, NEW q, req' = [req EXCEPT ![r] = q],
         UNCHANGED <<tables, scene>>, req[r].st # "ok"
  PROVE  Others(r) /\ req'[r] = q /\ UNCHANGED tables
  BY DEF KInv, Others

LEMMA EndedActs ==
  ASSUME KInv, NEW r \in Reqs, NEW k, NEW stage, stage # "ok", NEW end \in Stages,
         Ended(r, k, stage, end)
  PROVE  /\ Others(r) /\ UNCHANGED tables /\ req'[r].st = end
         /\ SameParams(req[r], req'[r]) /\ SameRest(req[r], req'[r])
         /\ req'[r].quiet = req[r].quiet /\ Kept(req[r], req'[r])
<1> DEFINE q == [req[r] EXCEPT !.st = end]
<1>1. req[r] \in ReqType
  BY DEF KInv
<1>2. q \in ReqType /\ q.st = end /\ q.quiet = req[r].quiet
      /\ SameParams(req[r], q) /\ SameRest(req[r], q)
  BY <1>1, NewStage
<1>3. req' = [req EXCEPT ![r] = q] /\ UNCHANGED <<tables, scene>> /\ req[r].st # "ok"
  BY DEF Ended, Reading, At
<1> HIDE DEF q
<1>4. Others(r) /\ req'[r] = q /\ UNCHANGED tables
  BY <1>2, <1>3, ReadActs
<1> QED
  BY <1>2, <1>4 DEF Kept, SameParams

LEMMA WroteActs ==
  ASSUME KInv, NEW r \in Reqs, NEW stage \in Stages, Wrote(r, stage), req[r].st # "ok"
  PROVE  /\ Others(r) /\ req'[r].st = stage
         /\ SameParams(req[r], req'[r]) /\ SameRest(req[r], req'[r])
         /\ req'[r].quiet = req[r].quiet /\ Kept(req[r], req'[r])
<1> DEFINE p(s) == [req[s] EXCEPT !.quiet = FALSE]
           q == [req[r] EXCEPT !.st = stage]
<1>1. \A s \in Reqs : req[s] \in ReqType
  BY DEF KInv
<1>2. q \in ReqType /\ q.st = stage /\ q.quiet = req[r].quiet
      /\ SameParams(req[r], q) /\ SameRest(req[r], q)
  BY <1>1, NewStage
<1>3. \A s \in Reqs : p(s).quiet = FALSE /\ p(s).st = req[s].st /\ SameParams(req[s], p(s))
  BY <1>1, Disturbed
<1>4. req' = [s \in Reqs |-> IF s = r THEN q ELSE p(s)] /\ UNCHANGED scene
  BY DEF Wrote
<1> HIDE DEF p, q
<1>5. req'[r] = q /\ \A s \in Reqs \ {r} : req'[s] = p(s)
  BY <1>4
<1> QED
  BY <1>2, <1>3, <1>4, <1>5 DEF Others, Kept, SameParams

-----------------------------------------------------------------------------
(* Which stages claim nothing. *)

SavedKinds == {"authorize_users", "authorize_organizations", "role_permissions_assign",
    "authorize_trusted_applications", "add_members", "update_administrators",
    "api_user_addRole", "api_org_role_addRole", "addRole"}
CheckStages == {"held", "can", "denied", "silent", "params", "go"}
WaitStages == {"member", "owner", "missing", "refused", "failed", "hung"}
LEMMA NoCheck ==
  ASSUME NEW r, req'[r].st \notin CheckStages PROVE CheckOK(req[r])'
  BY DEF CheckOK, CheckStages

LEMMA NoDecide ==
  ASSUME NEW r, req'[r].kind \notin DecisionKinds, req'[r].st \notin {"permit", "deny"}
  PROVE  DecideOK(req[r])'
  BY DEF DecideOK, DecisionKinds

LEMMA NoSaved ==
  ASSUME NEW r, \/ req'[r].kind \notin SavedKinds
                \/ req'[r].st \notin {"fill", "change", "second", "ok"}
  PROVE  SavedOK(req[r])'
  BY DEF SavedOK, SavedKinds, FormOK

LEMMA NoCreate ==
  ASSUME NEW r, req'[r].kind \notin AppMakers \cup OrgMakers
  PROVE  CreateOK(req[r])'
  BY DEF CreateOK

LEMMA NoEquip ==
  ASSUME NEW r, \/ req'[r].st \notin {"go", "change", "ok"}
                \/ req'[r].kind \notin EquipKinds /\ Names(req[r])'
  PROVE  EquipOK(r, req[r])'
  BY DEF EquipOK, EquipKinds, Names

\* An answer, or a wait, that claims nothing.
LEMMA Waits ==
  ASSUME RInv, NEW r \in Reqs, Others(r), Kept(req[r], req'[r]), UNCHANGED pass,
         req[r].kind \notin DecisionKinds \cup AppMakers \cup OrgMakers,
         req'[r].st \in WaitStages
  PROVE  RInv'
<1>1. req'[r].kind = req[r].kind
  BY DEF Kept
<1>2. CheckOK(req[r])' /\ DecideOK(req[r])' /\ CreateOK(req[r])'
  BY <1>1, NoCheck, NoDecide, NoCreate DEF WaitStages, CheckStages
<1>3. SavedOK(req[r])' /\ EquipOK(r, req[r])'
  BY NoSaved, NoEquip DEF WaitStages
<1>4. Exact(r)'
  BY <1>2, <1>3 DEF Exact
<1> QED
  BY <1>4, PassStays, GoesOn

\* A handler of a kind that no property is about.
LEMMA Plain ==
  ASSUME RInv, NEW r \in Reqs, Others(r), Kept(req[r], req'[r]), UNCHANGED pass,
         req[r].kind \notin DecisionKinds \cup AppMakers \cup OrgMakers
                              \cup SavedKinds \cup EquipKinds,
         req'[r].st \notin CheckStages \cup {"permit", "deny"}
  PROVE  RInv'
<1>1. req'[r].kind = req[r].kind
  BY DEF Kept
<1>2. Names(req[r])'
  BY NamesStay DEF RInv, Others
<1>3. CheckOK(req[r])' /\ DecideOK(req[r])' /\ CreateOK(req[r])'
  BY <1>1, NoCheck, NoDecide, NoCreate
<1>4. SavedOK(req[r])' /\ EquipOK(r, req[r])'
  BY <1>1, <1>2, NoSaved, NoEquip
<1>5. Exact(r)'
  BY <1>3, <1>4 DEF Exact
<1> QED
  BY <1>5, PassStays, GoesOn

\* A stage of the check.
LEMMA Checking ==
  ASSUME RInv, NEW r \in Reqs, Others(r), Kept(req[r], req'[r]), UNCHANGED pass,
         req[r].kind \notin DecisionKinds \cup AppMakers \cup OrgMakers,
         req'[r].st \in CheckStages, req'[r].quiet => CheckOK(req[r])',
         req'[r].st = "go" => req[r].kind # "api_iot_update" \/ Matches(req[r])'
  PROVE  RInv'
<1>1. req'[r].kind = req[r].kind
  BY DEF Kept
<1>2. DecideOK(req[r])' /\ CreateOK(req[r])'
  BY <1>1, NoDecide, NoCreate DEF CheckStages
<1>3. SavedOK(req[r])'
  BY NoSaved DEF CheckStages
<1>4. EquipOK(r, req[r])'
  BY <1>1 DEF EquipOK, CheckStages
<1>5. Exact(r)'
  BY <1>2, <1>3, <1>4 DEF Exact
<1> QED
  BY <1>5, PassStays, GoesOn

\* A handler that saves, of a kind that a property is about.
LEMMA Saves ==
  ASSUME RInv, NEW r \in Reqs, Others(r), Kept(req[r], req'[r]), UNCHANGED pass,
         req[r].kind \in SavedKinds, req'[r].st \notin CheckStages \cup {"permit", "deny"},
         req'[r].quiet => SavedOK(req[r])'
  PROVE  RInv'
<1>1. req'[r].kind = req[r].kind
  BY DEF Kept
<1>2. Names(req[r])'
  BY NamesStay DEF RInv, Others
<1>3. req[r].kind \notin DecisionKinds \cup AppMakers \cup OrgMakers \cup EquipKinds
  BY DEF SavedKinds, DecisionKinds, AppMakers, OrgMakers, EquipKinds, AgentMakers,
     ProxyMakers
<1>4. CheckOK(req[r])' /\ DecideOK(req[r])' /\ CreateOK(req[r])' /\ EquipOK(r, req[r])'
  BY <1>1, <1>2, <1>3, NoCheck, NoDecide, NoCreate, NoEquip
<1>5. Exact(r)'
  BY <1>4 DEF Exact
<1> QED
  BY <1>5, PassStays, GoesOn

-----------------------------------------------------------------------------
(* What a request remembers of what it reads. *)

WithMem(q, s, v) == [q EXCEPT !.st = s, !.mem = v]
WithHeld(q, s, v) == [q EXCEPT !.st = s, !.held = v]
WithCan(q, s, v) == [q EXCEPT !.st = s, !.can = v]
WithApps(q, s, v) == [q EXCEPT !.st = s, !.apps = v]
WithChangeable(q, s, v) == [q EXCEPT !.st = s, !.changeable = v]
WithFound(q, s, v) == [q EXCEPT !.st = s, !.found = v]
WithAdmins(q, s, v) == [q EXCEPT !.st = s, !.admins = v]
WithWho(q, s, v) == [q EXCEPT !.st = s, !.who = v]
WithJwt(q, s, v) == [q EXCEPT !.st = s, !.jwt = v]
WithSaved(q, s) == [q EXCEPT !.saved = TRUE, !.st = s]

LEMMA ReadMem ==
  ASSUME NEW q \in ReqType, NEW s, NEW v
  PROVE  LET p == WithMem(q, s, v)
         IN p.st = s /\ p.mem = v /\ p.apps = q.apps /\ Kept(q, p)
  BY DEF ReqType, Kept, WithMem

LEMMA ReadHeld ==
  ASSUME NEW q \in ReqType, NEW s, NEW v
  PROVE  LET p == WithHeld(q, s, v)
         IN p.st = s /\ p.held = v /\ p.apps = q.apps /\ Kept(q, p)
  BY DEF ReqType, Kept, WithHeld

LEMMA ReadCan ==
  ASSUME NEW q \in ReqType, NEW s, NEW v
  PROVE  LET p == WithCan(q, s, v)
         IN p.st = s /\ p.can = v /\ p.apps = q.apps /\ p.held = q.held /\ Kept(q, p)
  BY DEF ReqType, Kept, WithCan

LEMMA ReadApps ==
  ASSUME NEW q \in ReqType, NEW s, NEW v
  PROVE  LET p == WithApps(q, s, v)
         IN p.st = s /\ p.apps = v /\ Kept(q, p)
  BY DEF ReqType, Kept, WithApps

LEMMA ReadChangeable ==
  ASSUME NEW q \in ReqType, NEW s, NEW v
  PROVE  LET p == WithChangeable(q, s, v)
         IN p.st = s /\ Kept(q, p)
  BY DEF ReqType, Kept, WithChangeable

LEMMA ReadFound ==
  ASSUME NEW q \in ReqType, NEW s, NEW v
  PROVE  LET p == WithFound(q, s, v)
         IN p.st = s /\ p.found = v /\ Kept(q, p)
  BY DEF ReqType, Kept, WithFound

LEMMA ReadAdmins ==
  ASSUME NEW q \in ReqType, NEW s, NEW v
  PROVE  LET p == WithAdmins(q, s, v)
         IN p.st = s /\ p.admins = v /\ Kept(q, p)
  BY DEF ReqType, Kept, WithAdmins

LEMMA ReadWho ==
  ASSUME NEW q \in ReqType, NEW s, NEW v, q.kind \in {"api_pep_update", "api_pep_delete"}
  PROVE  LET p == WithWho(q, s, v)
         IN p.st = s /\ p.who = v /\ Kept(q, p)
  BY DEF ReqType, Kept, WithWho

LEMMA ReadJwt ==
  ASSUME NEW q \in ReqType, NEW s, NEW v
  PROVE  LET p == WithJwt(q, s, v)
         IN p.st = s /\ Kept(q, p)
  BY DEF ReqType, Kept, WithJwt

LEMMA ReadSaved ==
  ASSUME NEW q \in ReqType, NEW s
  PROVE  LET p == WithSaved(q, s)
         IN p.st = s /\ Kept(q, p)
  BY DEF ReqType, Kept, WithSaved

WithDecision(q, s, v) == [q EXCEPT !.can = v, !.st = s]
LEMMA ReadDecision ==
  ASSUME NEW q \in ReqType, NEW s, NEW v
  PROVE  LET p == WithDecision(q, s, v)
         IN p.st = s /\ Kept(q, p)
  BY DEF ReqType, Kept, WithDecision

-----------------------------------------------------------------------------
(* The check. *)

\* What the memberships and the assignments of a moment give someone.
LEMMA HeldIsHolds ==
  ASSUME NEW u, NEW a
  PROVE  RolesAt(a, OfUser(u))
            \cup UNION {RolesAt(a, OfOrg(m[1], m[2])) : m \in Memberships(u)}
           = {x \in AllRoles : Holds(u, a, x)}
<1> DEFINE by == Memberships(u)
           all == RolesAt(a, OfUser(u)) \cup UNION {RolesAt(a, OfOrg(m[1], m[2])) : m \in by}
<1>1. ASSUME NEW x \in all PROVE x \in AllRoles /\ Holds(u, a, x)
  <2>1. CASE x \in RolesAt(a, OfUser(u))
    BY <2>1 DEF RolesAt, Holds
  <2>2. CASE \E m \in by : x \in RolesAt(a, OfOrg(m[1], m[2]))
    <3>1. PICK m \in by : x \in RolesAt(a, OfOrg(m[1], m[2]))
      BY <2>2
    <3>2. PICK n \in member : n.user = u /\ m = <<n.org, n.role>>
      BY <3>1 DEF Memberships
    <3>3. x \in AllRoles
          /\ assign[[app |-> a, role |-> x, to |-> OfOrg(n.org, n.role)]] > 0
      BY <3>1, <3>2 DEF RolesAt
    <3> QED
      BY <3>2, <3>3 DEF Holds
  <2> QED
    BY <1>1, <2>1, <2>2
<1>2. ASSUME NEW x \in AllRoles, Holds(u, a, x) PROVE x \in all
  <2>1. CASE assign[[app |-> a, role |-> x, to |-> OfUser(u)]] > 0
    BY <2>1 DEF RolesAt
  <2>2. CASE \E m \in member :
               m.user = u /\ assign[[app |-> a, role |-> x, to |-> OfOrg(m.org, m.role)]] > 0
    <3>1. PICK n \in member : /\ n.user = u
             /\ assign[[app |-> a, role |-> x, to |-> OfOrg(n.org, n.role)]] > 0
      BY <2>2
    <3> DEFINE m == <<n.org, n.role>>
    <3>2. m \in by /\ m[1] = n.org /\ m[2] = n.role
      BY <3>1 DEF Memberships
    <3>3. x \in RolesAt(a, OfOrg(m[1], m[2]))
      BY <3>1, <3>2 DEF RolesAt
    <3> QED
      BY <3>2, <3>3
  <2> QED
    BY <1>2, <2>1, <2>2 DEF Holds
<1> QED
  BY <1>1, <1>2

LEMMA KindOfCheck ==
  ASSUME NEW k \in AppKinds
  PROVE  k \notin DecisionKinds \cup AppMakers \cup OrgMakers
  BY DEF AppKinds, DecisionKinds, AppMakers, OrgMakers, WebRolesKinds, WebAssignKinds,
     WebManageKinds, ApiAppKinds, ApiRolesKinds, ApiAssignKinds, ApiManageKinds

LEMMA RLoad ==
  ASSUME KInv, RInv, NEW r \in Reqs, LoadApplication(r) \/ ApiLoadApplication(r) PROVE RInv'
<1> DEFINE next == IF Here(req[r].app) THEN "member" ELSE "missing"
           q == WithJwt(req[r], next, token[req[r].app].jwt)
<1>1. req[r] \in ReqType /\ UNCHANGED <<tables, scene>> /\ req[r].st = "load"
      /\ req' = [req EXCEPT ![r] = q] /\ req[r].kind \in AppKinds
  BY DEF KInv, LoadApplication, ApiLoadApplication, LoadRow, AppKinds, WithJwt
<1>2. q.st = next /\ Kept(req[r], q)
  BY <1>1, ReadJwt
<1>3. next \in {"member", "missing"}
  OBVIOUS
<1> HIDE DEF q, next
<1>4. Others(r) /\ req'[r] = q /\ UNCHANGED tables
  BY <1>1, ReadActs
<1>5. UNCHANGED pass
  BY <1>4 DEF tables
<1> QED
  BY <1>1, <1>2, <1>3, <1>4, <1>5, KindOfCheck, Waits DEF WaitStages

LEMMA RFindMemberships ==
  ASSUME KInv, RInv, NEW r \in Reqs, FindMemberships(r) PROVE RInv'
<1> DEFINE mem == {<<m.org, m.role>> : m \in {m \in member : m.user = req[r].by}}
           q == WithMem(req[r], "held", mem)
<1>1. req[r] \in ReqType /\ UNCHANGED <<tables, scene>> /\ req[r].st = "member"
      /\ req' = [req EXCEPT ![r] = q] /\ req[r].kind \in AppKinds
  BY DEF KInv, FindMemberships, WithMem
<1> HIDE DEF mem
<1>2. q.st = "held" /\ q.mem = mem /\ Kept(req[r], q)
  BY <1>1, ReadMem
<1> HIDE DEF q
<1>3. Others(r) /\ req'[r] = q /\ UNCHANGED tables
  BY <1>1, ReadActs
<1>4. UNCHANGED <<pass, member>>
  BY <1>3 DEF tables
<1>5. MemExact(req[r])'
  BY <1>2, <1>3, <1>4 DEF MemExact, Memberships, Kept, mem
<1>6. CheckOK(req[r])'
  BY <1>2, <1>3, <1>5 DEF CheckOK
<1> QED
  BY <1>1, <1>2, <1>3, <1>4, <1>6, KindOfCheck, Checking DEF CheckStages

LEMMA RFindRoles ==
  ASSUME KInv, RInv, NEW r \in Reqs, FindRoles(r) PROVE RInv'
<1> DEFINE held == RolesAt(req[r].app, OfUser(req[r].by)) \cup
                     UNION {RolesAt(req[r].app, OfOrg(m[1], m[2])) : m \in req[r].mem}
           q == WithHeld(req[r], "can", held)
<1>1. req[r] \in ReqType /\ UNCHANGED <<tables, scene>> /\ req[r].st = "held"
      /\ req' = [req EXCEPT ![r] = q] /\ req[r].kind \in AppKinds
  BY DEF KInv, FindRoles, WithHeld
<1> HIDE DEF held
<1>2. q.st = "can" /\ q.held = held /\ Kept(req[r], q)
  BY <1>1, ReadHeld
<1> HIDE DEF q
<1>3. Others(r) /\ req'[r] = q /\ UNCHANGED tables
  BY <1>1, ReadActs
<1>4. UNCHANGED <<pass, member, assign>>
  BY <1>3 DEF tables
<1>5. ASSUME req'[r].quiet PROVE CheckOK(req[r])'
  <2>1. req[r].mem = Memberships(req[r].by)
    BY <1>1, <1>2, <1>3, <1>5 DEF RInv, Exact, CheckOK, MemExact, Kept
  <2>2. held = {x \in AllRoles : Holds(req[r].by, req[r].app, x)}
    BY <2>1, HeldIsHolds DEF held
  <2>3. HeldExact(req[r])'
    BY <1>2, <1>3, <1>4, <2>2 DEF HeldExact, Holds, Kept
  <2> QED
    BY <1>2, <1>3, <2>3 DEF CheckOK
<1> QED
  BY <1>1, <1>2, <1>3, <1>4, <1>5, KindOfCheck, Checking DEF CheckStages

LEMMA RDecide ==
  ASSUME KInv, RInv, NEW r \in Reqs, NEW kinds \in SUBSET AppKinds,
         NEW further \in {"go", "params"}, NEW refused \in {"silent", "denied"},
         Decide(r, kinds, further, refused),
         further = "go" => "api_iot_update" \notin kinds
  PROVE RInv'
<1> DEFINE can == UNION {PermsOf(x) : x \in req[r].held}
           next == IF Needs(req[r].kind) \cap can = {} THEN refused ELSE further
           q == WithDecision(req[r], next, can)
<1>1. req[r] \in ReqType /\ UNCHANGED <<tables, scene>> /\ req[r].st = "can"
      /\ req' = [req EXCEPT ![r] = q] /\ req[r].kind \in kinds
  BY DEF KInv, Decide, WithDecision
<1> HIDE DEF can
<1>2. q.st = next /\ Kept(req[r], q)
  BY <1>1, ReadDecision
<1>3. next \in {"silent", "denied", "go", "params"} /\ (next = "go" => further = "go")
  OBVIOUS
<1> HIDE DEF q
<1>4. Others(r) /\ req'[r] = q /\ UNCHANGED tables
  BY <1>1, ReadActs
<1>5. UNCHANGED <<pass, member, assign, grant>>
  BY <1>4 DEF tables
<1>6. ASSUME req'[r].quiet PROVE CheckOK(req[r])'
  <2>1. req[r].held = {x \in AllRoles : Holds(req[r].by, req[r].app, x)}
    BY <1>1, <1>2, <1>4, <1>6 DEF RInv, Exact, CheckOK, HeldExact, Kept
  <2>2. Entitled(req[r]) <=> Needs(req[r].kind) \cap can # {}
    BY <1>1, <2>1 DEF Entitled, May, can
  <2>3. Entitled(req[r])' <=> Entitled(req[r])
    BY <1>2, <1>4, <1>5 DEF Entitled, May, Holds, PermsOf, Kept
  <2>4. req'[r].kind \in AppKinds
    BY <1>1, <1>2, <1>4 DEF Kept
  <2> QED
    BY <1>2, <1>4, <2>2, <2>3, <2>4 DEF CheckOK
<1> HIDE DEF next
<1> QED
  BY <1>1, <1>2, <1>3, <1>4, <1>5, <1>6, KindOfCheck, Checking DEF CheckStages

LEMMA RLoadParameters ==
  ASSUME KInv, RInv, NEW r \in Reqs, LoadParameters(r), req[r].kind \in AppKinds PROVE RInv'
<1> DEFINE s == IF ParamsHere(req[r]) THEN "go" ELSE "missing"
           q == [req[r] EXCEPT !.st = s]
<1>1. req[r] \in ReqType /\ UNCHANGED <<tables, scene>> /\ req[r].st = "params"
      /\ req' = [req EXCEPT ![r] = q] /\ s \in Stages
  BY DEF KInv, LoadParameters, Stages, Final
<1>2. s \in {"go", "missing"} /\ (s = "go" => ParamsHere(req[r]))
  OBVIOUS
<1> HIDE DEF s
<1>3. q.st = s /\ q.quiet = req[r].quiet /\ SameParams(req[r], q)
  BY <1>1, NewStage
<1> HIDE DEF q
<1>4. Others(r) /\ req'[r] = q /\ UNCHANGED tables
  BY <1>1, ReadActs
<1>5. UNCHANGED <<pass, member, assign, grant, row, of>> /\ Kept(req[r], req'[r])
  BY <1>3, <1>4 DEF tables, Kept, SameParams
<1>6. CASE s = "missing"
  BY <1>3, <1>4, <1>5, <1>6, KindOfCheck, Waits DEF WaitStages
<1>7. CASE s = "go"
  <2>1. ASSUME req'[r].quiet PROVE CheckOK(req[r])'
    <3>1. Entitled(req[r])
      BY <1>1, <1>3, <1>4, <2>1 DEF RInv, Exact, CheckOK
    <3>2. Entitled(req[r])' <=> Entitled(req[r])
      BY <1>4, <1>5 DEF Entitled, May, Holds, PermsOf, Kept
    <3> QED
      BY <1>3, <1>4, <1>7, <3>1, <3>2 DEF CheckOK
  <2>2. req[r].kind = "api_iot_update" => Matches(req[r])'
    <3>1. ASSUME req[r].kind = "api_iot_update" PROVE Matches(req[r])
      <4>1. req[r].who \in Agents
        BY <3>1 DEF KInv, ReqsOK, ParamsOK
      <4> QED
        BY <1>2, <1>7, <3>1, <4>1 DEF ParamsHere, IotaHere, CreateKinds, Matches
    <3>2. Matches(req[r])' <=> Matches(req[r])
      BY <1>3, <1>4, <1>5 DEF Matches, Here, SameParams
    <3> QED
      BY <3>1, <3>2
  <2> QED
    BY <1>3, <1>4, <1>5, <1>7, <2>1, <2>2, KindOfCheck, Checking DEF CheckStages
<1> QED
  BY <1>2, <1>6, <1>7

\* A creation.
LEMMA Creates ==
  ASSUME RInv, NEW r \in Reqs, Others(r), Kept(req[r], req'[r]), UNCHANGED pass,
         req[r].kind \in AppMakers \cup OrgMakers,
         req'[r].st \notin {"permit", "deny", "params"},
         req'[r].quiet => CreateOK(req[r])'
  PROVE  RInv'
<1>1. req'[r].kind = req[r].kind
  BY DEF Kept
<1>2. Names(req[r])'
  BY NamesStay DEF RInv, Others
<1>3. /\ req[r].kind \notin DecisionKinds \cup SavedKinds \cup EquipKinds
      /\ req[r].kind \notin AppKinds
  BY KindOfCheck DEF SavedKinds, DecisionKinds, AppMakers, OrgMakers, EquipKinds,
     AgentMakers, ProxyMakers
<1>4. DecideOK(req[r])' /\ SavedOK(req[r])' /\ EquipOK(r, req[r])'
  BY <1>1, <1>2, <1>3, NoDecide, NoSaved, NoEquip
<1>5. CheckOK(req[r])'
  BY <1>1, <1>3 DEF CheckOK
<1>6. Exact(r)'
  BY <1>4, <1>5 DEF Exact
<1> QED
  BY <1>6, PassStays, GoesOn

LEMMA RRefuseBody ==
  ASSUME KInv, RInv, NEW r \in Reqs, RefuseBody(r) PROVE RInv'
<1>1. req[r].kind \in BodyKinds /\ Ended(r, req[r].kind, "go", "refused")
  BY DEF RefuseBody
<1>2. /\ Others(r) /\ UNCHANGED tables /\ req'[r].st = "refused"
      /\ Kept(req[r], req'[r])
  BY <1>1, EndedActs DEF Stages, Final
<1>3. UNCHANGED pass
  BY <1>2 DEF tables
<1>4. CASE req[r].kind \in OrgMakers
  <2>1. CreateOK(req[r])'
    BY <1>2, <1>4 DEF CreateOK, Kept, OrgMakers, AppMakers, Working
  <2> QED
    BY <1>2, <1>3, <1>4, <2>1, Creates
<1>5. CASE req[r].kind \notin OrgMakers
  <2>1. req[r].kind \notin DecisionKinds \cup AppMakers
    BY <1>1 DEF BodyKinds, DecisionKinds, AppMakers
  <2> QED
    BY <1>2, <1>3, <1>5, <2>1, Waits DEF WaitStages
<1> QED
  BY <1>4, <1>5

\* Whoever is disturbed claims nothing.
LEMMA Disturbs ==
  ASSUME RInv, NEW r \in Reqs, Others(r), Kept(req[r], req'[r]), UNCHANGED pass,
         ~req[r].quiet
  PROVE  RInv'
<1>1. Exact(r)'
  BY DEF Exact, Kept
<1> QED
  BY <1>1, PassStays, GoesOn

LEMMA RLoadMember ==
  ASSUME KInv, RInv, NEW r \in Reqs, LoadParameters(r), req[r].kind \notin AppKinds PROVE RInv'
<1> DEFINE s == IF ParamsHere(req[r]) THEN "go" ELSE "missing"
           q == [req[r] EXCEPT !.st = s]
<1>1. req[r] \in ReqType /\ UNCHANGED <<tables, scene>> /\ req[r].st = "params"
      /\ req' = [req EXCEPT ![r] = q] /\ s \in Stages
  BY DEF KInv, LoadParameters, Stages, Final
<1>2. s \in {"go", "missing"}
  OBVIOUS
<1> HIDE DEF s
<1>3. q.st = s /\ q.quiet = req[r].quiet /\ SameParams(req[r], q)
  BY <1>1, NewStage
<1> HIDE DEF q
<1>4. Others(r) /\ req'[r] = q /\ UNCHANGED tables
  BY <1>1, ReadActs
<1>5. UNCHANGED pass /\ Kept(req[r], req'[r])
  BY <1>3, <1>4 DEF tables, Kept, SameParams
<1>6. CASE ~req[r].quiet
  BY <1>4, <1>5, <1>6, Disturbs
<1>7. CASE req[r].quiet
  <2>1. req[r].kind \in {"addRole", "removeRole"}
    BY <1>1, <1>7 DEF RInv, Exact, CheckOK
  <2>2. req[r].kind \notin DecisionKinds \cup AppMakers \cup OrgMakers
    BY <2>1 DEF DecisionKinds, AppMakers, OrgMakers
  <2>3. CASE s = "missing"
    BY <1>3, <1>4, <1>5, <2>2, <2>3, Waits DEF WaitStages
  <2>4. CASE s = "go"
    <3>1. CheckOK(req[r])'
      BY <1>3, <1>4, <2>4 DEF CheckOK, SameParams
    <3> QED
      BY <1>3, <1>4, <1>5, <2>1, <2>2, <2>4, <3>1, Checking DEF CheckStages
  <2> QED
    BY <1>2, <2>3, <2>4
<1> QED
  BY <1>6, <1>7

LEMMA RCheck == ASSUME KInv, RInv, NEW r \in Reqs, Check(r) PROVE RInv'
<1>1. ASSUME OwnedPermissions(r) PROVE RInv'
  BY <1>1, RDecide DEF OwnedPermissions, ApiAppKinds, ApiManageKinds
<1>2. ASSUME CheckRequest(r) PROVE RInv'
  <2>1. ApiAppKinds \subseteq AppKinds
    BY DEF AppKinds
  <2> QED
    BY <1>2, <2>1, RDecide DEF CheckRequest
<1>3. ASSUME LoadParameters(r) PROVE RInv'
  BY <1>3, RLoadParameters, RLoadMember
<1> QED
  BY <1>1, <1>2, <1>3, RLoad, RFindMemberships, RFindRoles, RRefuseBody DEF Check

-----------------------------------------------------------------------------
(* Organizations. *)

\* A request that reads, or answers, and remembers nothing more.
LEMMA MovedActs ==
  ASSUME KInv, NEW r \in Reqs, NEW s \in Stages, req' = [req EXCEPT ![r].st = s],
         UNCHANGED <<tables, scene>>, req[r].st # "ok"
  PROVE  /\ Others(r) /\ UNCHANGED tables /\ UNCHANGED pass /\ req'[r].st = s
         /\ SameParams(req[r], req'[r]) /\ SameRest(req[r], req'[r])
         /\ Kept(req[r], req'[r])
<1> DEFINE q == [req[r] EXCEPT !.st = s]
<1>1. req[r] \in ReqType
  BY DEF KInv
<1>2. q.st = s /\ q.quiet = req[r].quiet /\ SameParams(req[r], q) /\ SameRest(req[r], q)
  BY <1>1, NewStage
<1>3. req' = [req EXCEPT ![r] = q]
  OBVIOUS
<1> HIDE DEF q
<1>4. Others(r) /\ req'[r] = q /\ UNCHANGED tables
  BY <1>3, ReadActs
<1> QED
  BY <1>2, <1>4 DEF Kept, SameParams, tables

LEMMA KindOfOrg ==
  ASSUME NEW k \in OrgKinds \cup {"org_remove"}
  PROVE  k \notin DecisionKinds \cup AppMakers \cup OrgMakers \cup EquipKinds \cup AppKinds
  BY DEF OrgKinds, AppKinds, DecisionKinds, AppMakers, OrgMakers, WebRolesKinds,
     WebAssignKinds, WebManageKinds, ApiAppKinds, ApiRolesKinds, ApiAssignKinds,
     ApiManageKinds, EquipKinds, AgentMakers, ProxyMakers

LEMMA ROwners ==
  ASSUME KInv, RInv, NEW r \in Reqs, LoadOrganization(r) \/ OwnersOnly(r) PROVE RInv'
<1>1. PICK s \in {"missing", "go", "owner", "denied", "params"} :
         /\ req' = [req EXCEPT ![r].st = s]
         /\ s = "params" => req[r].kind \in {"addRole", "removeRole"}
  <2>1. CASE LoadOrganization(r)
    <3> DEFINE next == IF ~Here(req[r].org) THEN "missing"
                       ELSE IF req[r].kind = "org_remove" THEN "go" ELSE "owner"
    <3>1. req' = [req EXCEPT ![r].st = next]
      BY <2>1 DEF LoadOrganization
    <3> QED
      BY <3>1
  <2>2. CASE OwnersOnly(r)
    <3> DEFINE next == IF OwnerRows(req[r].org, req[r].by) = {} THEN "denied"
                       ELSE IF req[r].kind \in {"addRole", "removeRole"}
                       THEN "params" ELSE "go"
    <3>1. req' = [req EXCEPT ![r].st = next]
      BY <2>2 DEF OwnersOnly
    <3> QED
      BY <3>1
  <2> QED
    BY <2>1, <2>2
<1>2. UNCHANGED <<tables, scene>> /\ req[r].st \in {"load", "owner"}
      /\ req[r].kind \in OrgKinds \cup {"org_remove"} /\ s \in Stages
  BY DEF LoadOrganization, OwnersOnly, Stages, Final
<1>3. /\ Others(r) /\ UNCHANGED pass /\ req'[r].st = s /\ Kept(req[r], req'[r])
  BY <1>1, <1>2, MovedActs
<1>4. req[r].kind \notin DecisionKinds \cup AppMakers \cup OrgMakers
      /\ req[r].kind \notin EquipKinds \cup AppKinds
  BY <1>2, KindOfOrg
<1>5. CASE s \in {"missing", "owner"}
  BY <1>3, <1>4, <1>5, Waits DEF WaitStages
<1>6. CASE s \in {"go", "denied", "params"}
  <2>1. CheckOK(req[r])'
    BY <1>1, <1>3, <1>4 DEF CheckOK, Kept
  <2>2. req[r].kind # "api_iot_update"
    BY <1>4 DEF EquipKinds
  <2> QED
    BY <1>3, <1>4, <1>6, <2>1, <2>2, Checking DEF CheckStages
<1> QED
  BY <1>5, <1>6

LEMMA RSaveOrganization ==
  ASSUME KInv, RInv, NEW r \in Reqs, NEW k \in OrgMakers, SaveOrganization(r, k) PROVE RInv'
<1>1. /\ req[r].kind = k /\ req[r].st = "go" /\ Wrote(r, "second")
      /\ row' = [row EXCEPT ![req[r].org] = "here"] /\ UNCHANGED pass
  BY DEF SaveOrganization, At
<1>2. /\ Others(r) /\ req'[r].st = "second" /\ SameParams(req[r], req'[r])
      /\ req'[r].quiet = req[r].quiet /\ Kept(req[r], req'[r])
  BY <1>1, WroteActs DEF Stages
<1>3. req[r].org \in Ids /\ row \in [Ids -> {"free", "here", "gone"}]
  BY <1>1 DEF KInv, ReqsOK, ParamsOK, Ids, TablesOK, TablesType
<1>4. ASSUME req'[r].quiet PROVE CreateOK(req[r])'
  <2>1. Here(req[r].by)
    BY <1>1, <1>2, <1>4 DEF RInv, Exact, CreateOK
  <2>2. Here(req[r].by)' /\ Here(req[r].org)'
    BY <1>1, <1>2, <1>3, <2>1 DEF Here, SameParams
  <2> QED
    BY <1>1, <1>2, <2>2 DEF CreateOK, SameParams, OrgMakers, AppMakers
<1> QED
  BY <1>1, <1>2, <1>4, Creates

LEMMA RCreateOwner ==
  ASSUME KInv, RInv, NEW r \in Reqs, NEW k \in OrgMakers, NEW failed \in {"hung", "failed"},
         CreateOwner(r, k, failed)
  PROVE  RInv'
<1>1. req[r].kind = k /\ req[r].st = "second"
  BY DEF CreateOwner, At
<1>2. CASE /\ Ended(r, k, "second", failed) /\ ~Exists({req[r].org, req[r].by})
  <2>1. Others(r) /\ UNCHANGED tables /\ Kept(req[r], req'[r])
    BY <1>2, EndedActs DEF Stages, Final
  <2>2. ~req[r].quiet
    BY <1>1, <1>2 DEF RInv, Exact, CreateOK, Exists
  <2> QED
    BY <2>1, <2>2, Disturbs DEF tables
<1>3. CASE /\ Wrote(r, "ok") /\ UNCHANGED pass
           /\ member' = member \cup {[id |-> fresh, org |-> req[r].org, user |-> req[r].by,
                                      role |-> "owner"]}
  <2>1. /\ Others(r) /\ req'[r].st = "ok" /\ SameParams(req[r], req'[r])
        /\ Kept(req[r], req'[r])
    BY <1>1, <1>3, WroteActs DEF Stages, Final
  <2> DEFINE m == [id |-> fresh, org |-> req[r].org, user |-> req[r].by, role |-> "owner"]
  <2>2. (OwnerRows(req[r].org, req[r].by) # {})'
    <3>1. m \in member' /\ m.org = req[r].org /\ m.user = req[r].by /\ m.role = "owner"
      BY <1>3
    <3>2. req'[r].org = req[r].org /\ req'[r].by = req[r].by
      BY <2>1 DEF SameParams
    <3> HIDE DEF m
    <3> QED
      BY <3>1, <3>2 DEF OwnerRows
  <2>3. CreateOK(req[r])'
    BY <1>1, <2>1, <2>2 DEF CreateOK, SameParams, OrgMakers, AppMakers
  <2> QED
    BY <1>1, <1>3, <2>1, <2>3, Creates
<1> QED
  BY <1>2, <1>3 DEF CreateOwner

\* Handlers that no property is about.
LEMMA PlainOrg ==
  ASSUME KInv, RInv, NEW r \in Reqs,
         UpdateInfo(r) \/ ApiUpdateOrganization(r) \/ DestroyOrganization(r)
           \/ ApiDeleteOrganization(r) \/ Remove(r) \/ RemoveRole(r)
  PROVE  RInv'
<1>1. PICK k \in {"org_update_info", "api_org_update", "org_destroy", "api_org_delete",
                  "org_remove", "removeRole"} : At(r, k, "go")
  BY DEF UpdateInfo, ApiUpdateOrganization, DestroyOrganization, ApiDeleteOrganization,
     Remove, RemoveRole, Ended, Reading
<1>2. req[r].kind \in OrgKinds \cup {"org_remove"} /\ req[r].kind \notin SavedKinds
      /\ req[r].st = "go"
  BY <1>1 DEF OrgKinds, SavedKinds, At
<1>3. req[r].kind \notin DecisionKinds \cup AppMakers \cup OrgMakers \cup SavedKinds
                           \cup EquipKinds
  BY <1>2, KindOfOrg
<1>4. CASE UpdateInfo(r) \/ ApiUpdateOrganization(r)
  <2>1. Ended(r, req[r].kind, "go", "ok")
    BY <1>1, <1>4 DEF UpdateInfo, ApiUpdateOrganization, At, Ended, Reading
  <2>2. Others(r) /\ UNCHANGED tables /\ req'[r].st = "ok" /\ Kept(req[r], req'[r])
    BY <2>1, EndedActs DEF Stages, Final
  <2> QED
    BY <1>3, <2>2, Plain DEF tables, CheckStages
<1>5. ASSUME NEW s \in {"ok", "missing"}, Wrote(r, s), UNCHANGED pass PROVE RInv'
  <2>1. Others(r) /\ req'[r].st = s /\ Kept(req[r], req'[r])
    BY <1>2, <1>5, WroteActs DEF Stages, Final
  <2> QED
    BY <1>3, <1>5, <2>1, Plain DEF CheckStages
<1> QED
  BY <1>4, <1>5 DEF DestroyOrganization, ApiDeleteOrganization, Remove, RemoveRole, Delete

LEMMA RDestroyMembers ==
  ASSUME KInv, RInv, NEW r \in Reqs, DestroyMembers(r) PROVE RInv'
<1>a. CASE Ended(r, "add_members", "go", "failed")
  <2>1. Others(r) /\ UNCHANGED tables /\ req'[r].st = "failed" /\ Kept(req[r], req'[r])
    BY <1>a, EndedActs DEF Stages, Final
  <2>2. SavedOK(req[r])'
    BY <2>1, NoSaved
  <2>3. req[r].kind = "add_members" /\ req[r].st = "go"
    BY <1>a DEF Ended, Reading, At
  <2> QED
    BY <2>1, <2>2, <2>3, Saves DEF SavedKinds, CheckStages, tables
<1> SUFFICES ASSUME ~Ended(r, "add_members", "go", "failed") PROVE RInv'
  BY <1>a
<1>1. /\ req[r].kind = "add_members" /\ req[r].st = "go" /\ UNCHANGED pass
      /\ member' = {m \in member : m.org # req[r].org}
  BY DEF DestroyMembers, At
<1>2. PICK s \in {"failed", "fill"} : Wrote(r, s)
  BY DEF DestroyMembers
<1>3. Others(r) /\ req'[r].st = s /\ SameParams(req[r], req'[r]) /\ Kept(req[r], req'[r])
  BY <1>1, <1>2, WroteActs DEF Stages, Final
<1>4. (MembersOf(req[r].org) = {})'
  BY <1>1, <1>3 DEF MembersOf, SameParams
<1>5. SavedOK(req[r])'
  BY <1>1, <1>3, <1>4 DEF SavedOK, SameParams
<1> QED
  BY <1>1, <1>3, <1>5, Saves DEF SavedKinds, CheckStages

LEMMA RCreateMembers ==
  ASSUME KInv, RInv, NEW r \in Reqs, CreateMembers(r) PROVE RInv'
<1>1. req[r].kind = "add_members" /\ req[r].st = "fill"
  BY DEF CreateMembers, At
<1>2. CASE Ended(r, "add_members", "fill", "failed")
  <2>1. Others(r) /\ UNCHANGED tables /\ req'[r].st = "failed" /\ Kept(req[r], req'[r])
    BY <1>2, EndedActs DEF Stages, Final
  <2>2. SavedOK(req[r])'
    BY <2>1, NoSaved
  <2> QED
    BY <1>1, <2>1, <2>2, Saves DEF SavedKinds, CheckStages, tables
<1>3. CASE ~Ended(r, "add_members", "fill", "failed")
  <2> DEFINE form == req[r].form
  <2>1. PICK ids \in [form -> fresh..(fresh + Cardinality(form) - 1)] :
           member' = member \cup {[id |-> ids[f], org |-> req[r].org, user |-> f.user,
                                   role |-> f.role] : f \in form}
    BY <1>3 DEF CreateMembers
  <2>2. Wrote(r, "ok") /\ UNCHANGED pass
    BY <1>3 DEF CreateMembers
  <2>3. /\ Others(r) /\ req'[r].st = "ok" /\ SameParams(req[r], req'[r])
        /\ Kept(req[r], req'[r])
    BY <1>1, <2>2, WroteActs DEF Stages, Final
  <2>4. form \subseteq [user : Users, role : MemberRoles]
    BY <1>1 DEF KInv, ReqsOK, ParamsOK, MemberForms
  <2> DEFINE made(f) == [id |-> ids[f], org |-> req[r].org, user |-> f.user,
                         role |-> f.role]
  <2>5. ASSUME req'[r].quiet PROVE SavedOK(req[r])'
    <3>1. MembersOf(req[r].org) = {}
      BY <1>1, <2>3, <2>5 DEF RInv, Exact, SavedOK, Kept
    <3>2. MembersOf(req[r].org)' = {made(f) : f \in form}
      <4>1. req'[r].org = req[r].org /\ \A f \in form : made(f).org = req[r].org
        BY <2>3 DEF SameParams
      <4> QED
        BY <2>1, <3>1, <4>1 DEF MembersOf
    <3>3. \A f \in form : [user |-> made(f).user, role |-> made(f).role] = f
      BY <2>4
    <3> HIDE DEF made, form
    <3>4. {[user |-> m.user, role |-> m.role] : m \in {made(f) : f \in form}} = form
      BY <3>3
    <3>5. MembersHeld(req[r])'
      BY <2>3, <3>2, <3>4 DEF MembersHeld, SameParams, form
    <3> QED
      BY <1>1, <2>3, <3>5 DEF SavedOK, SameParams
  <2> QED
    BY <1>1, <2>2, <2>3, <2>5, Saves DEF SavedKinds, CheckStages
<1> QED
  BY <1>2, <1>3

LEMMA RReadAdministrators ==
  ASSUME KInv, RInv, NEW r \in Reqs, ReadAdministrators(r) PROVE RInv'
<1> DEFINE q == WithAdmins(req[r], "change", admin)
<1>1. req[r] \in ReqType /\ UNCHANGED <<tables, scene>>
      /\ req[r].kind = "update_administrators" /\ req[r].st = "go"
      /\ req' = [req EXCEPT ![r] = q]
  BY DEF KInv, ReadAdministrators, Reading, At, WithAdmins
<1>2. q.st = "change" /\ q.admins = admin /\ Kept(req[r], q)
  BY <1>1, ReadAdmins
<1> HIDE DEF q
<1>3. Others(r) /\ req'[r] = q /\ UNCHANGED tables
  BY <1>1, ReadActs
<1>4. SavedOK(req[r])'
  BY <1>1, <1>2, <1>3 DEF SavedOK, Kept, tables
<1> QED
  BY <1>1, <1>2, <1>3, <1>4, Saves DEF SavedKinds, CheckStages, tables

LEMMA RAdministrators ==
  ASSUME KInv, RInv, NEW r \in Reqs, AddAdministrators(r) \/ RemoveAdministrators(r)
  PROVE  RInv'
<1>1. CASE AddAdministrators(r)
  <2>1. /\ req[r].kind = "update_administrators" /\ req[r].st = "change"
        /\ admin' = admin \cup {u \in req[r].form \ req[r].admins : Here(u)}
        /\ Wrote(r, "second") /\ UNCHANGED <<row, pass>>
    BY <1>1 DEF AddAdministrators, At
  <2>2. /\ Others(r) /\ req'[r].st = "second" /\ SameParams(req[r], req'[r])
        /\ SameRest(req[r], req'[r]) /\ Kept(req[r], req'[r])
    BY <2>1, WroteActs DEF Stages, Final
  <2>3. ASSUME req'[r].quiet PROVE SavedOK(req[r])'
    <3>1. req[r].admins = admin
      BY <2>1, <2>2, <2>3 DEF RInv, Exact, SavedOK, Kept
    <3>2. AdminsAdded(req[r])'
      BY <2>1, <2>2, <3>1 DEF AdminsAdded, SameParams, SameRest, Here
    <3> QED
      BY <2>1, <2>2, <3>2 DEF SavedOK, SameParams
  <2> QED
    BY <2>1, <2>2, <2>3, Saves DEF SavedKinds, CheckStages
<1>2. CASE RemoveAdministrators(r)
  <2>1. /\ req[r].kind = "update_administrators" /\ req[r].st = "second"
        /\ admin' = admin \ (req[r].admins \ req[r].form)
        /\ Wrote(r, "ok") /\ UNCHANGED <<row, pass>>
    BY <1>2 DEF RemoveAdministrators, At
  <2>2. /\ Others(r) /\ req'[r].st = "ok" /\ SameParams(req[r], req'[r])
        /\ SameRest(req[r], req'[r]) /\ Kept(req[r], req'[r])
    BY <2>1, WroteActs DEF Stages, Final
  <2>3. ASSUME req'[r].quiet PROVE SavedOK(req[r])'
    <3>1. admin = req[r].admins \cup {u \in req[r].form \ req[r].admins : Here(u)}
      BY <2>1, <2>2, <2>3 DEF RInv, Exact, SavedOK, AdminsAdded, Kept
    <3>2. \A u \in admin : Here(u)
      BY DEF KInv, TablesOK, AdminFits
    <3>3. admin' = {u \in req[r].form : Here(u)}
      BY <2>1, <3>1, <3>2
    <3>4. (admin = {u \in req[r].form : Here(u)})'
      BY <2>1, <2>2, <3>3 DEF Here, SameParams
    <3> QED
      BY <2>1, <2>2, <3>4 DEF SavedOK, SameParams
  <2> QED
    BY <2>1, <2>2, <2>3, Saves DEF SavedKinds, CheckStages
<1> QED
  BY <1>1, <1>2

LEMMA RFindMember ==
  ASSUME KInv, RInv, NEW r \in Reqs, FindMember(r) PROVE RInv'
<1> DEFINE rows == {m \in member : m.org = req[r].org /\ m.user = req[r].who}
<1>1. PICK m \in IF rows = {} THEN {None} ELSE rows :
         Reading(r, "addRole", "go", [req[r] EXCEPT !.st = "change", !.found = m])
  BY DEF FindMember
<1> DEFINE q == WithFound(req[r], "change", m)
<1>2. req[r] \in ReqType /\ UNCHANGED <<tables, scene>>
      /\ req[r].kind = "addRole" /\ req[r].st = "go" /\ req' = [req EXCEPT ![r] = q]
  BY <1>1 DEF KInv, Reading, At, WithFound
<1>3. q.st = "change" /\ q.found = m /\ Kept(req[r], q)
  BY <1>2, ReadFound
<1> HIDE DEF q
<1>4. Others(r) /\ req'[r] = q /\ UNCHANGED tables
  BY <1>2, ReadActs
<1>5. FoundIts(req[r])'
  BY <1>2, <1>3, <1>4 DEF FoundIts, Kept, tables
<1>6. SavedOK(req[r])'
  BY <1>2, <1>3, <1>4, <1>5 DEF SavedOK, Kept
<1> QED
  BY <1>2, <1>3, <1>4, <1>6, Saves DEF SavedKinds, CheckStages, tables

LEMMA RSaveMember ==
  ASSUME KInv, RInv, NEW r \in Reqs, SaveMember(r) PROVE RInv'
<1> DEFINE saved(m) == IF m.id = req[r].found.id THEN [m EXCEPT !.role = req[r].how] ELSE m
<1>1. /\ req[r].kind = "addRole" /\ req[r].st = "change" /\ req[r].found # None
      /\ member' = {saved(m) : m \in member} /\ Wrote(r, "ok") /\ UNCHANGED pass
  BY DEF SaveMember, At
<1>2. /\ Others(r) /\ req'[r].st = "ok" /\ SameParams(req[r], req'[r])
      /\ Kept(req[r], req'[r])
  BY <1>1, WroteActs DEF Stages, Final
<1>3. ASSUME req'[r].quiet PROVE SavedOK(req[r])'
  <2> DEFINE f == req[r].found
             m == saved(f)
  <2>1. f \in member /\ f.org = req[r].org /\ f.user = req[r].who
    BY <1>1, <1>2, <1>3 DEF RInv, Exact, SavedOK, FoundIts, Kept
  <2>2. f \in MemberRow
    BY <2>1 DEF KInv, TablesOK, TablesType
  <2>3. m = [f EXCEPT !.role = req[r].how]
    OBVIOUS
  <2>4. m.org = f.org /\ m.user = f.user /\ m.role = req[r].how
    BY <2>2, <2>3 DEF MemberRow
  <2>5. m \in member'
    BY <1>1, <2>1
  <2> HIDE DEF m, f, saved
  <2>6. MemberAdded(req[r])'
    BY <1>2, <2>1, <2>4, <2>5 DEF MemberAdded, SameParams
  <2> QED
    BY <1>1, <1>2, <2>6 DEF SavedOK, SameParams
<1> QED
  BY <1>1, <1>2, <1>3, Saves DEF SavedKinds, CheckStages

LEMMA RCreateMember ==
  ASSUME KInv, RInv, NEW r \in Reqs, CreateMember(r) PROVE RInv'
<1>1. req[r].kind = "addRole" /\ req[r].st = "change"
  BY DEF CreateMember, At
<1>2. CASE Ended(r, "addRole", "change", "failed")
  <2>1. Others(r) /\ UNCHANGED tables /\ req'[r].st = "failed" /\ Kept(req[r], req'[r])
    BY <1>2, EndedActs DEF Stages, Final
  <2>2. SavedOK(req[r])'
    BY <2>1, NoSaved
  <2> QED
    BY <1>1, <2>1, <2>2, Saves DEF SavedKinds, CheckStages, tables
<1>3. CASE ~Ended(r, "addRole", "change", "failed")
  <2> DEFINE m == [id |-> fresh, org |-> req[r].org, user |-> req[r].who, role |-> req[r].how]
  <2>1. member' = member \cup {m} /\ Wrote(r, "ok") /\ UNCHANGED pass
    BY <1>3 DEF CreateMember
  <2>2. /\ Others(r) /\ req'[r].st = "ok" /\ SameParams(req[r], req'[r])
        /\ Kept(req[r], req'[r])
    BY <1>1, <2>1, WroteActs DEF Stages, Final
  <2>3. m \in member' /\ m.org = req[r].org /\ m.user = req[r].who /\ m.role = req[r].how
    BY <2>1
  <2> HIDE DEF m
  <2>4. MemberAdded(req[r])'
    BY <2>2, <2>3 DEF MemberAdded, SameParams
  <2>5. SavedOK(req[r])'
    BY <1>1, <2>2, <2>4 DEF SavedOK, SameParams
  <2> QED
    BY <1>1, <2>1, <2>2, <2>5, Saves DEF SavedKinds, CheckStages
<1> QED
  BY <1>2, <1>3

LEMMA ROrganization ==
  ASSUME KInv, RInv, NEW r \in Reqs, OrganizationStep(r) PROVE RInv'
<1>1. {"org_create", "api_org_create"} \subseteq OrgMakers
  BY DEF OrgMakers
<1> QED
  BY <1>1, ROwners, RSaveOrganization, RCreateOwner, PlainOrg, RDestroyMembers,
     RCreateMembers, RReadAdministrators, RAdministrators, RFindMember, RSaveMember,
     RCreateMember DEF OrganizationStep

-----------------------------------------------------------------------------
(* Applications. *)

LEMMA RSaveApplication ==
  ASSUME KInv, RInv, NEW r \in Reqs, NEW k \in AppMakers, SaveApplication(r, k) PROVE RInv'
<1> DEFINE stage == IF req[r].st = "go" /\ req[r].org = None THEN "fill" ELSE req[r].st
           p(s) == [req[s] EXCEPT !.quiet = FALSE]
           q == WithSaved(req[r], stage)
<1>1. /\ req[r].kind = k /\ req[r].st \in {"go", "second", "provider", "change"}
      /\ row' = [row EXCEPT ![req[r].app] = "here"]
      /\ UNCHANGED <<assign, pass, scene>> /\ \A s \in Reqs : req[s] \in ReqType
  BY DEF SaveApplication, KInv
<1>2. q.st = stage /\ Kept(req[r], q)
  <2>1. req[r] \in ReqType
    BY <1>1
  <2> HIDE DEF stage
  <2> QED
    BY <2>1, ReadSaved
<1>3. req' = [s \in Reqs |-> IF s = r THEN q ELSE p(s)]
  <2>1. req' = [s \in Reqs |-> IF s = r
          THEN [req[s] EXCEPT !.saved = TRUE,
                              !.st = IF @ = "go" /\ req[s].org = None THEN "fill" ELSE @]
          ELSE [req[s] EXCEPT !.quiet = FALSE]]
    BY DEF SaveApplication
  <2>2. [req[r] EXCEPT !.saved = TRUE,
                       !.st = IF @ = "go" /\ req[r].org = None THEN "fill" ELSE @] = q
    BY <1>1 DEF WithSaved, ReqType
  <2> HIDE DEF q
  <2> QED
    BY <2>1, <2>2
<1>4. \A s \in Reqs : p(s).quiet = FALSE /\ p(s).st = req[s].st /\ SameParams(req[s], p(s))
  BY <1>1, Disturbed
<1>5. stage \in {"second", "provider", "change", "go", "fill"}
      /\ (stage = "provider" => req[r].st = "provider")
  BY <1>1
<1> HIDE DEF q, p, stage
<1>6. Others(r) /\ req'[r] = q
  BY <1>1, <1>3, <1>4 DEF Others
<1>7. req[r].app \in Ids /\ row \in [Ids -> {"free", "here", "gone"}]
  BY <1>1 DEF KInv, ReqsOK, ParamsOK, Ids, TablesOK, TablesType
<1>8. ASSUME req'[r].quiet PROVE CreateOK(req[r])'
  <2>1. Here(req[r].by) /\ (stage = "provider" => assign[ProviderKey(req[r])] > 0)
    BY <1>1, <1>2, <1>5, <1>6, <1>8 DEF RInv, Exact, CreateOK, Working, Kept
  <2>2. Here(req[r].by)' /\ Here(req[r].app)'
    BY <1>1, <1>2, <1>6, <1>7, <2>1 DEF Here, Kept
  <2>3. (assign[ProviderKey(req[r])])' = assign[ProviderKey(req[r])]
    BY <1>1, <1>2, <1>6 DEF ProviderKey, Kept
  <2> QED
    BY <1>1, <1>2, <1>5, <1>6, <2>1, <2>2, <2>3 DEF CreateOK, Kept, OrgMakers, AppMakers
<1> QED
  BY <1>1, <1>2, <1>5, <1>6, <1>8, Creates

\* Where the provider's row goes.
LEMMA KeyFits ==
  ASSUME KInv, NEW r \in Reqs, req[r].kind \in AppMakers
  PROVE  ProviderKey(req[r]) \in Assignable
<1>1. req[r].app \in Apps /\ req[r].by \in Users /\ req[r].org \in Orgs \cup {None}
  <2>1. req[r] \in ReqType /\ req[r].kind # "none"
    BY DEF KInv, AppMakers
  <2> QED
    BY <2>1 DEF KInv, ReqsOK, ParamsOK, ReqType
<1> QED
  BY <1>1 DEF ProviderKey, Assignable, AllRoles, Internal, Holders, OfUser, OfOrg, MemberRoles

LEMMA RProvider ==
  ASSUME KInv, RInv, NEW r \in Reqs, AddProvider(r), NEW s \in {"ok", "provider"},
         Wrote(r, s), req[r].kind \in AppMakers, req[r].st \in {"fill", "second"},
         Here(req[r].app)
  PROVE  RInv'
<1>1. /\ Others(r) /\ req'[r].st = s /\ SameParams(req[r], req'[r])
      /\ Kept(req[r], req'[r])
  BY WroteActs DEF Stages, Final
<1>2. /\ assign' = [assign EXCEPT ![ProviderKey(req[r])] = @ + 1]
      /\ UNCHANGED <<row, pass>> /\ assign \in [Assignable -> Nat]
  BY DEF AddProvider, KInv, TablesOK, TablesType
<1> DEFINE key == ProviderKey(req[r])
<1>3. key \in Assignable
  BY KeyFits
<1>4. ProviderKey(req[r])' = key
  BY <1>1 DEF ProviderKey, SameParams
<1> HIDE DEF key
<1>5. assign'[key] > 0
  BY <1>2, <1>3 DEF key
<1>6. ASSUME req'[r].quiet PROVE CreateOK(req[r])'
  <2>1. Here(req[r].by)
    BY <1>1, <1>6 DEF RInv, Exact, CreateOK, Working, Kept
  <2>2. Here(req[r].by)' /\ Here(req[r].app)'
    BY <1>1, <1>2, <2>1 DEF Here, SameParams
  <2> QED
    BY <1>1, <1>4, <1>5, <2>2 DEF CreateOK, SameParams, OrgMakers, AppMakers
<1> QED
  BY <1>1, <1>2, <1>6, Creates

\* A creation goes on without a row.
LEMMA RUnprovided ==
  ASSUME KInv, RInv, NEW r \in Reqs, NEW s \in {"hung", "change", "second"}, NEW st,
         st \in {"go", "fill", "second"}, req[r].kind \in AppMakers,
         Ended(r, req[r].kind, st, s)
  PROVE  RInv'
<1>1. /\ Others(r) /\ UNCHANGED tables /\ req'[r].st = s /\ Kept(req[r], req'[r])
      /\ req[r].st = st
  <2>1. s \in Stages /\ st # "ok"
    BY DEF Stages, Final
  <2>2. req[r].st = st
    BY DEF Ended, Reading, At
  <2> QED
    BY <2>1, <2>2, EndedActs
<1>2. ASSUME req'[r].quiet PROVE CreateOK(req[r])'
  <2>1. Here(req[r].by)
    BY <1>1, <1>2 DEF RInv, Exact, CreateOK, Working, Kept
  <2>2. Here(req[r].by)'
    BY <1>1, <2>1 DEF Here, Kept, tables
  <2> QED
    BY <1>1, <2>2 DEF CreateOK, Kept, OrgMakers, AppMakers
<1> QED
  BY <1>1, <1>2, Creates DEF tables

LEMMA RCreateProvider ==
  ASSUME KInv, RInv, NEW r \in Reqs, NEW k \in AppMakers, NEW failed \in {"hung", "failed"},
         CreateProvider(r, k, failed)
  PROVE  RInv'
<1>1. req[r].kind = k /\ req[r].st = "fill" /\ req[r].app \in Ids
  BY DEF CreateProvider, At, KInv, ReqsOK, ParamsOK, Ids
<1>2. CASE Exists({req[r].app, req[r].by}) /\ AddProvider(r) /\ Wrote(r, "ok")
  <2>1. Here(req[r].app)
    BY <1>1, <1>2 DEF Exists
  <2> QED
    BY <1>1, <1>2, <2>1, RProvider
<1>3. CASE ~Exists({req[r].app, req[r].by}) /\ Ended(r, k, "fill", failed)
  <2>1. Others(r) /\ UNCHANGED tables /\ Kept(req[r], req'[r])
    BY <1>3, EndedActs DEF Stages, Final
  <2>2. ~req[r].quiet
    BY <1>1, <1>3 DEF RInv, Exact, CreateOK, Working, Exists
  <2> QED
    BY <2>1, <2>2, Disturbs DEF tables
<1> QED
  BY <1>2, <1>3 DEF CreateProvider

LEMMA ROwnersRow ==
  ASSUME KInv, RInv, NEW r \in Reqs, LookUpOwner(r) \/ CreateOwnersRow(r) PROVE RInv'
<1>1. ASSUME req[r].kind = "app_create" PROVE req[r].app \in Ids /\ req[r].kind \in AppMakers
  BY <1>1 DEF KInv, ReqsOK, ParamsOK, AppMakers, Ids
<1>2. CASE LookUpOwner(r)
  <2> DEFINE s == IF OwnerRows(req[r].org, req[r].by) = {} THEN "change" ELSE "second"
  <2>1. Ended(r, "app_create", "go", s) /\ req[r].kind = "app_create"
    BY <1>2 DEF LookUpOwner, Ended, Reading, At
  <2>2. s \in {"change", "second"}
    OBVIOUS
  <2> HIDE DEF s
  <2> QED
    BY <1>1, <2>1, <2>2, RUnprovided
<1>3. CASE CreateOwnersRow(r)
  <2>1. req[r].kind = "app_create" /\ req[r].st = "second"
    BY <1>3 DEF CreateOwnersRow, At
  <2>2. CASE Ended(r, "app_create", "second", "change")
    BY <1>1, <2>1, <2>2, RUnprovided
  <2>3. CASE Exists({req[r].app, req[r].org}) /\ AddProvider(r) /\ Wrote(r, "provider")
    <3>1. Here(req[r].app)
      BY <1>1, <2>1, <2>3 DEF Exists
    <3> QED
      BY <1>1, <2>1, <2>3, <3>1, RProvider
  <2> QED
    BY <1>3, <2>2, <2>3 DEF CreateOwnersRow
<1> QED
  BY <1>2, <1>3

LEMMA RAnswerCreated ==
  ASSUME KInv, RInv, NEW r \in Reqs, AnswerCreated(r) PROVE RInv'
<1>1. /\ Others(r) /\ UNCHANGED tables /\ req'[r].st = "ok" /\ Kept(req[r], req'[r])
      /\ req[r].kind = "app_create" /\ req[r].st = "provider"
  <2>1. Ended(r, "app_create", "provider", "ok")
    BY DEF AnswerCreated
  <2>2. req[r].kind = "app_create" /\ req[r].st = "provider"
    BY <2>1 DEF Ended, Reading, At
  <2> QED
    BY <2>1, <2>2, EndedActs DEF Stages, Final
<1>2. ASSUME req'[r].quiet PROVE CreateOK(req[r])'
  <2>1. Here(req[r].app) /\ assign[ProviderKey(req[r])] > 0
    BY <1>1, <1>2 DEF RInv, Exact, CreateOK, AppMakers, Kept
  <2>2. Here(req[r].app)' /\ (assign[ProviderKey(req[r])] > 0)'
    BY <1>1, <2>1 DEF Here, Kept, tables, ProviderKey
  <2> QED
    BY <1>1, <2>2 DEF CreateOK, Kept, OrgMakers, Working
<1> QED
  BY <1>1, <1>2, Creates DEF AppMakers, tables

LEMMA RDestroyUnowned ==
  ASSUME KInv, RInv, NEW r \in Reqs, DestroyUnowned(r) PROVE RInv'
<1>1. /\ req[r].kind = "app_create" /\ req[r].st = "change"
      /\ Delete({req[r].app}) /\ Wrote(r, "failed")
  BY DEF DestroyUnowned, At
<1>2. /\ Others(r) /\ req'[r].st = "failed" /\ SameParams(req[r], req'[r])
      /\ Kept(req[r], req'[r])
  BY <1>1, WroteActs DEF Stages, Final
<1>3. ProviderKey(req[r]) \in Assignable /\ req[r].app \in Ids
  BY <1>1, KeyFits DEF AppMakers, KInv, ReqsOK, ParamsOK, Ids
<1> DEFINE a == req[r].app
           key == ProviderKey(req[r])
           gone == {a} \cup {x \in DOMAIN of : of[x] \in {a}}
<1>4. /\ row' = [x \in Ids |-> IF x \in gone /\ Here(x) THEN "gone" ELSE row[x]]
      /\ assign' = [k \in Assignable |->
            IF {k.app, k.role, k.to.user, k.to.org} \cap gone = {} THEN assign[k] ELSE 0]
      /\ UNCHANGED pass
  BY <1>1 DEF Delete
<1>5. a \in gone /\ key.app = a
  BY DEF ProviderKey
<1>6. ProviderKey(req[r])' = key
  BY <1>2 DEF ProviderKey, SameParams
<1> HIDE DEF gone, key, a
<1>7. row'[a] # "here" /\ assign'[key] = 0
  BY <1>3, <1>4, <1>5 DEF Here, a, key
<1>8. CreateOK(req[r])'
  BY <1>1, <1>2, <1>6, <1>7 DEF CreateOK, SameParams, OrgMakers, AppMakers, Working, Here, a
<1> QED
  BY <1>1, <1>2, <1>4, <1>8, Creates DEF AppMakers

\* The kinds of tokens, and the end of an application, are nobody's claim.
LEMMA PlainApp ==
  ASSUME KInv, RInv, NEW r \in Reqs,
         AppUpdateInfo(r) \/ ChangeTokenType(r) \/ ResetJwtSecret(r)
           \/ ApiUpdateApplication(r) \/ DestroyApplication(r) \/ ApiDeleteApplication(r)
  PROVE  RInv'
<1>1. PICK k \in {"app_update_info", "change_token_type", "reset_jwt_secret",
                  "api_app_update", "app_destroy", "api_app_delete"} : At(r, k, "go")
  BY DEF AppUpdateInfo, ChangeTokenType, ResetJwtSecret, ApiUpdateApplication,
     DestroyApplication, ApiDeleteApplication, Ended, Reading
<1>2. req[r].kind \notin DecisionKinds \cup AppMakers \cup OrgMakers \cup SavedKinds
                           \cup EquipKinds
      /\ req[r].st = "go"
  BY <1>1 DEF DecisionKinds, AppMakers, OrgMakers, SavedKinds, EquipKinds, AgentMakers,
     ProxyMakers, At
<1>3. ASSUME Ended(r, "reset_jwt_secret", "go", "refused") PROVE RInv'
  <2>1. Others(r) /\ UNCHANGED tables /\ req'[r].st = "refused" /\ Kept(req[r], req'[r])
    BY <1>3, EndedActs DEF Stages, Final
  <2> QED
    BY <1>2, <2>1, Plain DEF tables, CheckStages
<1>4. ASSUME NEW s \in {"ok", "failed"}, Wrote(r, s), UNCHANGED pass PROVE RInv'
  <2>1. Others(r) /\ req'[r].st = s /\ Kept(req[r], req'[r])
    BY <1>2, <1>4, WroteActs DEF Stages, Final
  <2> QED
    BY <1>2, <1>4, <2>1, Plain DEF CheckStages
<1>5. CASE AppUpdateInfo(r) \/ ChangeTokenType(r) \/ ApiUpdateApplication(r)
  <2>1. \E a, t, s : s \in {"ok", "failed"} /\ SetToken(r, a, t, s)
    BY <1>5 DEF AppUpdateInfo, ChangeTokenType, ApiUpdateApplication
  <2> QED
    BY <1>4, <2>1 DEF SetToken
<1>6. CASE ResetJwtSecret(r)
  <2>1. \/ \E a, t, s : s \in {"ok", "failed"} /\ SetToken(r, a, t, s)
        \/ Ended(r, "reset_jwt_secret", "go", "refused")
    BY <1>6 DEF ResetJwtSecret
  <2> QED
    BY <1>3, <1>4, <2>1 DEF SetToken
<1>7. CASE DestroyApplication(r) \/ ApiDeleteApplication(r)
  BY <1>4, <1>7 DEF DestroyApplication, ApiDeleteApplication, Delete
<1> QED
  BY <1>5, <1>6, <1>7

-----------------------------------------------------------------------------
(* Agents and proxies. *)

\* An agent or proxy is made, changed or deleted.
LEMMA Equips ==
  ASSUME RInv, NEW r \in Reqs, Others(r), Kept(req[r], req'[r]), PassOK',
         req[r].kind \in EquipKinds, req'[r].st \notin CheckStages \cup {"permit", "deny"},
         req'[r].quiet => EquipOK(r, req[r])'
  PROVE  RInv'
<1>1. req'[r].kind = req[r].kind
  BY DEF Kept
<1>2. req[r].kind \notin DecisionKinds \cup AppMakers \cup OrgMakers \cup SavedKinds
  BY DEF SavedKinds, DecisionKinds, AppMakers, OrgMakers, EquipKinds, AgentMakers,
     ProxyMakers
<1>3. CheckOK(req[r])' /\ DecideOK(req[r])' /\ CreateOK(req[r])' /\ SavedOK(req[r])'
  BY <1>1, <1>2, NoCheck, NoDecide, NoCreate, NoSaved
<1>4. Exact(r)'
  BY <1>3 DEF Exact
<1> QED
  BY <1>4, GoesOn

\* Whoever makes a password has answered.
LEMMA PassMade ==
  ASSUME RInv, NEW r \in Reqs, Others(r), NEW y \in Agents \cup Proxies,
         pass \in [Agents \cup Proxies -> Reqs \cup {None}],
         pass' = [pass EXCEPT ![y] = r], req'[r].st = "ok", req'[r].who = y
  PROVE  PassOK'
<1> SUFFICES ASSUME NEW x \in Agents \cup Proxies, pass'[x] \in Reqs
             PROVE  req'[pass'[x]].st = "ok" /\ req'[pass'[x]].who = x
  BY DEF PassOK
<1>1. CASE x = y
  BY <1>1
<1>2. CASE x # y
  <2>1. pass'[x] = pass[x]
    BY <1>2
  <2>2. req[pass[x]].st = "ok" /\ req[pass[x]].who = x
    BY <2>1 DEF RInv, PassOK
  <2> QED
    BY <2>1, <2>2 DEF Others, SameParams
<1> QED
  BY <1>1, <1>2

\* Nothing was found, or is there.
LEMMA EquipFails ==
  ASSUME KInv, RInv, NEW r \in Reqs, req[r].kind \in EquipKinds, NEW st, st # "ok",
         NEW s \in {"failed", "missing", "refused"}, Ended(r, req[r].kind, st, s)
  PROVE  RInv'
<1>1. Others(r) /\ UNCHANGED tables /\ req'[r].st = s /\ Kept(req[r], req'[r])
  BY EndedActs DEF Stages, Final
<1>2. PassOK'
  BY <1>1, PassStays DEF tables
<1>3. EquipOK(r, req[r])'
  BY <1>1, NoEquip
<1> QED
  BY <1>1, <1>2, <1>3, Equips DEF CheckStages

LEMMA EquipType ==
  ASSUME KInv
  PROVE  /\ row \in [Ids -> {"free", "here", "gone"}]
         /\ of \in [Roles \cup Perms \cup Agents \cup Proxies -> Apps \cup {None}]
         /\ pass \in [Agents \cup Proxies -> Reqs \cup {None}]
  BY DEF KInv, TablesOK, TablesType

LEMMA RRegister ==
  ASSUME KInv, RInv, NEW r \in Reqs, NEW k \in AgentMakers \cup ProxyMakers,
         NEW stage \in {"go", "change"}, Register(r, k, stage)
  PROVE  RInv'
<1>1. req[r].kind = k /\ req[r].st = stage /\ req[r].kind \in EquipKinds
  BY DEF Register, At, EquipKinds
<1>2. CASE Ended(r, k, stage, "failed")
  BY <1>1, <1>2, EquipFails
<1>3. CASE /\ row' = [row EXCEPT ![req[r].who] = "here"]
           /\ of' = [of EXCEPT ![req[r].who] = req[r].app]
           /\ pass' = [pass EXCEPT ![req[r].who] = r] /\ Wrote(r, "ok")
  <2>1. req[r].who \in Agents \cup Proxies
    BY <1>1 DEF KInv, ReqsOK, ParamsOK
  <2>2. /\ Others(r) /\ req'[r].st = "ok" /\ SameParams(req[r], req'[r])
        /\ Kept(req[r], req'[r])
    BY <1>1, <1>3, WroteActs DEF Stages, Final
  <2>3. req'[r].who = req[r].who /\ req'[r].app = req[r].app
    BY <2>2 DEF SameParams
  <2>4. PassOK'
    BY <1>3, <2>1, <2>2, <2>3, EquipType, PassMade
  <2>5. Matches(req[r])'
    BY <1>3, <2>1, <2>3, EquipType DEF Matches, Here, Ids
  <2>6. EquipOK(r, req[r])'
    BY <1>3, <2>1, <2>2, <2>3, <2>5, EquipType DEF EquipOK, Equipped
  <2> QED
    BY <1>1, <2>2, <2>4, <2>6, Equips DEF CheckStages
<1> QED
  BY <1>2, <1>3 DEF Register

LEMMA RRegisterOne ==
  ASSUME KInv, RInv, NEW r \in Reqs, NEW k \in ProxyMakers,
         NEW s \in {"change", "refused"}, Ended(r, k, "go", s)
  PROVE  RInv'
<1>1. req[r].kind = k /\ req[r].kind \in EquipKinds
  BY DEF Ended, Reading, At, EquipKinds
<1>2. Others(r) /\ UNCHANGED tables /\ req'[r].st = s /\ Kept(req[r], req'[r])
  BY EndedActs DEF Stages, Final
<1>3. PassOK'
  BY <1>2, PassStays DEF tables
<1>4. EquipOK(r, req[r])'
  BY <1>1, <1>2 DEF EquipOK, Kept, ProxyMakers
<1> QED
  BY <1>1, <1>2, <1>3, <1>4, Equips DEF CheckStages

LEMMA RRegisters ==
  ASSUME KInv, RInv, NEW r \in Reqs,
         RegisterIot(r) \/ ApiCreateIot(r) \/ RegisterPep(r) \/ ApiCreatePep(r)
  PROVE  RInv'
<1>1. CASE RegisterIot(r) \/ ApiCreateIot(r)
  BY <1>1, RRegister DEF RegisterIot, ApiCreateIot, AgentMakers
<1>2. ASSUME NEW k \in ProxyMakers,
             \/ Reading(r, k, "go", [req[r] EXCEPT !.st =
                  IF ProxiesOf(req[r].app) = {} THEN "change" ELSE "refused"])
             \/ Register(r, k, "change")
      PROVE  RInv'
  <2>1. CASE Register(r, k, "change")
    BY <1>2, <2>1, RRegister
  <2>2. CASE Reading(r, k, "go", [req[r] EXCEPT !.st =
                  IF ProxiesOf(req[r].app) = {} THEN "change" ELSE "refused"])
    <3> DEFINE s == IF ProxiesOf(req[r].app) = {} THEN "change" ELSE "refused"
    <3>1. Ended(r, k, "go", s)
      BY <2>2 DEF Ended
    <3>2. s \in {"change", "refused"}
      OBVIOUS
    <3> HIDE DEF s
    <3> QED
      BY <1>2, <3>1, <3>2, RRegisterOne
  <2> QED
    BY <1>2, <2>1, <2>2
<1>3. {"register_pep", "api_pep_create"} \subseteq ProxyMakers
  BY DEF ProxyMakers
<1> QED
  BY <1>1, <1>2, <1>3 DEF RegisterPep, ApiCreatePep

\* The deletion of an agent or proxy, which has no password of this request.
LEMMA RDeleteEquip ==
  ASSUME KInv, RInv, NEW r \in Reqs, req[r].kind \in EquipKinds, req[r].st \in {"go", "change"},
         req[r].who \in Agents \cup Proxies, Delete({req[r].who}), Wrote(r, "ok")
  PROVE  RInv'
<1>1. /\ Others(r) /\ req'[r].st = "ok" /\ SameParams(req[r], req'[r])
      /\ Kept(req[r], req'[r])
  BY WroteActs DEF Stages, Final
<1>2. UNCHANGED pass
  BY DEF Delete
<1>3. PassOK'
  BY <1>1, <1>2, PassStays
<1>4. pass[req[r].who] # r
  BY DEF RInv, PassOK
<1>5. row'[req[r].who] # "here"
  <2>1. {req[r].who} \in SUBSET Ids
    BY DEF Ids
  <2> QED
    BY <2>1, DeleteKeeps DEF KInv
<1>6. EquipOK(r, req[r])'
  BY <1>1, <1>2, <1>4, <1>5 DEF EquipOK, Equipped, Here, SameParams
<1> QED
  BY <1>1, <1>3, <1>6, Equips DEF CheckStages

\* A new password, for a row that is the application's unless someone has
\* written meanwhile.
LEMMA RNewPassword ==
  ASSUME KInv, RInv, NEW r \in Reqs, req[r].kind \in EquipKinds, req[r].st \in {"go", "change"},
         req[r].who \in Agents \cup Proxies, NewPassword(r, req[r].who, "ok"),
         req[r].quiet => Matches(req[r])
  PROVE  RInv'
<1>1. Wrote(r, "ok") /\ UNCHANGED <<row, of>>
      /\ pass' = IF Here(req[r].who) THEN [pass EXCEPT ![req[r].who] = r] ELSE pass
  BY DEF NewPassword
<1>2. /\ Others(r) /\ req'[r].st = "ok" /\ SameParams(req[r], req'[r])
      /\ Kept(req[r], req'[r])
  BY <1>1, WroteActs DEF Stages, Final
<1>3. req'[r].who = req[r].who /\ req'[r].app = req[r].app
  BY <1>2 DEF SameParams
<1>4. PassOK'
  <2>1. CASE Here(req[r].who)
    BY <1>1, <1>2, <1>3, <2>1, EquipType, PassMade
  <2>2. CASE ~Here(req[r].who)
    BY <1>1, <1>2, <2>2, PassStays
  <2> QED
    BY <2>1, <2>2
<1>5. ASSUME req'[r].quiet PROVE EquipOK(r, req[r])'
  <2>1. Matches(req[r])
    BY <1>2, <1>5 DEF Kept
  <2>2. Matches(req[r])'
    BY <1>1, <1>3, <2>1 DEF Matches, Here
  <2>3. pass'[req[r].who] = r
    BY <1>1, <2>1, EquipType DEF Matches
  <2> QED
    BY <1>2, <1>3, <2>2, <2>3 DEF EquipOK, Equipped
<1> QED
  BY <1>2, <1>4, <1>5, Equips DEF CheckStages

LEMMA RPages ==
  ASSUME KInv, RInv, NEW r \in Reqs,
         DeleteIot(r) \/ DeletePep(r) \/ ResetPasswordIot(r) \/ ResetPasswordPep(r)
  PROVE  RInv'
<1>1. ASSUME NEW k \in {"delete_iot", "delete_pep", "reset_password_iot", "reset_password_pep"},
             At(r, k, "go")
      PROVE  /\ req[r].kind = k /\ req[r].kind \in EquipKinds /\ req[r].st = "go"
             /\ req[r].who \in Agents \cup Proxies
  BY <1>1 DEF At, EquipKinds, KInv, ReqsOK, ParamsOK
<1>2. ASSUME NEW k \in {"delete_iot", "delete_pep"}, Unregister(r, k) PROVE RInv'
  <2>1. At(r, k, "go")
    BY <1>2 DEF Unregister
  <2>2. CASE Ended(r, k, "go", "failed")
    BY <1>1, <2>1, <2>2, EquipFails
  <2>3. CASE Delete({req[r].who}) /\ Wrote(r, "ok")
    BY <1>1, <2>1, <2>3, RDeleteEquip
  <2> QED
    BY <1>2, <2>2, <2>3 DEF Unregister
<1>3. ASSUME NEW k \in {"reset_password_iot", "reset_password_pep"}, ResetPassword(r, k)
      PROVE  RInv'
  <2>1. At(r, k, "go")
    BY <1>3 DEF ResetPassword
  <2>2. CASE Ended(r, k, "go", "failed")
    BY <1>1, <2>1, <2>2, EquipFails
  <2>3. CASE Matches(req[r]) /\ NewPassword(r, req[r].who, "ok")
    BY <1>1, <2>1, <2>3, RNewPassword
  <2> QED
    BY <1>3, <2>2, <2>3 DEF ResetPassword
<1> QED
  BY <1>2, <1>3 DEF DeleteIot, DeletePep, ResetPasswordIot, ResetPasswordPep

LEMMA RApiIot ==
  ASSUME KInv, RInv, NEW r \in Reqs, ApiUpdateIot(r) \/ ApiDeleteIot(r) PROVE RInv'
<1>1. /\ req[r].kind \in {"api_iot_update", "api_iot_delete"} /\ req[r].st = "go"
      /\ req[r].kind \in EquipKinds
  BY DEF ApiUpdateIot, ApiDeleteIot, At, EquipKinds
<1>2. req[r].who \in Agents \cup Proxies
  BY <1>1 DEF KInv, ReqsOK, ParamsOK
<1>3. CASE ApiUpdateIot(r)
  <2>1. req[r].kind = "api_iot_update" /\ NewPassword(r, req[r].who, "ok")
    BY <1>3 DEF ApiUpdateIot, At
  <2>2. req[r].quiet => Matches(req[r])
    BY <1>1, <2>1 DEF RInv, Exact, EquipOK
  <2> QED
    BY <1>1, <1>2, <2>1, <2>2, RNewPassword
<1>4. CASE ApiDeleteIot(r)
  BY <1>1, <1>2, <1>4, RDeleteEquip DEF ApiDeleteIot
<1> QED
  BY <1>3, <1>4

LEMMA RSearchPep ==
  ASSUME KInv, RInv, NEW r \in Reqs, NEW k \in {"api_pep_update", "api_pep_delete"},
         SearchPepProxy(r, k)
  PROVE  RInv'
<1>1. CASE Ended(r, k, "go", "missing")
  <2>1. req[r].kind = k /\ k \in EquipKinds
    BY <1>1 DEF Ended, Reading, At, EquipKinds
  <2> QED
    BY <1>1, <2>1, EquipFails
<1>2. CASE \E p \in ProxiesOf(req[r].app) :
             Reading(r, k, "go", [req[r] EXCEPT !.st = "change", !.who = p])
  <2>1. PICK p \in ProxiesOf(req[r].app) :
             Reading(r, k, "go", [req[r] EXCEPT !.st = "change", !.who = p])
    BY <1>2
  <2> DEFINE q == WithWho(req[r], "change", p)
  <2>2. req[r] \in ReqType /\ UNCHANGED <<tables, scene>> /\ req[r].st = "go"
        /\ req[r].kind = k /\ req' = [req EXCEPT ![r] = q] /\ k \in EquipKinds
    BY <2>1 DEF KInv, Reading, At, WithWho, EquipKinds
  <2>3. q.st = "change" /\ q.who = p /\ Kept(req[r], q)
    BY <2>2, ReadWho
  <2> HIDE DEF q
  <2>4. Others(r) /\ req'[r] = q /\ UNCHANGED tables
    BY <2>2, ReadActs
  <2>5. PassOK'
    BY <2>4, PassStays DEF tables
  <2>6. Matches(req[r])'
    BY <2>1, <2>3, <2>4 DEF Matches, Here, ProxiesOf, Kept, tables
  <2>7. EquipOK(r, req[r])'
    BY <2>3, <2>4, <2>6 DEF EquipOK
  <2> QED
    BY <2>2, <2>3, <2>4, <2>5, <2>7, Equips DEF CheckStages
<1> QED
  BY <1>1, <1>2 DEF SearchPepProxy

LEMMA RApiPep ==
  ASSUME KInv, RInv, NEW r \in Reqs, ApiUpdatePep(r) \/ ApiDeletePep(r) PROVE RInv'
<1>1. ASSUME req[r].kind \in {"api_pep_update", "api_pep_delete"}, req[r].st = "change"
      PROVE  req[r].who \in Agents \cup Proxies /\ req[r].kind \in EquipKinds
  BY <1>1 DEF KInv, ReqsOK, StageOK, EquipKinds
<1>2. CASE At(r, "api_pep_update", "change") /\ NewPassword(r, req[r].who, "ok")
  <2>1. req[r].kind = "api_pep_update" /\ req[r].st = "change"
    BY <1>2 DEF At
  <2>2. req[r].quiet => Matches(req[r])
    BY <2>1 DEF RInv, Exact, EquipOK
  <2> QED
    BY <1>1, <1>2, <2>1, <2>2, RNewPassword
<1>3. CASE At(r, "api_pep_delete", "change") /\ Delete({req[r].who}) /\ Wrote(r, "ok")
  <2>1. req[r].kind = "api_pep_delete" /\ req[r].st = "change"
    BY <1>3 DEF At
  <2> QED
    BY <1>1, <1>3, <2>1, RDeleteEquip
<1> QED
  BY <1>2, <1>3, RSearchPep DEF ApiUpdatePep, ApiDeletePep

-----------------------------------------------------------------------------
(* Trusted applications. *)

\* A handler that saves has failed, or is refused.
LEMMA SaveFails ==
  ASSUME KInv, RInv, NEW r \in Reqs, req[r].kind \in SavedKinds, NEW st, st # "ok",
         NEW s \in {"failed", "missing", "refused"}, Ended(r, req[r].kind, st, s)
  PROVE  RInv'
<1>1. Others(r) /\ UNCHANGED tables /\ req'[r].st = s /\ Kept(req[r], req'[r])
  BY EndedActs DEF Stages, Final
<1>2. SavedOK(req[r])'
  BY <1>1, NoSaved
<1> QED
  BY <1>1, <1>2, Saves DEF CheckStages, tables

LEMMA RDestroyTrusted ==
  ASSUME KInv, RInv, NEW r \in Reqs, DestroyTrusted(r) PROVE RInv'
<1>1. /\ req[r].kind = "authorize_trusted_applications" /\ req[r].st = "go"
      /\ trust' = trust \ TrustedBy(req[r].app) /\ Wrote(r, "fill") /\ UNCHANGED pass
  BY DEF DestroyTrusted, SetTrust, At
<1>2. /\ Others(r) /\ req'[r].st = "fill" /\ SameParams(req[r], req'[r])
      /\ Kept(req[r], req'[r])
  BY <1>1, WroteActs DEF Stages, Final
<1>3. (TrustedBy(req[r].app) = {})'
  BY <1>1, <1>2 DEF TrustedBy, SameParams
<1>4. SavedOK(req[r])'
  BY <1>1, <1>2, <1>3 DEF SavedOK, SameParams
<1> QED
  BY <1>1, <1>2, <1>4, Saves DEF SavedKinds, CheckStages

LEMMA RCreateTrusted ==
  ASSUME KInv, RInv, NEW r \in Reqs, CreateTrusted(r) PROVE RInv'
<1>1. req[r].kind = "authorize_trusted_applications" /\ req[r].st = "fill"
  BY DEF CreateTrusted, At
<1>2. CASE Ended(r, "authorize_trusted_applications", "fill", "failed")
  BY <1>1, <1>2, SaveFails DEF SavedKinds
<1>3. CASE ~Ended(r, "authorize_trusted_applications", "fill", "failed")
  <2> DEFINE a == req[r].app
             others == req[r].form \ {a}
  <2>1. /\ trust' = trust \cup {<<a, b>> : b \in others}
        /\ Wrote(r, "ok") /\ UNCHANGED pass
    BY <1>3 DEF CreateTrusted, SetTrust
  <2>2. /\ Others(r) /\ req'[r].st = "ok" /\ SameParams(req[r], req'[r])
        /\ Kept(req[r], req'[r])
    BY <1>1, <2>1, WroteActs DEF Stages, Final
  <2>3. ASSUME req'[r].quiet PROVE SavedOK(req[r])'
    <3>1. {t \in trust : t[1] = a} = {}
      BY <1>1, <2>2, <2>3 DEF RInv, Exact, SavedOK, TrustedBy, Kept
    <3> HIDE DEF others
    <3>2. {t \in trust' : t[1] = a} = {<<a, b>> : b \in others}
      BY <2>1, <3>1
    <3> DEFINE pairs == {<<a, b>> : b \in others}
               seconds == {t[2] : t \in pairs}
    <3>3. seconds = others
      <4>1. \A t \in pairs : t[2] \in others
        OBVIOUS
      <4>2. \A b \in others : <<a, b>> \in pairs /\ <<a, b>>[2] = b
        OBVIOUS
      <4> HIDE DEF pairs
      <4> QED
        BY <4>1, <4>2
    <3>4. TrustHeld(req[r])'
      BY <2>2, <3>2, <3>3 DEF TrustHeld, TrustedBy, SameParams, others
    <3> QED
      BY <1>1, <2>2, <3>4 DEF SavedOK, SameParams
  <2> QED
    BY <1>1, <2>1, <2>2, <2>3, Saves DEF SavedKinds, CheckStages
<1> QED
  BY <1>2, <1>3

\* One pair, of the API.
LEMMA RTrustedPair ==
  ASSUME KInv, RInv, NEW r \in Reqs, AddTrusted(r) \/ RemoveTrusted(r) PROVE RInv'
<1>1. ASSUME req[r].kind \in {"addTrusted", "removeTrusted"}
      PROVE  req[r].kind \notin DecisionKinds \cup AppMakers \cup OrgMakers \cup SavedKinds
                                  \cup EquipKinds
  BY <1>1 DEF DecisionKinds, AppMakers, OrgMakers, SavedKinds, EquipKinds, AgentMakers,
     ProxyMakers
<1>2. ASSUME NEW k \in {"addTrusted", "removeTrusted"}, NEW st \in {"go", "change"},
             NEW s \in {"failed", "refused", "change"}, Ended(r, k, st, s)
      PROVE  RInv'
  <2>1. req[r].kind = k
    BY <1>2 DEF Ended, Reading, At
  <2>2. Others(r) /\ UNCHANGED tables /\ req'[r].st = s /\ Kept(req[r], req'[r])
    BY <1>2, EndedActs DEF Stages, Final
  <2> QED
    BY <1>1, <2>1, <2>2, Plain DEF tables, CheckStages
<1>3. ASSUME NEW k \in {"addTrusted", "removeTrusted"}, NEW st \in {"go", "change"},
             At(r, k, st), NEW pairs, SetTrust(r, pairs, "ok")
      PROVE  RInv'
  <2>1. req[r].kind = k /\ Wrote(r, "ok") /\ UNCHANGED pass /\ req[r].st = st
    BY <1>3 DEF At, SetTrust
  <2>2. Others(r) /\ req'[r].st = "ok" /\ Kept(req[r], req'[r])
    BY <2>1, WroteActs DEF Stages, Final
  <2> QED
    BY <1>1, <2>1, <2>2, Plain DEF CheckStages
<1>4. CASE AddTrusted(r)
  <2> DEFINE s == IF req[r].app = req[r].who \/ <<req[r].app, req[r].who>> \in trust
                  THEN "refused" ELSE "change"
  <2>1. CASE Ended(r, "addTrusted", "go", s)
    <3>1. s \in {"refused", "change"}
      OBVIOUS
    <3> HIDE DEF s
    <3> QED
      BY <1>2, <2>1, <3>1
  <2>2. CASE At(r, "addTrusted", "change")
              /\ SetTrust(r, trust \cup {<<req[r].app, req[r].who>>}, "ok")
    BY <1>3, <2>2
  <2>3. CASE Ended(r, "addTrusted", "change", "failed")
    BY <1>2, <2>3
  <2> QED
    BY <1>4, <2>1, <2>2, <2>3 DEF AddTrusted, Ended
<1>5. CASE RemoveTrusted(r)
  <2>1. CASE Ended(r, "removeTrusted", "go", "refused")
    BY <1>2, <2>1
  <2>2. CASE At(r, "removeTrusted", "go")
              /\ SetTrust(r, trust \ {<<req[r].app, req[r].who>>}, "ok")
    BY <1>3, <2>2
  <2> QED
    BY <1>5, <2>1, <2>2 DEF RemoveTrusted
<1> QED
  BY <1>4, <1>5

LEMMA RApplication ==
  ASSUME KInv, RInv, NEW r \in Reqs, ApplicationStep(r) PROVE RInv'
<1>1. {"app_create", "api_app_create"} \subseteq AppMakers
  BY DEF AppMakers
<1> QED
  BY <1>1, RSaveApplication, RCreateProvider, ROwnersRow, RAnswerCreated, RDestroyUnowned,
     PlainApp, RRegisters, RPages, RApiIot, RApiPep, RDestroyTrusted, RCreateTrusted,
     RTrustedPair DEF ApplicationStep

-----------------------------------------------------------------------------
(* Roles and permissions. *)

PlainRoles == RoleMakers \cup PermMakers \cup {"role_edit", "permission_edit",
    "api_role_update", "api_permission_update", "role_delete", "permission_delete",
    "api_role_delete", "api_permission_delete", "api_grant_create", "api_grant_delete",
    "api_user_removeRole", "api_org_role_removeRole"}

LEMMA PlainRole ==
  ASSUME NEW k \in PlainRoles
  PROVE  k \notin DecisionKinds \cup AppMakers \cup OrgMakers \cup SavedKinds \cup EquipKinds
  BY DEF PlainRoles, RoleMakers, PermMakers, DecisionKinds, AppMakers, OrgMakers,
     SavedKinds, EquipKinds, AgentMakers, ProxyMakers

LEMMA PlainEnds ==
  ASSUME KInv, RInv, NEW r \in Reqs, NEW k \in PlainRoles, NEW st \in {"go", "change"},
         NEW s \in {"ok", "failed", "refused", "missing", "change"}, Ended(r, k, st, s)
  PROVE  RInv'
<1>1. req[r].kind = k
  BY DEF Ended, Reading, At
<1>2. Others(r) /\ UNCHANGED tables /\ req'[r].st = s /\ Kept(req[r], req'[r])
  BY EndedActs DEF Stages, Final
<1> QED
  BY <1>1, <1>2, PlainRole, Plain DEF tables, CheckStages

LEMMA PlainWrites ==
  ASSUME KInv, RInv, NEW r \in Reqs, NEW k \in PlainRoles, NEW st \in {"go", "change"},
         At(r, k, st), NEW s \in {"ok", "missing"}, Wrote(r, s), UNCHANGED pass
  PROVE  RInv'
<1>1. req[r].kind = k /\ req[r].st # "ok"
  BY DEF At
<1>2. Others(r) /\ req'[r].st = s /\ Kept(req[r], req'[r])
  BY <1>1, WroteActs DEF Stages, Final
<1> QED
  BY <1>1, <1>2, PlainRole, Plain DEF CheckStages

LEMMA RCreate ==
  ASSUME KInv, RInv, NEW r \in Reqs, NEW k \in RoleMakers \cup PermMakers, Create(r, k)
  PROVE  RInv'
<1>1. k \in PlainRoles /\ At(r, k, "go")
  BY DEF PlainRoles, Create
<1>2. CASE Wrote(r, "ok") /\ UNCHANGED pass
  BY <1>1, <1>2, PlainWrites
<1>3. CASE Ended(r, k, "go", "failed")
  BY <1>1, <1>3, PlainEnds
<1> QED
  BY <1>2, <1>3 DEF Create

LEMMA REdit ==
  ASSUME KInv, RInv, NEW r \in Reqs, NEW k \in PlainRoles, NEW x, Edit(r, k, x)
  PROVE  RInv'
<1> DEFINE s == IF x \in Internal \cup Standard THEN "refused" ELSE "ok"
<1>1. Ended(r, k, "go", s) /\ s \in {"refused", "ok"}
  BY DEF Edit
<1> HIDE DEF s
<1> QED
  BY <1>1, PlainEnds

LEMMA RDeleteRow ==
  ASSUME KInv, RInv, NEW r \in Reqs, NEW k \in PlainRoles, NEW x, NEW sure \in BOOLEAN,
         DeleteRow(r, k, x, sure)
  PROVE  RInv'
<1> DEFINE s == IF sure THEN "ok" ELSE "failed"
<1>1. s \in {"ok", "failed"} /\ At(r, k, "go")
  BY DEF DeleteRow
<1> HIDE DEF s
<1>2. CASE Ended(r, k, "go", "refused") \/ Ended(r, k, "go", s)
  BY <1>1, <1>2, PlainEnds
<1>3. CASE Delete({x}) /\ Wrote(r, "ok")
  BY <1>1, <1>3, PlainWrites DEF Delete
<1> QED
  BY <1>2, <1>3 DEF DeleteRow, s

LEMMA RApiGrants ==
  ASSUME KInv, RInv, NEW r \in Reqs, ApiCreateGrant(r) \/ ApiDeleteGrant(r)
  PROVE  RInv'
<1>1. {"api_grant_create", "api_grant_delete"} \subseteq PlainRoles
  BY DEF PlainRoles
<1>2. ASSUME NEW k \in PlainRoles, NEW st \in {"go", "change"}, At(r, k, st), NEW pairs,
             NEW s \in {"ok", "missing"}, SetGrant(r, pairs, s)
      PROVE  RInv'
  BY <1>2, PlainWrites DEF SetGrant
<1>3. CASE ApiCreateGrant(r)
  <2> DEFINE s == IF req[r].role \in Internal THEN "refused"
                  ELSE IF grant[ItsPair(req[r])] > 0 THEN "ok" ELSE "change"
  <2>1. s \in {"refused", "ok", "change"}
    OBVIOUS
  <2>2. \/ Ended(r, "api_grant_create", "go", s)
        \/ Ended(r, "api_grant_create", "change", "failed")
        \/ /\ At(r, "api_grant_create", "change")
           /\ SetGrant(r, WithPairs({ItsPair(req[r])}), "ok")
    BY <1>3 DEF ApiCreateGrant, Ended
  <2> HIDE DEF s
  <2> QED
    BY <1>1, <1>2, <2>1, <2>2, PlainEnds
<1>4. CASE ApiDeleteGrant(r)
  <2> DEFINE s == IF grant[ItsPair(req[r])] > 0 THEN "ok" ELSE "missing"
  <2>1. s \in {"ok", "missing"}
    OBVIOUS
  <2>2. /\ At(r, "api_grant_delete", "go")
        /\ \/ Ended(r, "api_grant_delete", "go", "refused")
           \/ SetGrant(r, [grant EXCEPT ![ItsPair(req[r])] = 0], s)
    BY <1>4 DEF ApiDeleteGrant
  <2> HIDE DEF s
  <2> QED
    BY <1>1, <1>2, <2>1, <2>2, PlainEnds
<1> QED
  BY <1>3, <1>4

LEMMA RRemoveRoleFrom ==
  ASSUME KInv, RInv, NEW r \in Reqs, NEW k \in PlainRoles, RemoveRoleFrom(r, k)
  PROVE  RInv'
<1> DEFINE s == IF assign[ItsRow(req[r])] > 0 THEN "ok" ELSE "missing"
<1>1. s \in {"ok", "missing"}
  OBVIOUS
<1>2. /\ At(r, k, "change")
      /\ \/ Ended(r, k, "change", "refused")
         \/ SetAssign(r, [assign EXCEPT ![ItsRow(req[r])] = 0], s)
  BY DEF RemoveRoleFrom
<1> HIDE DEF s
<1>3. CASE Ended(r, k, "change", "refused")
  BY <1>3, PlainEnds
<1>4. CASE SetAssign(r, [assign EXCEPT ![ItsRow(req[r])] = 0], s)
  BY <1>1, <1>2, <1>4, PlainWrites DEF SetAssign
<1> QED
  BY <1>2, <1>3, <1>4

LEMMA RSearchChangeable ==
  ASSUME KInv, RInv, NEW r \in Reqs, NEW k \in FormKinds \cup ApiRoleKinds,
         SearchChangeableRoles(r, k)
  PROVE  RInv'
<1> DEFINE ch == Changeable(req[r])
           q == WithChangeable(req[r], "change", ch)
<1>1. req[r] \in ReqType /\ UNCHANGED <<tables, scene>> /\ req[r].st = "go"
      /\ req' = [req EXCEPT ![r] = q] /\ req[r].kind = k
  BY DEF KInv, SearchChangeableRoles, Reading, At, WithChangeable
<1> HIDE DEF ch
<1>2. q.st = "change" /\ Kept(req[r], q)
  BY <1>1, ReadChangeable
<1> HIDE DEF q
<1>3. Others(r) /\ req'[r] = q /\ UNCHANGED tables
  BY <1>1, ReadActs
<1>4. k \notin DecisionKinds \cup AppMakers \cup OrgMakers \cup EquipKinds
               \cup {"update_administrators", "addRole"}
  BY DEF FormKinds, ApiRoleKinds, DecisionKinds, AppMakers, OrgMakers, EquipKinds,
     AgentMakers, ProxyMakers
<1>5. req'[r].kind = k /\ req'[r].st = "change" /\ Names(req[r])'
  BY <1>1, <1>2, <1>3, NamesStay DEF Kept, RInv
<1>6. CheckOK(req[r])' /\ DecideOK(req[r])' /\ CreateOK(req[r])' /\ EquipOK(r, req[r])'
  BY <1>4, <1>5, NoCheck, NoDecide, NoCreate, NoEquip DEF CheckStages
<1>7. SavedOK(req[r])'
  BY <1>4, <1>5 DEF SavedOK, FormOK
<1>8. Exact(r)' /\ PassOK'
  BY <1>3, <1>6, <1>7, PassStays DEF Exact, tables
<1> QED
  BY <1>2, <1>3, <1>8, GoesOn

\* role_permissions_assign.
LEMMA RDestroyGrants ==
  ASSUME KInv, RInv, NEW r \in Reqs, DestroyGrants(r) PROVE RInv'
<1>1. req[r].kind = "role_permissions_assign" /\ req[r].st = "go"
  BY DEF DestroyGrants, At
<1>2. CASE /\ FormRoles(req[r]) = {}
           /\ Ended(r, "role_permissions_assign", "go", "ok")
  <2>1. /\ Others(r) /\ UNCHANGED tables /\ req'[r].st = "ok" /\ SameParams(req[r], req'[r])
        /\ Kept(req[r], req'[r])
    BY <1>2, EndedActs DEF Stages, Final
  <2>2. GrantsHeld(req[r])'
    BY <1>2, <2>1 DEF GrantsHeld, FormRoles, SameParams
  <2>3. SavedOK(req[r])'
    BY <1>1, <2>1, <2>2 DEF SavedOK, SameParams
  <2> QED
    BY <1>1, <2>1, <2>3, Saves DEF SavedKinds, CheckStages, tables
<1>3. CASE SetGrant(r, WithoutRoles(FormRoles(req[r])), "fill")
  <2>1. /\ grant' = [k \in Grantable |-> IF k.role \in FormRoles(req[r]) THEN 0 ELSE grant[k]]
        /\ Wrote(r, "fill") /\ UNCHANGED pass
    BY <1>3 DEF SetGrant, WithoutRoles
  <2>2. /\ Others(r) /\ req'[r].st = "fill" /\ SameParams(req[r], req'[r])
        /\ Kept(req[r], req'[r])
    BY <1>1, <2>1, WroteActs DEF Stages
  <2>3. GrantsCleared(req[r])'
    BY <2>1, <2>2 DEF GrantsCleared, FormRoles, SameParams
  <2>4. SavedOK(req[r])'
    BY <1>1, <2>2, <2>3 DEF SavedOK, SameParams
  <2> QED
    BY <1>1, <2>1, <2>2, <2>4, Saves DEF SavedKinds, CheckStages
<1> QED
  BY <1>2, <1>3 DEF DestroyGrants

LEMMA RCreateGrants ==
  ASSUME KInv, RInv, NEW r \in Reqs, CreateGrants(r) PROVE RInv'
<1>1. req[r].kind = "role_permissions_assign" /\ req[r].st = "fill"
  BY DEF CreateGrants, At
<1>2. CASE Ended(r, "role_permissions_assign", "fill", "failed")
  BY <1>1, <1>2, SaveFails DEF SavedKinds
<1>3. CASE SetGrant(r, WithPairs(FormPairs(req[r])), "ok")
  <2>1. /\ grant' = [k \in Grantable |-> IF k \in FormPairs(req[r]) THEN grant[k] + 1
                                         ELSE grant[k]]
        /\ Wrote(r, "ok") /\ UNCHANGED pass
    BY <1>3 DEF SetGrant, WithPairs
  <2>2. /\ Others(r) /\ req'[r].st = "ok" /\ SameParams(req[r], req'[r])
        /\ Kept(req[r], req'[r])
    BY <1>1, <2>1, WroteActs DEF Stages, Final
  <2>3. ASSUME req'[r].quiet PROVE SavedOK(req[r])'
    <3>1. \A k \in Grantable : k.role \in FormRoles(req[r]) => grant[k] = 0
      BY <1>1, <2>2, <2>3 DEF RInv, Exact, SavedOK, GrantsCleared, Kept
    <3>2. GrantsHeld(req[r])'
      BY <2>1, <2>2, <3>1 DEF GrantsHeld, FormRoles, FormPairs, SameParams
    <3> QED
      BY <1>1, <2>2, <3>2 DEF SavedOK, SameParams
  <2> QED
    BY <1>1, <2>1, <2>2, <2>3, Saves DEF SavedKinds, CheckStages
<1> QED
  BY <1>2, <1>3 DEF CreateGrants

\* authorize_users and authorize_organizations.
KindOf(k) == IF k = "authorize_users" THEN Users1 ELSE Orgs1
LEMMA FormSaved ==
  ASSUME NEW r, req'[r].kind \in FormKinds, FormOK(req[r], KindOf(req[r].kind))'
  PROVE  SavedOK(req[r])'
  BY DEF FormKinds, KindOf, SavedOK

LEMMA RDestroyAssignments ==
  ASSUME KInv, RInv, NEW r \in Reqs, NEW k \in FormKinds, DestroyAssignments(r, k, KindOf(k))
  PROVE  RInv'
<1>1. k \in SavedKinds
  BY DEF FormKinds, SavedKinds
<1>2. ASSUME NEW st \in {"go", "change"}, Ended(r, k, st, "refused") PROVE RInv'
  <2>1. req[r].kind = k
    BY <1>2 DEF Ended, Reading, At
  <2> QED
    BY <1>1, <1>2, <2>1, SaveFails
<1>3. CASE /\ At(r, k, "change") /\ AssignedRoles(req[r]) \subseteq req[r].changeable
           /\ SetAssign(r, [x \in Assignable |->
                 IF /\ x.app = req[r].app
                    /\ x.role \in req[r].changeable
                    /\ x.to \in KindOf(k)
                 THEN 0 ELSE assign[x]], "fill")
  <2>1. /\ assign' = [x \in Assignable |->
                 IF /\ x.app = req[r].app
                    /\ x.role \in req[r].changeable
                    /\ x.to \in KindOf(k)
                 THEN 0 ELSE assign[x]]
        /\ Wrote(r, "fill") /\ UNCHANGED pass /\ req[r].kind = k /\ req[r].st = "change"
    BY <1>3 DEF SetAssign, At
  <2>2. /\ Others(r) /\ req'[r].st = "fill" /\ SameParams(req[r], req'[r])
        /\ SameRest(req[r], req'[r]) /\ Kept(req[r], req'[r])
    BY <2>1, WroteActs DEF Stages
  <2>3. /\ req'[r].changeable = req[r].changeable /\ req'[r].app = req[r].app
        /\ req'[r].form = req[r].form /\ req'[r].kind = k
    BY <2>1, <2>2 DEF SameParams, SameRest
  <2>4. FormCleared(req[r], KindOf(k))'
    BY <1>3, <2>1, <2>3 DEF FormCleared, AssignedRoles, Keys, KindOf, Users1, Orgs1
  <2>5. FormOK(req[r], KindOf(req[r].kind))'
    BY <2>2, <2>3, <2>4 DEF FormOK
  <2>6. SavedOK(req[r])'
    BY <2>3, <2>5, FormSaved
  <2> QED
    BY <1>1, <2>1, <2>2, <2>6, Saves DEF CheckStages
<1> QED
  BY <1>2, <1>3, RSearchChangeable DEF DestroyAssignments

LEMMA RCreateAssignments ==
  ASSUME KInv, RInv, NEW r \in Reqs, NEW k \in FormKinds, CreateAssignments(r, k)
  PROVE  RInv'
<1> DEFINE a == req[r].app
           new == {[app |-> a, role |-> f.role, to |-> f.to] : f \in req[r].form}
<1>1. k \in SavedKinds /\ req[r].kind = k /\ req[r].st = "fill"
  BY DEF FormKinds, SavedKinds, CreateAssignments, At
<1>2. CASE Ended(r, k, "fill", "failed")
  BY <1>1, <1>2, SaveFails
<1>3. CASE SetAssign(r, [x \in Assignable |-> IF x \in new THEN assign[x] + 1
                                              ELSE assign[x]], "ok")
  <2>1. /\ assign' = [x \in Assignable |-> IF x \in new THEN assign[x] + 1 ELSE assign[x]]
        /\ Wrote(r, "ok") /\ UNCHANGED pass
    BY <1>3 DEF SetAssign
  <2>2. /\ Others(r) /\ req'[r].st = "ok" /\ SameParams(req[r], req'[r])
        /\ SameRest(req[r], req'[r]) /\ Kept(req[r], req'[r])
    BY <1>1, <2>1, WroteActs DEF Stages, Final
  <2>3. /\ req'[r].changeable = req[r].changeable /\ req'[r].app = a
        /\ req'[r].form = req[r].form /\ req'[r].kind = k
    BY <1>1, <2>2 DEF SameParams, SameRest
  <2>4. \A x \in Assignable : x.app = a =>
           (x \in new <=> [to |-> x.to, role |-> x.role] \in req[r].form)
    <3>1. req[r].form \subseteq [to : Holders, role : AllRoles]
      BY <1>1 DEF KInv, ReqsOK, ParamsOK, FormKinds
    <3>2. ASSUME NEW x \in Assignable, x.app = a, x \in new
          PROVE  [to |-> x.to, role |-> x.role] \in req[r].form
      <4>1. PICK f \in req[r].form : x = [app |-> a, role |-> f.role, to |-> f.to]
        BY <3>2
      <4>2. f = [to |-> f.to, role |-> f.role] /\ x.to = f.to /\ x.role = f.role
        BY <3>1, <4>1
      <4> QED
        BY <4>2
    <3>3. ASSUME NEW x \in Assignable, x.app = a, [to |-> x.to, role |-> x.role] \in req[r].form
          PROVE  x \in new
      <4> DEFINE f == [to |-> x.to, role |-> x.role]
      <4>1. f \in req[r].form /\ f.to = x.to /\ f.role = x.role
        BY <3>3
      <4>2. x = [app |-> a, role |-> x.role, to |-> x.to]
        BY <3>3 DEF Assignable
      <4> HIDE DEF f
      <4> QED
        BY <4>1, <4>2
    <3> QED
      BY <3>2, <3>3
  <2>5. ASSUME req'[r].quiet PROVE SavedOK(req[r])'
    <3>1. FormCleared(req[r], KindOf(k))
      BY <1>1, <2>2, <2>5 DEF RInv, Exact, SavedOK, FormOK, FormKinds, KindOf, Kept
    <3> HIDE DEF new
    <3>2. FormHeld(req[r], KindOf(k))'
      <4> SUFFICES ASSUME NEW x \in Assignable, x.app = a, x.to \in KindOf(k),
                          x.role \in req[r].changeable \cup {f.role : f \in req[r].form}
                   PROVE  assign'[x] = IF [to |-> x.to, role |-> x.role] \in req[r].form
                                       THEN 1 ELSE 0
        BY <2>3 DEF FormHeld, Keys, KindOf, Users1, Orgs1
      <4>1. assign[x] = 0
        BY <3>1 DEF FormCleared, Keys, AssignedRoles
      <4> QED
        BY <2>1, <2>4, <4>1
    <3>3. FormOK(req[r], KindOf(req[r].kind))'
      BY <2>2, <2>3, <3>2 DEF FormOK
    <3> QED
      BY <2>3, <3>3, FormSaved
  <2> QED
    BY <1>1, <2>1, <2>2, <2>5, Saves DEF CheckStages
<1> QED
  BY <1>2, <1>3 DEF CreateAssignments

\* findOrCreate of one row: it is there when the request is answered.
LEMMA RAddRoleTo ==
  ASSUME KInv, RInv, NEW r \in Reqs, NEW k \in {"api_user_addRole", "api_org_role_addRole"},
         AddRoleTo(r, k)
  PROVE  RInv'
<1>1. k \in SavedKinds /\ req[r].kind = k /\ req[r].st \in {"change", "second"}
      /\ k \in ApiRoleKinds
  BY DEF SavedKinds, AddRoleTo, Reading, Ended, At, ApiRoleKinds
<1> DEFINE x == ItsRow(req[r])
           s == IF req[r].role \notin req[r].changeable THEN "refused"
                ELSE IF assign[x] > 0 THEN "ok" ELSE "second"
<1>2. CASE Ended(r, k, "change", s)
  <2>1. s \in {"refused", "ok", "second"} /\ (s = "ok" => assign[x] > 0)
    OBVIOUS
  <2> HIDE DEF s
  <2>2. /\ Others(r) /\ UNCHANGED tables /\ req'[r].st = s /\ SameParams(req[r], req'[r])
        /\ Kept(req[r], req'[r])
    BY <1>2, <2>1, EndedActs DEF Stages, Final
  <2>3. UNCHANGED <<assign, pass>> /\ req'[r].kind = k /\ ItsRow(req[r])' = x
    BY <1>1, <2>2 DEF tables, SameParams, ItsRow
  <2> HIDE DEF x
  <2>4. SavedOK(req[r])'
    BY <1>1, <2>1, <2>2, <2>3 DEF SavedOK
  <2> QED
    BY <1>1, <2>1, <2>2, <2>3, <2>4, Saves DEF CheckStages
<1>3. CASE Ended(r, k, "second", "failed")
  BY <1>1, <1>3, SaveFails
<1>4. CASE /\ Exists({x.app, x.role, x.to.user, x.to.org})
           /\ SetAssign(r, [assign EXCEPT ![x] = @ + 1], "ok")
  <2>1. x \in Assignable /\ assign \in [Assignable -> Nat]
    BY <1>1, <1>4, ItsRowFits DEF KInv, TablesOK, TablesType
  <2>2. /\ assign' = [assign EXCEPT ![x] = @ + 1] /\ Wrote(r, "ok") /\ UNCHANGED pass
    BY <1>4 DEF SetAssign
  <2>3. /\ Others(r) /\ req'[r].st = "ok" /\ SameParams(req[r], req'[r])
        /\ Kept(req[r], req'[r])
    BY <1>1, <2>2, WroteActs DEF Stages, Final
  <2>4. req'[r].kind = k /\ ItsRow(req[r])' = x
    BY <1>1, <2>3 DEF SameParams, ItsRow
  <2> HIDE DEF x
  <2>5. assign'[x] > 0
    BY <2>1, <2>2
  <2>6. SavedOK(req[r])'
    BY <2>3, <2>4, <2>5 DEF SavedOK
  <2> QED
    BY <1>1, <2>2, <2>3, <2>6, Saves DEF CheckStages
<1> QED
  BY <1>2, <1>3, <1>4 DEF AddRoleTo, Ended

LEMMA RRole == ASSUME KInv, RInv, NEW r \in Reqs, RoleStep(r) PROVE RInv'
<1>1. ASSUME CreateRole(r) \/ CreatePermission(r) \/ ApiCreateRole(r) \/ ApiCreatePermission(r)
      PROVE  RInv'
  BY <1>1, RCreate DEF CreateRole, CreatePermission, ApiCreateRole, ApiCreatePermission,
     RoleMakers, PermMakers
<1>2. ASSUME EditRole(r) \/ EditPermission(r) \/ ApiUpdateRole(r) \/ ApiUpdatePermission(r)
      PROVE  RInv'
  BY <1>2, REdit DEF EditRole, EditPermission, ApiUpdateRole, ApiUpdatePermission,
     PlainRoles
<1>3. ASSUME DeleteRole(r) \/ DeletePermission(r) \/ ApiDeleteRole(r) \/ ApiDeletePermission(r)
      PROVE  RInv'
  BY <1>3, RDeleteRow DEF DeleteRole, DeletePermission, ApiDeleteRole, ApiDeletePermission,
     PlainRoles
<1>4. ASSUME NEW k \in AssignApiKinds, SearchChangeableRoles(r, k) PROVE RInv'
  <2>1. k \in ApiRoleKinds
    BY DEF AssignApiKinds, ApiAssignKinds, ApiRoleKinds
  <2> QED
    BY <1>4, <2>1, RSearchChangeable
<1>5. ASSUME AuthorizeUsers(r) \/ AuthorizeOrganizations(r) PROVE RInv'
  <2>1. PICK k \in FormKinds : CreateAssignments(r, k) \/ DestroyAssignments(r, k, KindOf(k))
    BY <1>5 DEF AuthorizeUsers, AuthorizeOrganizations, FormKinds, KindOf, Users1, Orgs1
  <2> QED
    BY <2>1, RCreateAssignments, RDestroyAssignments
<1>6. ASSUME UserAddRole(r) \/ OrgAddRole(r) PROVE RInv'
  BY <1>6, RAddRoleTo DEF UserAddRole, OrgAddRole
<1>7. ASSUME UserRemoveRole(r) \/ OrgRemoveRole(r) PROVE RInv'
  BY <1>7, RRemoveRoleFrom DEF UserRemoveRole, OrgRemoveRole, PlainRoles
<1> QED
  BY <1>1, <1>2, <1>3, <1>4, <1>5, <1>6, <1>7, RDestroyGrants, RCreateGrants, RApiGrants
  DEF RoleStep

-----------------------------------------------------------------------------
(* Decisions. *)

LEMMA Decides ==
  ASSUME RInv, NEW r \in Reqs, Others(r), Kept(req[r], req'[r]), UNCHANGED pass,
         req[r].kind \in DecisionKinds, req'[r].st # "params",
         req'[r].quiet => DecideOK(req[r])'
  PROVE  RInv'
<1>1. req'[r].kind = req[r].kind
  BY DEF Kept
<1>2. Names(req[r])'
  BY NamesStay DEF RInv, Others
<1>3. /\ req[r].kind \notin AppMakers \cup OrgMakers \cup SavedKinds \cup EquipKinds
      /\ req[r].kind \notin AppKinds
  BY KindOfCheck DEF SavedKinds, DecisionKinds, AppMakers, OrgMakers, EquipKinds,
     AgentMakers, ProxyMakers
<1>4. CreateOK(req[r])' /\ SavedOK(req[r])' /\ EquipOK(r, req[r])'
  BY <1>1, <1>2, <1>3, NoCreate, NoSaved, NoEquip
<1>5. CheckOK(req[r])'
  BY <1>1, <1>3 DEF CheckOK
<1>6. Exact(r)'
  BY <1>4, <1>5 DEF Exact
<1> QED
  BY <1>6, PassStays, GoesOn

LEMMA RTrustedApplications ==
  ASSUME KInv, RInv, NEW r \in Reqs, TrustedApplications(r) PROVE RInv'
<1> DEFINE v == {t[2] : t \in {t \in trust : t[1] = req[r].who}}
           q == WithApps(req[r], "member", v)
<1>1. req[r] \in ReqType /\ UNCHANGED <<tables, scene>> /\ req[r].st = "load"
      /\ req' = [req EXCEPT ![r] = q] /\ req[r].kind = "resource_request"
  BY DEF KInv, TrustedApplications, Reading, At, WithApps
<1> HIDE DEF v
<1>2. q.st = "member" /\ q.apps = v /\ Kept(req[r], q)
  BY <1>1, ReadApps
<1> HIDE DEF q
<1>3. Others(r) /\ req'[r] = q /\ UNCHANGED tables
  BY <1>1, ReadActs
<1>4. UNCHANGED <<pass, trust>> /\ q.who = req[r].who /\ q.kind = "resource_request"
  BY <1>1, <1>2, <1>3 DEF tables, Kept
<1>5. AppsExact(req[r])'
  BY <1>2, <1>3, <1>4 DEF AppsExact, v
<1>6. DecideOK(req[r])'
  BY <1>2, <1>3, <1>4, <1>5 DEF DecideOK
<1> QED
  BY <1>1, <1>2, <1>3, <1>4, <1>6, Decides DEF DecisionKinds

LEMMA RSearchOrganizations ==
  ASSUME KInv, RInv, NEW r \in Reqs, SearchOrganizations(r) PROVE RInv'
<1> DEFINE v == Memberships(req[r].by)
           q == WithMem(req[r], "held", v)
<1>1. req[r] \in ReqType /\ UNCHANGED <<tables, scene>> /\ req' = [req EXCEPT ![r] = q]
      /\ \/ req[r].kind = "resource_request" /\ req[r].st = "member"
         \/ req[r].kind = "access_token_info" /\ req[r].st = "load"
  BY DEF KInv, SearchOrganizations, Reading, At, WithMem
<1>2. q.st = "held" /\ q.mem = v /\ q.apps = req[r].apps /\ Kept(req[r], q)
  BY <1>1, ReadMem
<1> HIDE DEF q
<1>3. Others(r) /\ req'[r] = q /\ UNCHANGED tables
  BY <1>1, ReadActs
<1>4. /\ UNCHANGED <<pass, trust, member>> /\ q.who = req[r].who /\ q.by = req[r].by
      /\ q.kind = req[r].kind /\ q.quiet = req[r].quiet
  BY <1>1, <1>2, <1>3 DEF tables, Kept
<1>5. MemExact(req[r])'
  BY <1>2, <1>3, <1>4 DEF MemExact, Memberships
<1>6. req'[r].quiet /\ q.kind = "resource_request" => AppsExact(req[r])'
  <2> SUFFICES ASSUME req'[r].quiet, q.kind = "resource_request" PROVE AppsExact(req[r])'
    OBVIOUS
  <2>1. req[r].quiet /\ req[r].kind = "resource_request" /\ req[r].st = "member"
    BY <1>1, <1>3, <1>4
  <2>2. AppsExact(req[r])
    BY <2>1 DEF RInv, Exact, DecideOK
  <2> QED
    BY <1>2, <1>3, <1>4, <2>2 DEF AppsExact
<1>7. req'[r].quiet => DecideOK(req[r])'
  BY <1>2, <1>3, <1>5, <1>6 DEF DecideOK
<1> QED
  BY <1>1, <1>2, <1>3, <1>4, <1>7, Decides DEF DecisionKinds

LEMMA HeldByHolds ==
  ASSUME NEW q, MemExact(q)
  PROVE  HeldBy(q) = {x \in AllRoles : Holds(q.by, q.app, x)}
  BY HeldIsHolds DEF HeldBy, MemExact

LEMMA NotInternal == Roles = AllRoles \ Internal
  BY Apart DEF AllRoles, Owned

LEMMA RUserRoles ==
  ASSUME KInv, RInv, NEW r \in Reqs, UserRoles(r) PROVE RInv'
<1> DEFINE v == HeldBy(req[r]) \ Internal
           q == WithHeld(req[r], "can", v)
<1>1. req[r] \in ReqType /\ UNCHANGED <<tables, scene>> /\ req' = [req EXCEPT ![r] = q]
      /\ req[r].kind = "resource_request" /\ req[r].st = "held"
  BY DEF KInv, UserRoles, Reading, At, WithHeld
<1> HIDE DEF v
<1>2. q.st = "can" /\ q.held = v /\ q.apps = req[r].apps /\ Kept(req[r], q)
  BY <1>1, ReadHeld
<1> HIDE DEF q
<1>3. Others(r) /\ req'[r] = q /\ UNCHANGED tables
  BY <1>1, ReadActs
<1>4. /\ UNCHANGED <<pass, trust, member, assign>> /\ q.who = req[r].who
      /\ q.by = req[r].by /\ q.app = req[r].app
      /\ q.kind = req[r].kind /\ q.quiet = req[r].quiet
  BY <1>1, <1>2, <1>3 DEF tables, Kept
<1>5. ASSUME req'[r].quiet PROVE DecideOK(req[r])'
  <2>1. AppsExact(req[r]) /\ MemExact(req[r])
    BY <1>1, <1>3, <1>4, <1>5 DEF RInv, Exact, DecideOK
  <2>2. AppsExact(req[r])'
    BY <1>2, <1>3, <1>4, <2>1 DEF AppsExact
  <2>3. v = {x \in Roles : Holds(req[r].by, req[r].app, x)}
    BY <2>1, HeldByHolds, NotInternal DEF v
  <2>4. HeldOwn(req[r])'
    BY <1>2, <1>3, <1>4, <2>3 DEF HeldOwn, Holds
  <2> QED
    BY <1>1, <1>2, <1>3, <1>4, <2>2, <2>4 DEF DecideOK
<1> QED
  BY <1>1, <1>2, <1>3, <1>4, <1>5, Decides DEF DecisionKinds

LEMMA RUserPermissions ==
  ASSUME KInv, RInv, NEW r \in Reqs, UserPermissions(r) PROVE RInv'
<1> DEFINE v == UNION {PermsOf(x) : x \in req[r].held}
           q == WithCan(req[r], "go", v)
<1>1. req[r] \in ReqType /\ UNCHANGED <<tables, scene>> /\ req' = [req EXCEPT ![r] = q]
      /\ req[r].kind = "resource_request" /\ req[r].st = "can"
  BY DEF KInv, UserPermissions, Reading, At, WithCan
<1> HIDE DEF v
<1>2. q.st = "go" /\ q.can = v /\ q.apps = req[r].apps /\ q.held = req[r].held
      /\ Kept(req[r], q)
  BY <1>1, ReadCan
<1> HIDE DEF q
<1>3. Others(r) /\ req'[r] = q /\ UNCHANGED tables
  BY <1>1, ReadActs
<1>4. /\ UNCHANGED <<pass, trust, member, assign, grant>> /\ q.who = req[r].who
      /\ q.by = req[r].by /\ q.app = req[r].app
      /\ q.kind = req[r].kind /\ q.quiet = req[r].quiet
  BY <1>1, <1>2, <1>3 DEF tables, Kept
<1>5. ASSUME req'[r].quiet PROVE DecideOK(req[r])'
  <2>1. AppsExact(req[r]) /\ HeldOwn(req[r])
    BY <1>1, <1>3, <1>4, <1>5 DEF RInv, Exact, DecideOK
  <2>2. AppsExact(req[r])'
    BY <1>2, <1>3, <1>4, <2>1 DEF AppsExact
  <2>3. HeldOwn(req[r])'
    BY <1>2, <1>3, <1>4, <2>1 DEF HeldOwn, Holds
  <2>4. CanExact(req[r])'
    BY <1>2, <1>3, <1>4 DEF CanExact, PermsOf, v
  <2> QED
    BY <1>1, <1>2, <1>3, <1>4, <2>2, <2>3, <2>4 DEF DecideOK
<1> QED
  BY <1>1, <1>2, <1>3, <1>4, <1>5, Decides DEF DecisionKinds

LEMMA RInfoToken ==
  ASSUME KInv, RInv, NEW r \in Reqs, InfoToken(r) PROVE RInv'
<1> DEFINE all == HeldBy(req[r])
           s == IF all = {} THEN "refused" ELSE "ok"
           v == all \ Internal
           q == WithHeld(req[r], s, v)
<1>1. req[r] \in ReqType /\ UNCHANGED <<tables, scene>> /\ req' = [req EXCEPT ![r] = q]
      /\ req[r].kind = "access_token_info" /\ req[r].st = "held"
  BY DEF KInv, InfoToken, Reading, At, WithHeld
<1>2. s \in {"refused", "ok"} /\ (s = "ok" <=> all # {})
  OBVIOUS
<1> HIDE DEF v, s
<1>3. q.st = s /\ q.held = v /\ Kept(req[r], q)
  BY <1>1, ReadHeld
<1> HIDE DEF q
<1>4. Others(r) /\ req'[r] = q /\ UNCHANGED tables
  BY <1>1, ReadActs
<1>5. /\ UNCHANGED <<pass, member, assign>> /\ q.by = req[r].by /\ q.app = req[r].app
      /\ q.kind = req[r].kind /\ q.quiet = req[r].quiet
  BY <1>3, <1>4 DEF tables, Kept
<1>6. ASSUME req'[r].quiet PROVE DecideOK(req[r])'
  <2>1. MemExact(req[r])
    BY <1>1, <1>4, <1>5, <1>6 DEF RInv, Exact, DecideOK
  <2>2. all = {x \in AllRoles : Holds(req[r].by, req[r].app, x)}
    BY <2>1, HeldByHolds
  <2> HIDE DEF all
  <2>3. v = {x \in Roles : Holds(req[r].by, req[r].app, x)}
    BY <2>2, NotInternal DEF v
  <2>4. HeldOwn(req[r])'
    BY <1>3, <1>4, <1>5, <2>3 DEF HeldOwn, Holds
  <2>5. s = "ok" <=> \E x \in AllRoles : Holds(req[r].by, req[r].app, x)
    BY <1>2, <2>2
  <2>6. Informed(req[r])'
    BY <1>3, <1>4, <1>5, <2>4, <2>5 DEF Informed, Holds
  <2> QED
    BY <1>1, <1>2, <1>3, <1>4, <1>5, <2>6 DEF DecideOK
<1> QED
  BY <1>1, <1>2, <1>3, <1>4, <1>5, <1>6, Decides DEF DecisionKinds

\* What the statements have found decides as the tables do.
LEMMA MatchIsMay ==
  ASSUME NEW q, HeldOwn(q), CanExact(q), q.form \subseteq Perms
  PROVE  Match(q) # {} <=> MayThere(q)
<1>1. \A x \in Roles, p \in q.form :
         p \in PermsOf(x) <=> grant[[role |-> x, perm |-> p]] > 0
  BY NotInternal DEF PermsOf, AllPerms
<1>2. ASSUME NEW p \in Match(q) PROVE MayThere(q)
  <2>1. PICK x \in q.held : p \in PermsOf(x)
    BY <1>2 DEF Match, CanExact
  <2>2. x \in Roles /\ Holds(q.by, q.app, x)
    BY <2>1 DEF HeldOwn
  <2>3. p \in q.form /\ Here(p) /\ of[p] = q.app
    BY DEF Match, OwnPerms
  <2> QED
    BY <1>1, <2>1, <2>2, <2>3 DEF MayThere
<1>3. ASSUME MayThere(q) PROVE Match(q) # {}
  <2>1. PICK x \in Roles, p \in q.form :
           /\ Holds(q.by, q.app, x) /\ grant[[role |-> x, perm |-> p]] > 0
           /\ Here(p) /\ of[p] = q.app
    BY <1>3 DEF MayThere
  <2>2. x \in q.held /\ p \in PermsOf(x)
    BY <1>1, <2>1 DEF HeldOwn
  <2>3. p \in q.can
    BY <2>2 DEF CanExact
  <2> QED
    BY <2>1, <2>3 DEF Match, OwnPerms
<1> QED
  BY <1>2, <1>3

LEMMA RSearchUserInfo ==
  ASSUME KInv, RInv, NEW r \in Reqs, SearchUserInfo(r) PROVE RInv'
<1> DEFINE s == IF Foreign(req[r]) THEN "refused"
                ELSE IF Match(req[r]) # {} THEN "permit" ELSE "deny"
<1>1. Ended(r, "resource_request", "go", s) /\ req[r].kind = "resource_request"
      /\ req[r].st = "go"
  BY DEF SearchUserInfo, Ended, Reading, At
<1>2. /\ s \in {"refused", "permit", "deny"} /\ (s # "refused" => ~Foreign(req[r]))
      /\ (s = "permit" => Match(req[r]) # {}) /\ (s = "deny" => Match(req[r]) = {})
  OBVIOUS
<1> HIDE DEF s
<1>3. /\ Others(r) /\ UNCHANGED tables /\ req'[r].st = s
      /\ SameParams(req[r], req'[r]) /\ Kept(req[r], req'[r])
  BY <1>1, <1>2, EndedActs DEF Stages, Final
<1>4. UNCHANGED <<pass, row, of, member, assign, grant, trust>>
  BY <1>3 DEF tables
<1>5. ASSUME req'[r].quiet PROVE DecideOK(req[r])'
  <2>1. CASE s = "refused"
    BY <1>1, <1>3, <2>1 DEF DecideOK, SameParams
  <2>2. CASE s # "refused"
    <3>1. AppsExact(req[r]) /\ HeldOwn(req[r]) /\ CanExact(req[r])
      BY <1>1, <1>3, <1>5 DEF RInv, Exact, DecideOK, Kept
    <3>2. req[r].form \subseteq Perms
      BY <1>1 DEF RInv, Names
    <3>3. Match(req[r]) # {} <=> MayThere(req[r])
      BY <3>1, <3>2, MatchIsMay
    <3>4. req[r].who \in {None, req[r].app} \/ <<req[r].who, req[r].app>> \in trust
      <4>1. CASE req[r].app \in req[r].apps
        <5>1. PICK t \in trust : t[1] = req[r].who /\ t[2] = req[r].app
          BY <3>1, <4>1 DEF AppsExact
        <5>2. t = <<t[1], t[2]>>
          BY DEF KInv, TablesOK, TablesType
        <5> QED
          BY <5>1, <5>2
      <4> QED
        BY <1>2, <2>2, <4>1 DEF Foreign
    <3>5. MayThere(req[r])' <=> MayThere(req[r])
      BY <1>3, <1>4 DEF MayThere, Holds, Here, SameParams
    <3>6. Judged(req[r])'
      BY <1>2, <1>3, <1>4, <3>3, <3>4, <3>5 DEF Judged, SameParams
    <3> QED
      BY <1>1, <1>2, <1>3, <2>2, <3>6 DEF DecideOK, SameParams
  <2> QED
    BY <2>1, <2>2
<1> QED
  BY <1>1, <1>2, <1>3, <1>4, <1>5, Decides DEF DecisionKinds

LEMMA RDecision == ASSUME KInv, RInv, NEW r \in Reqs, DecisionStep(r) PROVE RInv'
  BY RTrustedApplications, RSearchOrganizations, RUserRoles, RUserPermissions,
     RSearchUserInfo, RInfoToken DEF DecisionStep

-----------------------------------------------------------------------------
(* Arrivals. *)

\* What a request is like when it arrives; the id of an organization that it
\* creates is nobody else's.
Fresh(q) ==
    /\ \/ q.st = "load"
       \/ /\ q.st = "go" /\ Here(q.by)
          /\ q.kind \in AppMakers \cup OrgMakers \cup {"update_administrators"}
    /\ q.kind = "resource_request" => q.form \subseteq Perms
    /\ q.who \in Agents \cup Proxies => q.kind \in EquipKinds
    /\ q.kind \in OrgMakers => q.org \in Free(Orgs) /\ \A s \in Reqs : req[s].org # q.org
Arrived(r) == \E q : Arrive(r, q) /\ Fresh(q)

LEMMA Arrives ==
  ASSUME KInv, RInv, NEW r \in Reqs, NEW q, Arrive(r, q), Fresh(q)
  PROVE  RInv'
<1>1. /\ req' = [req EXCEPT ![r] = q] /\ UNCHANGED <<tables, scene>> /\ req[r].st # "ok"
      /\ q.kind \in scene.kinds
  BY DEF Arrive
<1>2. Others(r) /\ req'[r] = q /\ UNCHANGED tables
  BY <1>1, ReadActs
<1>3. UNCHANGED <<pass, row>>
  BY <1>2 DEF tables
<1>4. PassOK'
  BY <1>2, <1>3, PassStays
<1>5. Names(req[r])'
  BY <1>1, <1>2 DEF Names, EquipKinds, Fresh
<1>6. q.st = "go" => q.kind \notin AppKinds \cup {"api_iot_update"}
  BY KindOfCheck DEF AppMakers, OrgMakers, OrgKinds, AppKinds, WebRolesKinds,
     WebAssignKinds, WebManageKinds, ApiAppKinds, ApiRolesKinds, ApiAssignKinds,
     ApiManageKinds, Fresh
<1>7. CheckOK(req[r])'
  BY <1>2, <1>6 DEF CheckOK, Fresh
<1>8. DecideOK(req[r])'
  BY <1>2 DEF DecideOK, AppMakers, OrgMakers, Fresh
<1>9. SavedOK(req[r])'
  BY <1>2, NoSaved DEF Fresh
<1>10. CreateOK(req[r])'
  BY <1>2, <1>3 DEF CreateOK, Working, Here, Fresh
<1>11. EquipOK(r, req[r])'
  BY <1>2, <1>6 DEF EquipOK, Fresh
<1>12. Exact(r)'
  BY <1>7, <1>8, <1>9, <1>10, <1>11 DEF Exact
<1>13. \A s \in Reqs : Names(req[s])' /\ Exact(s)'
  BY <1>2, <1>5, <1>12, OthersStay
<1> QED
  BY <1>4, <1>13 DEF RInv

\* Requests that are checked before their handler, and those that are not.
LEMMA ArrivesLoaded ==
  ASSUME NEW r \in Reqs, NEW k \in AllKinds \ OrgMakers, NEW q, Arrive(r, q),
         q.st = "load", q.kind = k, q.who \in Agents \cup Proxies => k \in EquipKinds,
         k = "resource_request" => q.form \subseteq Perms
  PROVE  Arrived(r)
  BY DEF Arrived, Fresh

LEMMA ArrivesAtHandler ==
  ASSUME NEW r \in Reqs,
         NEW k \in AppMakers \cup OrgMakers \cup {"update_administrators"},
         NEW q, Arrive(r, q), q.st = "go", q.kind = k, Here(q.by), q.who = None,
         k \in OrgMakers => q.org \in Free(Orgs) /\ \A s \in Reqs : req[s].org # q.org
  PROVE  Arrived(r)
<1>1. None \notin Agents \cup Proxies /\ k # "resource_request"
  BY Apart DEF Ids, AppMakers, OrgMakers
<1> QED
  BY <1>1 DEF Arrived, Fresh

LEMMA NoAgent == \A x \in Users \cup Apps \cup Roles \cup Perms \cup {None} : x \notin Agents \cup Proxies
  BY Apart DEF Owned, Ids

LEMMA OrgArrives == ASSUME NEW r \in Reqs, NewOrgRequest(r) PROVE Arrived(r)
<1>1. ASSUME NEW k \in {"org_create", "api_org_create"}, NEW u \in Users, NEW o \in Free(Orgs),
             \A s \in Reqs : req[s].org # o, Here(u),
             Arrive(r, [Opened(k, u) EXCEPT !.st = "go", !.org = o])
      PROVE  Arrived(r)
  <2> DEFINE q == [Opened(k, u) EXCEPT !.st = "go", !.org = o]
  <2>0. k \in AllKinds
    BY <1>1 DEF AllKinds, OpenKinds
  <2>1. Blank(Opened(k, u), k, u)
    BY <2>0, OpenedIsBlank
  <2>2. q.st = "go" /\ q.kind = k /\ q.who = None /\ q.by = u /\ q.org = o
    BY <2>1 DEF Blank, ReqType
  <2>3. Arrive(r, q)
    BY <1>1
  <2> HIDE DEF q
  <2> QED
    BY <1>1, <2>2, <2>3, ArrivesAtHandler DEF AppMakers, OrgMakers
<1>2. ASSUME NEW k \in {"org_update_info", "org_destroy", "org_remove", "api_org_update",
                        "api_org_delete"}, NEW u \in Users, NEW o \in Orgs,
             Arrive(r, [Opened(k, u) EXCEPT !.org = o])
      PROVE  Arrived(r)
  <2> DEFINE q == [Opened(k, u) EXCEPT !.org = o]
  <2>0. k \in AllKinds \ OrgMakers /\ k # "resource_request"
    BY <1>2 DEF AllKinds, OrgKinds, OpenKinds, OrgMakers
  <2>1. Blank(Opened(k, u), k, u)
    BY <2>0, OpenedIsBlank
  <2>2. q.st = "load" /\ q.kind = k /\ q.who = None
    BY <2>1 DEF Blank, ReqType
  <2>3. Arrive(r, q)
    BY <1>2
  <2> HIDE DEF q
  <2> QED
    BY <2>0, <2>2, <2>3, NoAgent, ArrivesLoaded
<1>3. ASSUME NEW u \in Users, NEW o \in Orgs, NEW form \in MemberForms,
             Arrive(r, [Opened("add_members", u) EXCEPT !.org = o, !.form = form])
      PROVE  Arrived(r)
  <2> DEFINE q == [Opened("add_members", u) EXCEPT !.org = o, !.form = form]
  <2>0. "add_members" \in AllKinds \ OrgMakers /\ "add_members" # "resource_request"
    BY <1>3 DEF AllKinds, OrgKinds, OpenKinds, OrgMakers
  <2>1. Blank(Opened("add_members", u), "add_members", u)
    BY <2>0, OpenedIsBlank
  <2>2. q.st = "load" /\ q.kind = "add_members" /\ q.who = None
    BY <2>1 DEF Blank, ReqType
  <2>3. Arrive(r, q)
    BY <1>3
  <2> HIDE DEF q
  <2> QED
    BY <2>0, <2>2, <2>3, NoAgent, ArrivesLoaded
<1>4. ASSUME NEW k \in {"addRole", "removeRole"}, NEW u \in Users, NEW w \in Users,
             NEW o \in Orgs, NEW h \in MemberRoles,
             Arrive(r, [Opened(k, u) EXCEPT !.org = o, !.who = w, !.how = h])
      PROVE  Arrived(r)
  <2> DEFINE q == [Opened(k, u) EXCEPT !.org = o, !.who = w, !.how = h]
  <2>0. k \in AllKinds \ OrgMakers /\ k # "resource_request"
    BY <1>4 DEF AllKinds, OrgKinds, OpenKinds, OrgMakers
  <2>1. Blank(Opened(k, u), k, u)
    BY <2>0, OpenedIsBlank
  <2>2. q.st = "load" /\ q.kind = k /\ q.who = w
    BY <2>1 DEF Blank, ReqType
  <2>3. Arrive(r, q)
    BY <1>4
  <2> HIDE DEF q
  <2> QED
    BY <2>0, <2>2, <2>3, NoAgent, ArrivesLoaded
<1>5. ASSUME NEW u \in Users, Here(u), NEW form \in SUBSET Users,
             Arrive(r, [Opened("update_administrators", u) EXCEPT !.st = "go", !.form = form])
      PROVE  Arrived(r)
  <2> DEFINE q == [Opened("update_administrators", u) EXCEPT
                    !.st = "go", !.form = form]
  <2>0. "update_administrators" \in AllKinds
    BY <1>5 DEF AllKinds, OpenKinds
  <2>1. Blank(Opened("update_administrators", u), "update_administrators", u)
    BY <2>0, OpenedIsBlank
  <2>2. q.st = "go" /\ q.kind = "update_administrators" /\ q.who = None /\ q.by = u
    BY <2>1 DEF Blank, ReqType
  <2>3. Arrive(r, q)
    BY <1>5
  <2> HIDE DEF q
  <2> QED
    BY <1>5, <2>2, <2>3, ArrivesAtHandler DEF AppMakers, OrgMakers
<1> QED
  BY <1>1, <1>2, <1>3, <1>4, <1>5, Zenon DEF NewOrgRequest

LEMMA AppArrives == ASSUME NEW r \in Reqs, NewAppRequest(r) PROVE Arrived(r)
<1>1. ASSUME NEW k \in {"app_create", "api_app_create"}, NEW u \in Users, NEW a \in Free(Apps),
             NEW o \in Orgs \cup {None}, NEW t \in {"kept", "jwt"}, Here(u),
             Arrive(r, [Opened(k, u) EXCEPT !.st = "go", !.app = a, !.org = o, !.types = t])
      PROVE  Arrived(r)
  <2> DEFINE q == [Opened(k, u) EXCEPT
                    !.st = "go", !.app = a, !.org = o, !.types = t]
  <2>0. k \in AllKinds
    BY <1>1 DEF AllKinds, OpenKinds
  <2>1. Blank(Opened(k, u), k, u)
    BY <2>0, OpenedIsBlank
  <2>2. q.st = "go" /\ q.kind = k /\ q.who = None /\ q.by = u /\ q.org = o
    BY <2>1 DEF Blank, ReqType
  <2>3. Arrive(r, q)
    BY <1>1
  <2> HIDE DEF q
  <2> QED
    BY <1>1, <2>2, <2>3, ArrivesAtHandler DEF AppMakers, OrgMakers
<1>2. ASSUME NEW k \in {"app_update_info", "change_token_type", "api_app_update"},
             NEW u \in Users, NEW a \in Apps, NEW t \in {"kept", "bearer", "jwt"},
             Arrive(r, [Opened(k, u) EXCEPT !.app = a, !.types = t])
      PROVE  Arrived(r)
  <2> DEFINE q == [Opened(k, u) EXCEPT !.app = a, !.types = t]
  <2>0. k \in AllKinds \ OrgMakers /\ k # "resource_request"
    BY <1>2 DEF AllKinds, AppKinds, WebRolesKinds, WebAssignKinds, WebManageKinds,
       ApiAppKinds, ApiRolesKinds, ApiAssignKinds, ApiManageKinds, OrgMakers
  <2>1. Blank(Opened(k, u), k, u)
    BY <2>0, OpenedIsBlank
  <2>2. q.st = "load" /\ q.kind = k /\ q.who = None
    BY <2>1 DEF Blank, ReqType
  <2>3. Arrive(r, q)
    BY <1>2
  <2> HIDE DEF q
  <2> QED
    BY <2>0, <2>2, <2>3, NoAgent, ArrivesLoaded
<1>3. ASSUME NEW k \in {"reset_jwt_secret", "app_destroy", "api_app_delete",
                 "api_pep_update", "api_pep_delete"}, NEW u \in Users, NEW a \in Apps,
             Arrive(r, [Opened(k, u) EXCEPT !.app = a])
      PROVE  Arrived(r)
  <2> DEFINE q == [Opened(k, u) EXCEPT !.app = a]
  <2>0. k \in AllKinds \ OrgMakers /\ k # "resource_request"
    BY <1>3 DEF AllKinds, AppKinds, WebRolesKinds, WebAssignKinds, WebManageKinds,
       ApiAppKinds, ApiRolesKinds, ApiAssignKinds, ApiManageKinds, OrgMakers
  <2>1. Blank(Opened(k, u), k, u)
    BY <2>0, OpenedIsBlank
  <2>2. q.st = "load" /\ q.kind = k /\ q.who = None
    BY <2>1 DEF Blank, ReqType
  <2>3. Arrive(r, q)
    BY <1>3
  <2> HIDE DEF q
  <2> QED
    BY <2>0, <2>2, <2>3, NoAgent, ArrivesLoaded
<1>4. ASSUME NEW u \in Users, NEW a \in Apps, NEW x \in Free(Agents \cup Proxies),
             NEW k \in IF x \in Agents THEN {"register_iot", "api_iot_create"}
                       ELSE {"register_pep", "api_pep_create"},
             Arrive(r, [Opened(k, u) EXCEPT !.app = a, !.who = x])
      PROVE  Arrived(r)
  <2> DEFINE q == [Opened(k, u) EXCEPT !.app = a, !.who = x]
  <2>0. /\ k \in AllKinds \ OrgMakers /\ k # "resource_request"
        /\ k \in EquipKinds
    BY <1>4 DEF EquipKinds, AgentMakers, ProxyMakers, AllKinds, AppKinds, WebRolesKinds, WebAssignKinds, WebManageKinds,
       ApiAppKinds, ApiRolesKinds, ApiAssignKinds, ApiManageKinds, OrgMakers
  <2>1. Blank(Opened(k, u), k, u)
    BY <2>0, OpenedIsBlank
  <2>2. q.st = "load" /\ q.kind = k /\ q.who = x
    BY <2>1 DEF Blank, ReqType
  <2>3. Arrive(r, q)
    BY <1>4
  <2> HIDE DEF q
  <2> QED
    BY <2>0, <2>2, <2>3, ArrivesLoaded
<1>5. ASSUME NEW u \in Users, NEW a \in Apps, NEW x \in Agents \cup Proxies,
             NEW k \in IF x \in Agents
                       THEN {"delete_iot", "reset_password_iot", "api_iot_update",
                             "api_iot_delete"}
                       ELSE {"delete_pep", "reset_password_pep"},
             Arrive(r, [Opened(k, u) EXCEPT !.app = a, !.who = x])
      PROVE  Arrived(r)
  <2> DEFINE q == [Opened(k, u) EXCEPT !.app = a, !.who = x]
  <2>0. /\ k \in AllKinds \ OrgMakers /\ k # "resource_request"
        /\ k \in EquipKinds
    BY <1>5 DEF EquipKinds, AgentMakers, ProxyMakers, AllKinds, AppKinds, WebRolesKinds, WebAssignKinds, WebManageKinds,
       ApiAppKinds, ApiRolesKinds, ApiAssignKinds, ApiManageKinds, OrgMakers
  <2>1. Blank(Opened(k, u), k, u)
    BY <2>0, OpenedIsBlank
  <2>2. q.st = "load" /\ q.kind = k /\ q.who = x
    BY <2>1 DEF Blank, ReqType
  <2>3. Arrive(r, q)
    BY <1>5
  <2> HIDE DEF q
  <2> QED
    BY <2>0, <2>2, <2>3, ArrivesLoaded
<1>6. ASSUME NEW u \in Users, NEW a \in Apps, NEW form \in SUBSET Apps,
             Arrive(r, [Opened("authorize_trusted_applications", u)
                          EXCEPT !.app = a, !.form = form])
      PROVE  Arrived(r)
  <2> DEFINE q == [Opened("authorize_trusted_applications", u) EXCEPT
                    !.app = a, !.form = form]
  <2>0. "authorize_trusted_applications" \in AllKinds \ OrgMakers /\ "authorize_trusted_applications" # "resource_request"
    BY <1>6 DEF AllKinds, AppKinds, WebRolesKinds, WebAssignKinds, WebManageKinds,
       ApiAppKinds, ApiRolesKinds, ApiAssignKinds, ApiManageKinds, OrgMakers
  <2>1. Blank(Opened("authorize_trusted_applications", u), "authorize_trusted_applications", u)
    BY <2>0, OpenedIsBlank
  <2>2. q.st = "load" /\ q.kind = "authorize_trusted_applications" /\ q.who = None
    BY <2>1 DEF Blank, ReqType
  <2>3. Arrive(r, q)
    BY <1>6
  <2> HIDE DEF q
  <2> QED
    BY <2>0, <2>2, <2>3, NoAgent, ArrivesLoaded
<1>7. ASSUME NEW k \in {"addTrusted", "removeTrusted"}, NEW u \in Users, NEW a \in Apps,
             NEW b \in Apps, Arrive(r, [Opened(k, u) EXCEPT !.app = a, !.who = b])
      PROVE  Arrived(r)
  <2> DEFINE q == [Opened(k, u) EXCEPT !.app = a, !.who = b]
  <2>0. k \in AllKinds \ OrgMakers /\ k # "resource_request"
    BY <1>7 DEF AllKinds, AppKinds, WebRolesKinds, WebAssignKinds, WebManageKinds,
       ApiAppKinds, ApiRolesKinds, ApiAssignKinds, ApiManageKinds, OrgMakers
  <2>1. Blank(Opened(k, u), k, u)
    BY <2>0, OpenedIsBlank
  <2>2. q.st = "load" /\ q.kind = k /\ q.who = b
    BY <2>1 DEF Blank, ReqType
  <2>3. Arrive(r, q)
    BY <1>7
  <2> HIDE DEF q
  <2> QED
    BY <2>0, <2>2, <2>3, NoAgent, ArrivesLoaded
<1> QED
  BY <1>1, <1>2, <1>3, <1>4, <1>5, <1>6, <1>7, Zenon DEF NewAppRequest

LEMMA RoleArrives == ASSUME NEW r \in Reqs, NewRoleRequest(r) PROVE Arrived(r)
<1>0. PICK u \in Users, a \in Apps :
       \/ \E x \in Free(Roles \cup Perms) :
               /\ \A s \in Reqs : req[s].who # x
               /\ \E k \in IF x \in Roles THEN {"role_create", "api_role_create"}
                           ELSE {"permission_create", "api_permission_create"} :
                     Arrive(r, [Opened(k, u) EXCEPT !.app = a, !.who = x])
       \/ \E x \in AnyRole, k \in {"role_edit", "role_delete", "api_role_update",
                                      "api_role_delete"} :
                /\ k \in ApiRolesKinds => x \in RolesOf(a)
                /\ Arrive(r, [Opened(k, u) EXCEPT !.app = a, !.role = x])
       \/ \E p \in AnyPerm, k \in {"permission_edit", "permission_delete",
                         "api_permission_update", "api_permission_delete"} :
                /\ k \in ApiRolesKinds => p \in Offered(a)
                /\ Arrive(r, [Opened(k, u) EXCEPT !.app = a, !.perm = p])
       \/ \E k \in {"api_grant_create", "api_grant_delete"},
               x \in RolesOf(a), p \in Offered(a) :
                Arrive(r, [Opened(k, u) EXCEPT !.app = a, !.role = x, !.perm = p])
       \/ \E form \in GrantForms :
                Arrive(r, [Opened("role_permissions_assign", u)
                             EXCEPT !.app = a, !.form = form])
       \/ \E form \in Forms([to : UserHolders, role : AnyRole]) :
                Arrive(r, [Opened("authorize_users", u)
                             EXCEPT !.app = a, !.form = form])
       \/ \E form \in Forms([to : OrgHolders, role : AnyRole]) :
                Arrive(r, [Opened("authorize_organizations", u)
                             EXCEPT !.app = a, !.form = form])
       \/ \E k \in {"api_user_addRole", "api_user_removeRole"},
               x \in RolesOf(a), w \in Users :
                /\ Here(w)
                /\ Arrive(r, [Opened(k, u) EXCEPT !.app = a, !.role = x, !.who = w])
       \/ \E k \in {"api_org_role_addRole", "api_org_role_removeRole"},
               x \in RolesOf(a), o \in Orgs, h \in MemberRoles :
                /\ Here(o)
                /\ Arrive(r, [Opened(k, u) EXCEPT !.app = a, !.role = x,
                                                  !.org = o, !.how = h])
  BY Zenon DEF NewRoleRequest
<1>1. ASSUME NEW x \in Free(Roles \cup Perms),
             NEW k \in IF x \in Roles THEN {"role_create", "api_role_create"}
                       ELSE {"permission_create", "api_permission_create"},
             Arrive(r, [Opened(k, u) EXCEPT !.app = a, !.who = x])
      PROVE  Arrived(r)
  <2> DEFINE q == [Opened(k, u) EXCEPT !.app = a, !.who = x]
  <2>0. /\ k \in AllKinds \ OrgMakers /\ k # "resource_request"
        /\ x \in Roles \cup Perms
    BY <1>1 DEF AllKinds, AppKinds, WebRolesKinds, WebAssignKinds, WebManageKinds,
       ApiAppKinds, ApiRolesKinds, ApiAssignKinds, ApiManageKinds, OrgMakers, Free
  <2>1. Blank(Opened(k, u), k, u)
    BY <2>0, OpenedIsBlank
  <2>2. q.st = "load" /\ q.kind = k /\ q.who = x
    BY <2>1 DEF Blank, ReqType
  <2>3. Arrive(r, q)
    BY <1>1
  <2> HIDE DEF q
  <2> QED
    BY <2>0, <2>2, <2>3, NoAgent, ArrivesLoaded
<1>2. ASSUME NEW k \in {"role_permissions_assign", "authorize_users", "authorize_organizations"},
             NEW form, Arrive(r, [Opened(k, u) EXCEPT !.app = a, !.form = form])
      PROVE  Arrived(r)
  <2> DEFINE q == [Opened(k, u) EXCEPT !.app = a, !.form = form]
  <2>0. k \in AllKinds \ OrgMakers /\ k # "resource_request"
    BY <1>2 DEF AllKinds, AppKinds, WebRolesKinds, WebAssignKinds, WebManageKinds,
       ApiAppKinds, ApiRolesKinds, ApiAssignKinds, ApiManageKinds, OrgMakers
  <2>1. Blank(Opened(k, u), k, u)
    BY <2>0, OpenedIsBlank
  <2>2. q.st = "load" /\ q.kind = k /\ q.who = None
    BY <2>1 DEF Blank, ReqType
  <2>3. Arrive(r, q)
    BY <1>2
  <2> HIDE DEF q
  <2> QED
    BY <2>0, <2>2, <2>3, NoAgent, ArrivesLoaded
<1>3. ASSUME NEW k \in {"role_edit", "role_delete", "api_role_update", "api_role_delete"},
             NEW x, Arrive(r, [Opened(k, u) EXCEPT !.app = a, !.role = x])
      PROVE  Arrived(r)
  <2> DEFINE q == [Opened(k, u) EXCEPT !.app = a, !.role = x]
  <2>0. k \in AllKinds \ OrgMakers /\ k # "resource_request"
    BY <1>3 DEF AllKinds, AppKinds, WebRolesKinds, WebAssignKinds, WebManageKinds,
       ApiAppKinds, ApiRolesKinds, ApiAssignKinds, ApiManageKinds, OrgMakers
  <2>1. Blank(Opened(k, u), k, u)
    BY <2>0, OpenedIsBlank
  <2>2. q.st = "load" /\ q.kind = k /\ q.who = None
    BY <2>1 DEF Blank, ReqType
  <2>3. Arrive(r, q)
    BY <1>3
  <2> HIDE DEF q
  <2> QED
    BY <2>0, <2>2, <2>3, NoAgent, ArrivesLoaded
<1>4. ASSUME NEW k \in {"permission_edit", "permission_delete",
                       "api_permission_update", "api_permission_delete"},
             NEW p, Arrive(r, [Opened(k, u) EXCEPT !.app = a, !.perm = p])
      PROVE  Arrived(r)
  <2> DEFINE q == [Opened(k, u) EXCEPT !.app = a, !.perm = p]
  <2>0. k \in AllKinds \ OrgMakers /\ k # "resource_request"
    BY <1>4 DEF AllKinds, AppKinds, WebRolesKinds, WebAssignKinds, WebManageKinds,
       ApiAppKinds, ApiRolesKinds, ApiAssignKinds, ApiManageKinds, OrgMakers
  <2>1. Blank(Opened(k, u), k, u)
    BY <2>0, OpenedIsBlank
  <2>2. q.st = "load" /\ q.kind = k /\ q.who = None
    BY <2>1 DEF Blank, ReqType
  <2>3. Arrive(r, q)
    BY <1>4
  <2> HIDE DEF q
  <2> QED
    BY <2>0, <2>2, <2>3, NoAgent, ArrivesLoaded
<1>5. ASSUME NEW k \in {"api_grant_create", "api_grant_delete"}, NEW x, NEW p,
             Arrive(r, [Opened(k, u) EXCEPT !.app = a, !.role = x, !.perm = p])
      PROVE  Arrived(r)
  <2> DEFINE q == [Opened(k, u) EXCEPT !.app = a, !.role = x, !.perm = p]
  <2>0. k \in AllKinds \ OrgMakers /\ k # "resource_request"
    BY <1>5 DEF AllKinds, AppKinds, WebRolesKinds, WebAssignKinds, WebManageKinds,
       ApiAppKinds, ApiRolesKinds, ApiAssignKinds, ApiManageKinds, OrgMakers
  <2>1. Blank(Opened(k, u), k, u)
    BY <2>0, OpenedIsBlank
  <2>2. q.st = "load" /\ q.kind = k /\ q.who = None
    BY <2>1 DEF Blank, ReqType
  <2>3. Arrive(r, q)
    BY <1>5
  <2> HIDE DEF q
  <2> QED
    BY <2>0, <2>2, <2>3, NoAgent, ArrivesLoaded
<1>6. ASSUME NEW k \in {"api_user_addRole", "api_user_removeRole"}, NEW x, NEW w \in Users,
             Arrive(r, [Opened(k, u) EXCEPT !.app = a, !.role = x, !.who = w])
      PROVE  Arrived(r)
  <2> DEFINE q == [Opened(k, u) EXCEPT !.app = a, !.role = x, !.who = w]
  <2>0. k \in AllKinds \ OrgMakers /\ k # "resource_request"
    BY <1>6 DEF AllKinds, AppKinds, WebRolesKinds, WebAssignKinds, WebManageKinds,
       ApiAppKinds, ApiRolesKinds, ApiAssignKinds, ApiManageKinds, OrgMakers
  <2>1. Blank(Opened(k, u), k, u)
    BY <2>0, OpenedIsBlank
  <2>2. q.st = "load" /\ q.kind = k /\ q.who = w
    BY <2>1 DEF Blank, ReqType
  <2>3. Arrive(r, q)
    BY <1>6
  <2> HIDE DEF q
  <2> QED
    BY <2>0, <2>2, <2>3, NoAgent, ArrivesLoaded
<1>7. ASSUME NEW k \in {"api_org_role_addRole", "api_org_role_removeRole"}, NEW x, NEW o, NEW h,
             Arrive(r, [Opened(k, u) EXCEPT !.app = a, !.role = x, !.org = o, !.how = h])
      PROVE  Arrived(r)
  <2> DEFINE q == [Opened(k, u) EXCEPT !.app = a, !.role = x, !.org = o, !.how = h]
  <2>0. k \in AllKinds \ OrgMakers /\ k # "resource_request"
    BY <1>7 DEF AllKinds, AppKinds, WebRolesKinds, WebAssignKinds, WebManageKinds,
       ApiAppKinds, ApiRolesKinds, ApiAssignKinds, ApiManageKinds, OrgMakers
  <2>1. Blank(Opened(k, u), k, u)
    BY <2>0, OpenedIsBlank
  <2>2. q.st = "load" /\ q.kind = k /\ q.who = None
    BY <2>1 DEF Blank, ReqType
  <2>3. Arrive(r, q)
    BY <1>7
  <2> HIDE DEF q
  <2> QED
    BY <2>0, <2>2, <2>3, NoAgent, ArrivesLoaded
<1>8. ASSUME NEW form,
             Arrive(r, [Opened("role_permissions_assign", u) EXCEPT !.app = a, !.form = form])
      PROVE  Arrived(r)
  BY <1>2, <1>8, Zenon
<1>9. ASSUME NEW form,
             Arrive(r, [Opened("authorize_users", u) EXCEPT !.app = a, !.form = form])
      PROVE  Arrived(r)
  BY <1>2, <1>9, Zenon
<1>10. ASSUME NEW form,
             Arrive(r, [Opened("authorize_organizations", u) EXCEPT !.app = a, !.form = form])
      PROVE  Arrived(r)
  BY <1>2, <1>10, Zenon
<1> QED
  BY <1>0, <1>1, <1>3, <1>4, <1>5, <1>6, <1>7, <1>8, <1>9, <1>10, Zenon

LEMMA DecisionArrives == ASSUME NEW r \in Reqs, NewDecision(r) PROVE Arrived(r)
<1>1. ASSUME NEW u \in Users, NEW a \in Apps, NEW match \in {{}} \cup {{p} : p \in OwnPerms(a)},
             NEW b \in {None} \cup {b \in Apps : Here(b)},
             Arrive(r, [Opened("resource_request", u) EXCEPT
                             !.app = a, !.who = b, !.form = match])
      PROVE  Arrived(r)
  <2> DEFINE q == [Opened("resource_request", u) EXCEPT
                    !.app = a, !.who = b, !.form = match]
  <2>0. "resource_request" \in AllKinds \ OrgMakers /\ match \subseteq Perms
        /\ b \notin Agents \cup Proxies
    BY <1>1, NoAgent DEF AllKinds, DecisionKinds, OrgMakers, OwnPerms
  <2>1. Blank(Opened("resource_request", u), "resource_request", u)
    BY <2>0, OpenedIsBlank
  <2>2. q.st = "load" /\ q.kind = "resource_request" /\ q.who = b /\ q.form = match
    BY <2>1 DEF Blank, ReqType
  <2>3. Arrive(r, q)
    BY <1>1
  <2> HIDE DEF q
  <2> QED
    BY <2>0, <2>2, <2>3, ArrivesLoaded
<1>2. ASSUME NEW u \in Users, NEW a \in Apps,
             Arrive(r, [Opened("access_token_info", u) EXCEPT !.app = a])
      PROVE  Arrived(r)
  <2> DEFINE q == [Opened("access_token_info", u) EXCEPT !.app = a]
  <2>0. "access_token_info" \in AllKinds \ OrgMakers
    BY DEF AllKinds, DecisionKinds, OrgMakers
  <2>1. Blank(Opened("access_token_info", u), "access_token_info", u)
    BY <2>0, OpenedIsBlank
  <2>2. q.st = "load" /\ q.kind = "access_token_info" /\ q.who = None
    BY <2>1 DEF Blank, ReqType
  <2>3. Arrive(r, q)
    BY <1>2
  <2> HIDE DEF q
  <2> QED
    BY <2>0, <2>2, <2>3, NoAgent, ArrivesLoaded
<1> QED
  BY <1>1, <1>2, Zenon DEF NewDecision

LEMMA NewArrives == ASSUME NEW r \in Reqs, NewRequest(r) PROVE Arrived(r)
  BY OrgArrives, AppArrives, RoleArrives, DecisionArrives DEF NewRequest

LEMMA RNewRequest == ASSUME KInv, RInv, NEW r \in Reqs, NewRequest(r) PROVE RInv'
  BY NewArrives, Arrives DEF Arrived

LEMMA RDeleteAccount == ASSUME KInv, RInv, NEW u \in Users, DeleteAccount(u) PROVE RInv'
<1> DEFINE p(s) == [req[s] EXCEPT !.quiet = FALSE]
<1>1. req' = [s \in Reqs |-> p(s)] /\ UNCHANGED <<scene, pass>>
  BY DEF DeleteAccount, Delete
<1>2. \A s \in Reqs : p(s).quiet = FALSE /\ p(s).st = req[s].st /\ SameParams(req[s], p(s))
  BY Disturbed DEF KInv
<1> HIDE DEF p
<1>3. \A s \in Reqs : /\ ~req'[s].quiet /\ req'[s].st = req[s].st
                      /\ SameParams(req[s], req'[s])
  BY <1>1, <1>2
<1>4. \A s \in Reqs : Names(req[s])' /\ Exact(s)'
  <2> SUFFICES ASSUME NEW s \in Reqs PROVE Names(req[s])' /\ Exact(s)'
    OBVIOUS
  <2>1. Names(req[s])'
    BY <1>1, <1>3, NamesStay DEF RInv
  <2> QED
    BY <1>3, <2>1 DEF Exact
<1>5. PassOK'
  BY <1>1, <1>3 DEF RInv, PassOK, SameParams
<1> QED
  BY <1>4, <1>5 DEF RInv

-----------------------------------------------------------------------------
(* Every state. *)

LEMMA InitRInv == Init => RInv
<1> SUFFICES ASSUME Init PROVE RInv
  OBVIOUS
<1>1. /\ IdleReq.st = "idle" /\ IdleReq.kind = "none" /\ IdleReq.who = None
  BY DEF IdleReq
<1>2. \A r \in Reqs : req[r] = IdleReq
  BY DEF Init
<1>3. \A x \in Agents \cup Proxies : pass[x] = None
  BY DEF Init, FirstTables
<1>4. None \notin Reqs
  BY DirectoryAssumption
<1>5. None \notin Agents \cup Proxies
  BY NoAgent
<1>6. ASSUME NEW r \in Reqs PROVE Names(req[r]) /\ Exact(r)
  <2>1. req[r].st = "idle" /\ req[r].kind = "none" /\ req[r].who = None
    BY <1>1, <1>2
  <2>2. Names(req[r])
    BY <1>5, <2>1 DEF Names
  <2>3. CheckOK(req[r]) /\ DecideOK(req[r])
    BY <2>1 DEF CheckOK, DecideOK
  <2>4. SavedOK(req[r])
    BY <2>1 DEF SavedOK
  <2>5. CreateOK(req[r])
    BY <2>1 DEF CreateOK, AppMakers, OrgMakers
  <2>6. EquipOK(r, req[r])
    BY <2>1 DEF EquipOK
  <2> QED
    BY <2>2, <2>3, <2>4, <2>5, <2>6 DEF Exact
<1>7. PassOK
  BY <1>3, <1>4 DEF PassOK
<1> QED
  BY <1>6, <1>7 DEF RInv

LEMMA StepRInv == KInv /\ RInv /\ [Next]_vars => RInv'
<1> SUFFICES ASSUME KInv, RInv, [Next]_vars PROVE RInv'
  OBVIOUS
<1>1. ASSUME NEW r \in Reqs, NewRequest(r) PROVE RInv'
  BY <1>1, RNewRequest
<1>2. ASSUME NEW r \in Reqs, Handle(r) PROVE RInv'
  BY <1>2, RCheck, ROrganization, RApplication, RRole, RDecision DEF Handle
<1>3. ASSUME NEW u \in Users, DeleteAccount(u) PROVE RInv'
  BY <1>3, RDeleteAccount
<1>4. CASE UNCHANGED vars
  <2>1. UNCHANGED <<tables, req, scene>>
    BY <1>4 DEF vars
  <2>2. PassOK'
    BY <2>1 DEF RInv, PassOK, tables
  <2>3. \A r \in Reqs : Names(req[r])' /\ Exact(r)'
    <3> SUFFICES ASSUME NEW r \in Reqs PROVE Names(req[r])' /\ Exact(r)'
      OBVIOUS
    <3>1. Names(req[r])'
      BY <2>1 DEF RInv, Names
    <3>2. Exact(r)'
      BY <2>1, SameExact DEF RInv
    <3> QED
      BY <3>1, <3>2
  <2> QED
    BY <2>2, <2>3 DEF RInv
<1> QED
  BY <1>1, <1>2, <1>3, <1>4 DEF Next

LEMMA RInvAlways == Spec => [](KInv /\ RInv)
<1>1. Init => KInv /\ RInv
  BY InitKInv, InitRInv
<1>2. KInv /\ RInv /\ [Next]_vars => KInv' /\ RInv'
  BY StepKInv, StepRInv
<1> QED
  BY <1>1, <1>2, PTL DEF Spec

LEMMA RInvGives == RInv => CheckExact /\ DecisionExact /\ SavedAsPosted /\ CreationsComplete
<1> SUFFICES ASSUME RInv PROVE CheckExact /\ DecisionExact /\ SavedAsPosted /\ CreationsComplete
  OBVIOUS
<1>1. ASSUME NEW r \in Reqs, req[r].quiet
      PROVE  /\ CheckOK(req[r]) /\ DecideOK(req[r]) /\ SavedOK(req[r]) /\ CreateOK(req[r])
             /\ EquipOK(r, req[r])
  BY <1>1 DEF RInv, Exact
<1>2. CheckExact
  BY <1>1 DEF CheckExact, CheckOK
<1>3. DecisionExact
  BY <1>1 DEF DecisionExact, DecideOK, Judged, Informed, HeldOwn
<1>4. SavedAsPosted
  BY <1>1 DEF SavedAsPosted, SavedOK, FormOK, GrantsHeld, TrustHeld, MembersHeld, MembersOf,
     MemberAdded
<1>5. CreationsComplete
  BY <1>1 DEF CreationsComplete, CreateOK, EquipOK, Equipped, AppMakers, OrgMakers
<1> QED
  BY <1>2, <1>3, <1>4, <1>5

\* A request that no other has disturbed gets past owned_permissions
\* (check_permissions.js, and check_request.js of the API) if, and only if, one
\* of the roles its user holds at that moment has a permission its route asks for.
THEOREM ChecksAreExact == Spec => []CheckExact
  BY RInvAlways, RInvGives, PTL

\* An undisturbed decision (authzforce.js, oauth2.js) permits exactly what a role
\* of the user allows in the application, and only there or to one that trusts it;
\* what it answers about a token names exactly the user's roles.
THEOREM DecisionsAreExact == Spec => []DecisionExact
  BY RInvAlways, RInvGives, PTL

\* A dialog saved while nobody else wrote (manage_members.js, roles.js,
\* authorize_user_apps.js, ...) leaves exactly the rows that its form names.
THEOREM DialogsSaveTheirForm == Spec => []SavedAsPosted
  BY RInvAlways, RInvGives, PTL

\* An undisturbed creation that is answered with success has made all its rows,
\* one that fails leaves none, and the password that is answered is the one that
\* the agent or proxy has, whatever other requests made before.
THEOREM CreationsAreComplete == Spec => []CreationsComplete
  BY RInvAlways, RInvGives, PTL

-----------------------------------------------------------------------------
(* Tickets. *)

TicketKinds == OrgMakers \cup {"add_members"}
Sober(r) ==
    /\ scene' = scene /\ member' \subseteq member
    /\ \A s \in Reqs : req'[s].kind = req[s].kind /\ req'[s].org = req[s].org
    /\ \A s \in Reqs \ {r} : req'[s].st = req[s].st
Aside(r) == Sober(r) /\ req[r].kind \notin TicketKinds

\* Memberships that only go, and tickets that only go.
LEMMA MShrinks ==
  ASSUME MInv, scene' = scene, member' \subseteq member,
         \A s \in Reqs, o \in Orgs : Ticket(req[s], o)' => Ticket(req[s], o)
  PROVE  MInv'
<1>1. ASSUME "addRole" \notin scene.kinds PROVE TicketsOK' /\ MembersOnce'
  <2>1. TicketsOK /\ MembersOnce
    BY <1>1 DEF MInv
  <2>2. TicketsOK'
    BY <2>1 DEF TicketsOK, MembersOf
  <2>3. MembersOnce'
    BY <1>1, <2>1 DEF MembersOnce
  <2> QED
    BY <2>2, <2>3
<1> QED
  BY <1>1 DEF MInv

\* Whoever puts no one into an organization, and gets no ticket.
LEMMA MStill ==
  ASSUME MInv, NEW r \in Reqs, Sober(r),
         \A o \in Orgs : Ticket(req[r], o)' => Ticket(req[r], o)
  PROVE  MInv'
<1>1. \A s \in Reqs, o \in Orgs : Ticket(req[s], o)' => Ticket(req[s], o)
  <2> SUFFICES ASSUME NEW s \in Reqs, NEW o \in Orgs, Ticket(req[s], o)'
               PROVE  Ticket(req[s], o)
    OBVIOUS
  <2>1. CASE s = r
    BY <2>1
  <2>2. CASE s # r
    BY <2>2 DEF Sober, Ticket
  <2> QED
    BY <2>1, <2>2
<1> QED
  BY <1>1, MShrinks DEF Sober

LEMMA MAside == ASSUME MInv, NEW r \in Reqs, Aside(r) PROVE MInv'
<1>1. \A o \in Orgs : Ticket(req[r], o)' => Ticket(req[r], o)
  BY DEF Aside, Sober, Ticket, TicketKinds
<1> QED
  BY <1>1, MStill DEF Aside

LEMMA ReadsSober ==
  ASSUME KInv, NEW r \in Reqs, NEW q, req' = [req EXCEPT ![r] = q], UNCHANGED <<tables, scene>>,
         q.kind = req[r].kind, q.org = req[r].org
  PROVE  Sober(r)
  BY DEF KInv, Sober, tables

LEMMA ReadingSober ==
  ASSUME KInv, NEW r \in Reqs, NEW k, NEW stage, NEW q, Reading(r, k, stage, q),
         q.kind = req[r].kind, q.org = req[r].org
  PROVE  Sober(r)
  BY ReadsSober DEF Reading

LEMMA EndedSober ==
  ASSUME KInv, NEW r \in Reqs, NEW k, NEW stage, NEW end, Ended(r, k, stage, end)
  PROVE  Sober(r) /\ req[r].kind = k /\ req'[r].st = end
<1> DEFINE q == [req[r] EXCEPT !.st = end]
<1>1. q.kind = req[r].kind /\ q.org = req[r].org /\ q.st = end
  BY DEF KInv, ReqType
<1>2. Reading(r, k, stage, q)
  BY DEF Ended
<1> HIDE DEF q
<1>3. Sober(r)
  BY <1>1, <1>2, ReadingSober
<1> QED
  BY <1>1, <1>2, <1>3 DEF Reading, At, KInv

LEMMA WroteSober ==
  ASSUME KInv, NEW r \in Reqs, NEW stage, Wrote(r, stage), member' \subseteq member
  PROVE  Sober(r) /\ req'[r].st = stage
<1> DEFINE q == [req[r] EXCEPT !.st = stage]
           p(s) == [req[s] EXCEPT !.quiet = FALSE]
<1>1. q.kind = req[r].kind /\ q.org = req[r].org /\ q.st = stage
  BY DEF KInv, ReqType
<1>2. \A s \in Reqs : /\ p(s).kind = req[s].kind /\ p(s).org = req[s].org
                      /\ p(s).st = req[s].st
  BY DEF KInv, ReqType
<1>3. req' = [s \in Reqs |-> IF s = r THEN q ELSE p(s)] /\ UNCHANGED scene
  BY DEF Wrote
<1> HIDE DEF q, p
<1> QED
  BY <1>1, <1>2, <1>3 DEF Sober

LEMMA DeleteTakes == ASSUME NEW X, Delete(X) PROVE member' \subseteq member
  BY DEF Delete

LEMMA MCheck == ASSUME KInv, MInv, NEW r \in Reqs, Check(r) PROVE MInv'
<1>1. ASSUME req[r].kind \in AppKinds, Sober(r) PROVE MInv'
  <2>1. req[r].kind \notin TicketKinds
    BY <1>1, KindOfCheck DEF TicketKinds, AppKinds, WebRolesKinds, WebAssignKinds,
       WebManageKinds, ApiAppKinds, ApiRolesKinds, ApiAssignKinds, ApiManageKinds
  <2> QED
    BY <1>1, <2>1, MAside DEF Aside
<1>2. req[r] \in ReqType
  BY DEF KInv
<1>3. CASE LoadApplication(r) \/ ApiLoadApplication(r)
  <2> DEFINE next == IF Here(req[r].app) THEN "member" ELSE "missing"
             q == WithJwt(req[r], next, token[req[r].app].jwt)
  <2>1. req' = [req EXCEPT ![r] = q] /\ UNCHANGED <<tables, scene>> /\ req[r].kind \in AppKinds
    BY <1>2, <1>3 DEF LoadApplication, ApiLoadApplication, LoadRow, AppKinds, WithJwt, KInv
  <2>2. Kept(req[r], q)
    BY <1>2, ReadJwt
  <2> HIDE DEF q
  <2> QED
    BY <1>1, <2>1, <2>2, ReadsSober DEF Kept
<1>4. CASE FindMemberships(r)
  <2> DEFINE mem == {<<m.org, m.role>> : m \in {m \in member : m.user = req[r].by}}
             q == WithMem(req[r], "held", mem)
  <2>1. req' = [req EXCEPT ![r] = q] /\ UNCHANGED <<tables, scene>> /\ req[r].kind \in AppKinds
    BY <1>2, <1>4 DEF FindMemberships, WithMem, KInv
  <2> HIDE DEF mem
  <2>2. Kept(req[r], q)
    BY <1>2, ReadMem
  <2> HIDE DEF q
  <2> QED
    BY <1>1, <2>1, <2>2, ReadsSober DEF Kept
<1>5. CASE FindRoles(r)
  <2> DEFINE held == RolesAt(req[r].app, OfUser(req[r].by)) \cup
                     UNION {RolesAt(req[r].app, OfOrg(m[1], m[2])) : m \in req[r].mem}
             q == WithHeld(req[r], "can", held)
  <2>1. req' = [req EXCEPT ![r] = q] /\ UNCHANGED <<tables, scene>> /\ req[r].kind \in AppKinds
    BY <1>2, <1>5 DEF FindRoles, WithHeld, KInv
  <2> HIDE DEF held
  <2>2. Kept(req[r], q)
    BY <1>2, ReadHeld
  <2> HIDE DEF q
  <2> QED
    BY <1>1, <2>1, <2>2, ReadsSober DEF Kept
<1>6. ASSUME NEW kinds \in SUBSET AppKinds, NEW further, NEW refused,
             Decide(r, kinds, further, refused)
      PROVE  MInv'
  <2> DEFINE can == UNION {PermsOf(x) : x \in req[r].held}
             next == IF Needs(req[r].kind) \cap can = {} THEN refused ELSE further
             q == WithDecision(req[r], next, can)
  <2>1. req' = [req EXCEPT ![r] = q] /\ UNCHANGED <<tables, scene>> /\ req[r].kind \in AppKinds
    BY <1>2, <1>6 DEF Decide, WithDecision, KInv
  <2> HIDE DEF can, next
  <2>2. Kept(req[r], q)
    BY <1>2, ReadDecision
  <2> HIDE DEF q
  <2> QED
    BY <1>1, <2>1, <2>2, ReadsSober DEF Kept
<1>7. CASE LoadParameters(r)
  <2> DEFINE s == IF ParamsHere(req[r]) THEN "go" ELSE "missing"
             q == [req[r] EXCEPT !.st = s]
  <2>1. req' = [req EXCEPT ![r] = q] /\ UNCHANGED <<tables, scene>> /\ req[r].st = "params"
    BY <1>7 DEF LoadParameters
  <2>2. s \in {"go", "missing"}
    OBVIOUS
  <2> HIDE DEF s
  <2>3. q.st = s /\ q.kind = req[r].kind /\ q.org = req[r].org
    BY <1>2 DEF ReqType
  <2> HIDE DEF q
  <2>4. Sober(r) /\ req'[r] = q
    BY <2>1, <2>3, ReadsSober DEF KInv
  <2>5. \A o \in Orgs : Ticket(req[r], o)' => Ticket(req[r], o)
    BY <2>1, <2>2, <2>3, <2>4 DEF Ticket, OrgMakers
  <2> QED
    BY <2>4, <2>5, MStill
<1>8. CASE RefuseBody(r)
  <2>1. Sober(r) /\ req'[r].st = "refused"
    BY <1>8, EndedSober DEF RefuseBody
  <2>2. \A o \in Orgs : Ticket(req[r], o)' => Ticket(req[r], o)
    BY <2>1 DEF Ticket
  <2> QED
    BY <2>1, <2>2, MStill
<1>9. AppKinds \ ApiAppKinds \in SUBSET AppKinds /\ ApiAppKinds \in SUBSET AppKinds
  BY DEF AppKinds
<1> QED
  BY <1>3, <1>4, <1>5, <1>6, <1>7, <1>8, <1>9 DEF Check, OwnedPermissions, CheckRequest

\* A statement of a handler that makes no organization and fills none.
LEMMA MEnded ==
  ASSUME KInv, MInv, NEW r \in Reqs, NEW k, k \notin TicketKinds, NEW stage, NEW end,
         Ended(r, k, stage, end)
  PROVE  MInv'
  BY EndedSober, MAside DEF Aside

LEMMA MWrote ==
  ASSUME KInv, MInv, NEW r \in Reqs, req[r].kind \notin TicketKinds, NEW end,
         Wrote(r, end), member' \subseteq member
  PROVE  MInv'
  BY WroteSober, MAside DEF Aside

LEMMA MDeleted ==
  ASSUME KInv, MInv, NEW r \in Reqs, req[r].kind \notin TicketKinds, NEW end,
         Wrote(r, end), NEW X, Delete(X)
  PROVE  MInv'
  BY MWrote, DeleteTakes

LEMMA MReading ==
  ASSUME KInv, MInv, NEW r \in Reqs, NEW k, k \notin TicketKinds, NEW stage, NEW q,
         Reading(r, k, stage, q), q.kind = req[r].kind, q.org = req[r].org
  PROVE  MInv'
  BY ReadingSober, MAside DEF Aside, Reading, At

LEMMA MMoved ==
  ASSUME KInv, MInv, NEW r \in Reqs, NEW k, k \notin TicketKinds, NEW stage, NEW s,
         Reading(r, k, stage, [req[r] EXCEPT !.st = s])
  PROVE  MInv'
<1> DEFINE q == [req[r] EXCEPT !.st = s]
<1>1. q.kind = req[r].kind /\ q.org = req[r].org
  BY DEF KInv, ReqType
<1>2. Reading(r, k, stage, q)
  OBVIOUS
<1> HIDE DEF q
<1> QED
  BY <1>1, <1>2, MReading

USE DEF At

LEMMA NoTicket ==
  ASSUME NEW k, k \in AppKinds \cup AppMakers \cup DecisionKinds
  PROVE  k \notin TicketKinds
  BY KindOfCheck DEF TicketKinds, AppKinds, AppMakers, OrgMakers, DecisionKinds, WebRolesKinds,
     WebAssignKinds, WebManageKinds, ApiAppKinds, ApiRolesKinds, ApiAssignKinds, ApiManageKinds

LEMMA MSaveApplication ==
  ASSUME KInv, MInv, NEW r \in Reqs, NEW k \in AppMakers, SaveApplication(r, k) PROVE MInv'
<1> DEFINE stage == IF req[r].st = "go" /\ req[r].org = None THEN "fill" ELSE req[r].st
           p(s) == [req[s] EXCEPT !.quiet = FALSE]
           q == WithSaved(req[r], stage)
<1>1. /\ req[r].kind = k /\ UNCHANGED <<member, scene>> /\ \A s \in Reqs : req[s] \in ReqType
  BY DEF SaveApplication, KInv
<1>2. Kept(req[r], q)
  <2> HIDE DEF stage
  <2> QED
    BY <1>1, ReadSaved
<1>3. req' = [s \in Reqs |-> IF s = r THEN q ELSE p(s)]
  <2>1. req' = [s \in Reqs |-> IF s = r
          THEN [req[s] EXCEPT !.saved = TRUE,
                              !.st = IF @ = "go" /\ req[s].org = None THEN "fill" ELSE @]
          ELSE [req[s] EXCEPT !.quiet = FALSE]]
    BY DEF SaveApplication
  <2>2. [req[r] EXCEPT !.saved = TRUE,
                       !.st = IF @ = "go" /\ req[r].org = None THEN "fill" ELSE @] = q
    BY <1>1 DEF WithSaved, ReqType
  <2> HIDE DEF q
  <2> QED
    BY <2>1, <2>2
<1>4. \A s \in Reqs : p(s).st = req[s].st /\ SameParams(req[s], p(s))
  BY <1>1, Disturbed
<1> HIDE DEF q, p, stage
<1>5. Sober(r)
  BY <1>1, <1>2, <1>3, <1>4 DEF Sober, Kept, SameParams
<1> QED
  BY <1>1, <1>5, NoTicket, MAside DEF Aside

LEMMA MCreation ==
  ASSUME KInv, MInv, NEW r \in Reqs,
         \/ \E k \in AppMakers, failed \in {"hung", "failed"} : CreateProvider(r, k, failed)
         \/ LookUpOwner(r) \/ CreateOwnersRow(r) \/ AnswerCreated(r) \/ DestroyUnowned(r)
  PROVE  MInv'
<1>1. "app_create" \notin TicketKinds
  BY NoTicket DEF AppMakers
<1>2. ASSUME NEW k \in AppMakers, NEW failed \in {"hung", "failed"}, CreateProvider(r, k, failed)
      PROVE  MInv'
  BY <1>2, NoTicket, MWrote, MEnded DEF CreateProvider, AddProvider
<1>3. CASE LookUpOwner(r)
  BY <1>1, <1>3, MMoved DEF LookUpOwner
<1>4. CASE CreateOwnersRow(r)
  BY <1>1, <1>4, MWrote, MEnded DEF CreateOwnersRow, AddProvider
<1>5. CASE AnswerCreated(r)
  BY <1>1, <1>5, MEnded DEF AnswerCreated
<1>6. CASE DestroyUnowned(r)
  BY <1>1, <1>6, MDeleted DEF DestroyUnowned
<1> QED
  BY <1>2, <1>3, <1>4, <1>5, <1>6

LEMMA MTokens ==
  ASSUME KInv, MInv, NEW r \in Reqs,
         \/ AppUpdateInfo(r) \/ ChangeTokenType(r) \/ ResetJwtSecret(r)
         \/ ApiUpdateApplication(r) \/ DestroyApplication(r) \/ ApiDeleteApplication(r)
  PROVE  MInv'
<1>1. {"app_update_info", "change_token_type", "reset_jwt_secret", "api_app_update",
       "app_destroy", "api_app_delete"} \cap TicketKinds = {}
  BY DEF TicketKinds, OrgMakers
<1>2. ASSUME NEW t, NEW end, SetToken(r, req[r].app, t, end), req[r].kind \notin TicketKinds
      PROVE  MInv'
  BY <1>2, MWrote DEF SetToken
<1>3. CASE AppUpdateInfo(r)
  BY <1>1, <1>2, <1>3 DEF AppUpdateInfo
<1>4. CASE ChangeTokenType(r)
  BY <1>1, <1>2, <1>4 DEF ChangeTokenType
<1>5. CASE ResetJwtSecret(r)
  BY <1>1, <1>2, <1>5, MEnded DEF ResetJwtSecret
<1>6. CASE ApiUpdateApplication(r)
  <2>1. PICK t : SetToken(r, req[r].app, t, "ok") /\ req[r].kind = "api_app_update"
    BY <1>6, Zenon DEF ApiUpdateApplication
  <2> QED
    BY <1>1, <1>2, <2>1
<1>7. CASE DestroyApplication(r) \/ ApiDeleteApplication(r)
  BY <1>1, <1>7, MDeleted DEF DestroyApplication, ApiDeleteApplication
<1> QED
  BY <1>3, <1>4, <1>5, <1>6, <1>7

LEMMA MEquipment ==
  ASSUME KInv, MInv, NEW r \in Reqs,
         \/ RegisterIot(r) \/ ApiCreateIot(r) \/ RegisterPep(r) \/ ApiCreatePep(r)
         \/ DeleteIot(r) \/ DeletePep(r) \/ ResetPasswordIot(r) \/ ResetPasswordPep(r)
         \/ ApiUpdateIot(r) \/ ApiDeleteIot(r) \/ ApiUpdatePep(r) \/ ApiDeletePep(r)
  PROVE  MInv'
<1>1. EquipKinds \cap TicketKinds = {}
  BY DEF TicketKinds, OrgMakers, EquipKinds, AgentMakers, ProxyMakers
<1>2. /\ {"register_iot", "api_iot_create", "register_pep", "api_pep_create"} \subseteq EquipKinds
      /\ {"delete_iot", "delete_pep", "reset_password_iot", "reset_password_pep",
          "api_iot_update", "api_iot_delete", "api_pep_update", "api_pep_delete"}
           \subseteq EquipKinds
  BY DEF EquipKinds, AgentMakers, ProxyMakers
<1>3. ASSUME NEW k \in EquipKinds, NEW stage, Register(r, k, stage) PROVE MInv'
  BY <1>1, <1>3, MWrote, MEnded DEF Register
<1>4. CASE RegisterIot(r) \/ ApiCreateIot(r) \/ RegisterPep(r) \/ ApiCreatePep(r)
  BY <1>1, <1>2, <1>3, <1>4, MMoved DEF RegisterIot, ApiCreateIot, RegisterPep, ApiCreatePep
<1>5. CASE DeleteIot(r) \/ DeletePep(r)
  BY <1>1, <1>2, <1>5, MDeleted, MEnded DEF DeleteIot, DeletePep, Unregister
<1>6. ASSUME NEW x, NEW end, NewPassword(r, x, end), req[r].kind \in EquipKinds PROVE MInv'
  BY <1>1, <1>6, MWrote DEF NewPassword
<1>7. CASE ResetPasswordIot(r) \/ ResetPasswordPep(r)
  BY <1>1, <1>2, <1>6, <1>7, MEnded DEF ResetPasswordIot, ResetPasswordPep, ResetPassword
<1>8. ASSUME NEW k \in EquipKinds, SearchPepProxy(r, k) PROVE MInv'
  <2>1. CASE Ended(r, k, "go", "missing")
    BY <1>1, <2>1, MEnded
  <2>2. ASSUME NEW p, Reading(r, k, "go", [req[r] EXCEPT !.st = "change", !.who = p])
        PROVE  MInv'
    <3> DEFINE q == WithWho(req[r], "change", p)
    <3>1. q.kind = req[r].kind /\ q.org = req[r].org
      BY DEF WithWho, KInv, ReqType
    <3>2. Reading(r, k, "go", q)
      BY <2>2 DEF WithWho
    <3> HIDE DEF q
    <3> QED
      BY <1>1, <3>1, <3>2, MReading
  <2> QED
    BY <1>8, <2>1, <2>2 DEF SearchPepProxy
<1>9. CASE ApiUpdateIot(r) \/ ApiUpdatePep(r)
  BY <1>2, <1>6, <1>8, <1>9 DEF ApiUpdateIot, ApiUpdatePep
<1>10. CASE ApiDeleteIot(r) \/ ApiDeletePep(r)
  BY <1>1, <1>2, <1>8, <1>10, MDeleted DEF ApiDeleteIot, ApiDeletePep
<1> QED
  BY <1>4, <1>5, <1>7, <1>9, <1>10

LEMMA MTrusted ==
  ASSUME KInv, MInv, NEW r \in Reqs,
         DestroyTrusted(r) \/ CreateTrusted(r) \/ AddTrusted(r) \/ RemoveTrusted(r)
  PROVE  MInv'
<1>1. {"authorize_trusted_applications", "addTrusted", "removeTrusted"} \cap TicketKinds = {}
  BY DEF TicketKinds, OrgMakers
<1>2. ASSUME NEW pairs, NEW end, SetTrust(r, pairs, end), req[r].kind \notin TicketKinds
      PROVE  MInv'
  BY <1>2, MWrote DEF SetTrust
<1>3. CASE DestroyTrusted(r)
  BY <1>1, <1>2, <1>3 DEF DestroyTrusted
<1>4. CASE CreateTrusted(r)
  BY <1>1, <1>2, <1>4, MEnded DEF CreateTrusted
<1>5. CASE AddTrusted(r)
  BY <1>1, <1>2, <1>5, MEnded, MMoved DEF AddTrusted
<1>6. CASE RemoveTrusted(r)
  BY <1>1, <1>2, <1>6, MEnded DEF RemoveTrusted
<1> QED
  BY <1>3, <1>4, <1>5, <1>6

LEMMA MApplication == ASSUME KInv, MInv, NEW r \in Reqs, ApplicationStep(r) PROVE MInv'
<1>1. {"app_create", "api_app_create"} \subseteq AppMakers
  BY DEF AppMakers
<1> QED
  BY <1>1, MSaveApplication, MCreation, MTokens, MEquipment, MTrusted DEF ApplicationStep

LEMMA MRows ==
  ASSUME KInv, MInv, NEW r \in Reqs, NEW k, k \notin TicketKinds,
         \/ Create(r, k) \/ (\E x : Edit(r, k, x))
         \/ \E x, sure : DeleteRow(r, k, x, sure)
  PROVE  MInv'
<1>1. CASE Create(r, k)
  BY <1>1, MWrote, MEnded DEF Create
<1>2. CASE \E x : Edit(r, k, x)
  BY <1>2, MEnded DEF Edit
<1>3. ASSUME NEW x, NEW sure, DeleteRow(r, k, x, sure) PROVE MInv'
  BY <1>3, MDeleted, MEnded DEF DeleteRow
<1> QED
  BY <1>1, <1>2, <1>3

LEMMA MGrants ==
  ASSUME KInv, MInv, NEW r \in Reqs,
         DestroyGrants(r) \/ CreateGrants(r) \/ ApiCreateGrant(r) \/ ApiDeleteGrant(r)
  PROVE  MInv'
<1>1. {"role_permissions_assign", "api_grant_create", "api_grant_delete"} \cap TicketKinds = {}
  BY DEF TicketKinds, OrgMakers
<1>2. ASSUME NEW pairs, NEW end, SetGrant(r, pairs, end), req[r].kind \notin TicketKinds
      PROVE  MInv'
  BY <1>2, MWrote DEF SetGrant
<1>3. CASE DestroyGrants(r)
  BY <1>1, <1>2, <1>3, MEnded DEF DestroyGrants
<1>4. CASE CreateGrants(r)
  BY <1>1, <1>2, <1>4, MEnded DEF CreateGrants
<1>5. CASE ApiCreateGrant(r)
  BY <1>1, <1>2, <1>5, MEnded, MMoved DEF ApiCreateGrant
<1>6. CASE ApiDeleteGrant(r)
  BY <1>1, <1>2, <1>6, MEnded DEF ApiDeleteGrant
<1> QED
  BY <1>3, <1>4, <1>5, <1>6

LEMMA MAssigned ==
  ASSUME KInv, MInv, NEW r \in Reqs, NEW k, k \notin TicketKinds,
         \/ SearchChangeableRoles(r, k) \/ CreateAssignments(r, k)
         \/ AddRoleTo(r, k) \/ RemoveRoleFrom(r, k)
         \/ \E kind : DestroyAssignments(r, k, kind)
  PROVE  MInv'
<1>1. ASSUME NEW rows, NEW end, SetAssign(r, rows, end), req[r].kind \notin TicketKinds
      PROVE  MInv'
  BY <1>1, MWrote DEF SetAssign
<1>2. ASSUME SearchChangeableRoles(r, k) PROVE MInv'
  <2> DEFINE c == Changeable(req[r])
             q == WithChangeable(req[r], "change", c)
  <2>1. Reading(r, k, "go", q)
    BY <1>2 DEF SearchChangeableRoles, WithChangeable
  <2> HIDE DEF c
  <2>2. Kept(req[r], q)
    BY ReadChangeable DEF KInv
  <2> HIDE DEF q
  <2> QED
    BY <2>1, <2>2, MReading DEF Kept
<1>3. CASE CreateAssignments(r, k)
  BY <1>1, <1>3, MEnded DEF CreateAssignments
<1>4. CASE AddRoleTo(r, k)
  BY <1>1, <1>4, MEnded, MMoved DEF AddRoleTo
<1>5. CASE RemoveRoleFrom(r, k)
  BY <1>1, <1>5, MEnded DEF RemoveRoleFrom
<1>6. ASSUME NEW kind, DestroyAssignments(r, k, kind) PROVE MInv'
  BY <1>1, <1>2, <1>6, MEnded DEF DestroyAssignments
<1> QED
  BY <1>2, <1>3, <1>4, <1>5, <1>6

LEMMA MRole == ASSUME KInv, MInv, NEW r \in Reqs, RoleStep(r) PROVE MInv'
<1>1. {"role_create", "permission_create", "api_role_create", "api_permission_create",
       "role_edit", "permission_edit", "api_role_update", "api_permission_update",
       "role_delete", "permission_delete", "api_role_delete", "api_permission_delete"}
         \cap TicketKinds = {}
  BY DEF TicketKinds, OrgMakers
<1>2. /\ {"authorize_users", "authorize_organizations"} \cap TicketKinds = {}
      /\ {"api_user_addRole", "api_user_removeRole", "api_org_role_addRole",
          "api_org_role_removeRole"} \cap TicketKinds = {}
      /\ AssignApiKinds \cap TicketKinds = {}
  BY DEF TicketKinds, OrgMakers, AssignApiKinds, ApiAssignKinds
<1>3. ASSUME \/ CreateRole(r) \/ CreatePermission(r) \/ ApiCreateRole(r) \/ ApiCreatePermission(r)
      PROVE  MInv'
  BY <1>1, <1>3, MRows DEF CreateRole, CreatePermission, ApiCreateRole, ApiCreatePermission
<1>4. ASSUME EditRole(r) \/ EditPermission(r) \/ ApiUpdateRole(r) \/ ApiUpdatePermission(r)
      PROVE  MInv'
  BY <1>1, <1>4, MRows DEF EditRole, EditPermission, ApiUpdateRole, ApiUpdatePermission
<1>5. ASSUME \/ DeleteRole(r) \/ DeletePermission(r) \/ ApiDeleteRole(r)
             \/ ApiDeletePermission(r)
      PROVE  MInv'
  <2>1. PICK k \in {"role_delete", "permission_delete", "api_role_delete",
                    "api_permission_delete"} : \E x, sure : DeleteRow(r, k, x, sure)
    BY <1>5, Zenon DEF DeleteRole, DeletePermission, ApiDeleteRole, ApiDeletePermission
  <2>2. PICK x, sure : DeleteRow(r, k, x, sure)
    BY <2>1
  <2>3. k \notin TicketKinds
    BY <1>1
  <2> QED
    BY <2>2, <2>3, MRows, Zenon
<1>6. ASSUME AuthorizeUsers(r) \/ AuthorizeOrganizations(r) PROVE MInv'
  BY <1>2, <1>6, MAssigned DEF AuthorizeUsers, AuthorizeOrganizations
<1>7. ASSUME \/ UserAddRole(r) \/ UserRemoveRole(r) \/ OrgAddRole(r) \/ OrgRemoveRole(r)
      PROVE  MInv'
  BY <1>2, <1>7, MAssigned DEF UserAddRole, UserRemoveRole, OrgAddRole, OrgRemoveRole
<1>8. ASSUME NEW k \in AssignApiKinds, SearchChangeableRoles(r, k) PROVE MInv'
  BY <1>2, <1>8, MAssigned
<1> QED
  BY <1>3, <1>4, <1>5, <1>6, <1>7, <1>8, MGrants DEF RoleStep

LEMMA MDecision == ASSUME KInv, MInv, NEW r \in Reqs, DecisionStep(r) PROVE MInv'
<1>1. {"resource_request", "access_token_info"} \cap TicketKinds = {}
  BY DEF TicketKinds, OrgMakers
<1>2. ASSUME NEW k, k \notin TicketKinds, NEW stage, NEW q, Reading(r, k, stage, q),
             Kept(req[r], q)
      PROVE  MInv'
  BY <1>2, MReading DEF Kept
<1>3. req[r] \in ReqType
  BY DEF KInv
<1>4. CASE TrustedApplications(r)
  <2> DEFINE v == {t[2] : t \in {t \in trust : t[1] = req[r].who}}
             q == WithApps(req[r], "member", v)
  <2>1. Reading(r, "resource_request", "load", q)
    BY <1>4 DEF TrustedApplications, WithApps
  <2> HIDE DEF v
  <2>2. Kept(req[r], q)
    BY <1>3, ReadApps
  <2> HIDE DEF q
  <2> QED
    BY <1>1, <1>2, <2>1, <2>2
<1>5. CASE SearchOrganizations(r)
  <2> DEFINE v == Memberships(req[r].by)
             q == WithMem(req[r], "held", v)
  <2>1. \/ Reading(r, "resource_request", "member", q)
        \/ Reading(r, "access_token_info", "load", q)
    BY <1>5 DEF SearchOrganizations, WithMem
  <2> HIDE DEF v
  <2>2. Kept(req[r], q)
    BY <1>3, ReadMem
  <2> HIDE DEF q
  <2> QED
    BY <1>1, <1>2, <2>1, <2>2
<1>6. CASE UserRoles(r)
  <2> DEFINE v == HeldBy(req[r]) \ Internal
             q == WithHeld(req[r], "can", v)
  <2>1. Reading(r, "resource_request", "held", q)
    BY <1>6 DEF UserRoles, WithHeld
  <2> HIDE DEF v
  <2>2. Kept(req[r], q)
    BY <1>3, ReadHeld
  <2> HIDE DEF q
  <2> QED
    BY <1>1, <1>2, <2>1, <2>2
<1>7. CASE InfoToken(r)
  <2> DEFINE v == HeldBy(req[r]) \ Internal
             s == IF HeldBy(req[r]) = {} THEN "refused" ELSE "ok"
             q == WithHeld(req[r], s, v)
  <2>1. Reading(r, "access_token_info", "held", q)
    BY <1>7 DEF InfoToken, WithHeld
  <2> HIDE DEF v, s
  <2>2. Kept(req[r], q)
    BY <1>3, ReadHeld
  <2> HIDE DEF q
  <2> QED
    BY <1>1, <1>2, <2>1, <2>2
<1>8. CASE UserPermissions(r)
  <2> DEFINE v == UNION {PermsOf(x) : x \in req[r].held}
             q == WithCan(req[r], "go", v)
  <2>1. Reading(r, "resource_request", "can", q)
    BY <1>8 DEF UserPermissions, WithCan
  <2> HIDE DEF v
  <2>2. Kept(req[r], q)
    BY <1>3, ReadCan
  <2> HIDE DEF q
  <2> QED
    BY <1>1, <1>2, <2>1, <2>2
<1>9. CASE SearchUserInfo(r)
  BY <1>1, <1>9, MMoved DEF SearchUserInfo
<1> QED
  BY <1>4, <1>5, <1>6, <1>7, <1>8, <1>9 DEF DecisionStep

\* Whoever has the ticket of an organization fills it, and gives the ticket up.
LEMMA MFills ==
  ASSUME MInv, NEW r \in Reqs, NEW o \in Orgs, Ticket(req[r], o), NEW new,
         scene' = scene, member' = member \cup new,
         \A m \in new : m.org = o,
         \A m, n \in new : m.user = n.user => m = n,
         \A x \in Orgs : ~Ticket(req[r], x)',
         \A s \in Reqs \ {r} : /\ req'[s].kind = req[s].kind /\ req'[s].org = req[s].org
                               /\ req'[s].st = req[s].st
  PROVE  MInv'
<1> SUFFICES ASSUME "addRole" \notin scene.kinds PROVE TicketsOK' /\ MembersOnce'
  BY DEF MInv
<1>1. TicketsOK /\ MembersOnce
  BY DEF MInv
<1>2. MembersOf(o) = {}
  BY <1>1 DEF TicketsOK
<1>3. ASSUME NEW s \in Reqs, NEW x \in Orgs, Ticket(req[s], x)'
      PROVE  s # r /\ Ticket(req[s], x) /\ x # o
  <2>1. s # r
    BY <1>3
  <2>2. Ticket(req[s], x)
    BY <1>3, <2>1 DEF Ticket
  <2> QED
    BY <1>1, <2>1, <2>2 DEF TicketsOK
<1>4. \A x \in Orgs : x # o => MembersOf(x)' = MembersOf(x)
  BY DEF MembersOf
<1>5. TicketsOK'
  <2>1. ASSUME NEW s \in Reqs, NEW x \in Orgs, Ticket(req[s], x)' PROVE MembersOf(x)' = {}
    BY <1>1, <1>3, <1>4, <2>1 DEF TicketsOK
  <2>2. ASSUME NEW s \in Reqs, NEW t \in Reqs, NEW x \in Orgs, Ticket(req[s], x)',
               Ticket(req[t], x)'
        PROVE  s = t
    BY <1>1, <1>3, <2>2 DEF TicketsOK
  <2> QED
    BY <2>1, <2>2 DEF TicketsOK
<1>6. ASSUME NEW m \in member', NEW n \in member', m.org = n.org, m.user = n.user PROVE m = n
  <2>1. CASE m \in member /\ n \in member
    BY <1>1, <1>6, <2>1 DEF MembersOnce
  <2>2. CASE m \in new /\ n \in new
    BY <1>6, <2>2
  <2>3. \A l \in member : l.org # o
    BY <1>2 DEF MembersOf
  <2> QED
    BY <1>6, <2>1, <2>2, <2>3
<1> QED
  BY <1>5, <1>6 DEF MembersOnce

\* Who is about to answer holds no ticket.
LEMMA WroteOrg ==
  ASSUME KInv, NEW r \in Reqs, NEW stage, Wrote(r, stage)
  PROVE  /\ scene' = scene /\ req'[r].st = stage
         /\ req'[r].kind = req[r].kind /\ req'[r].org = req[r].org
         /\ \A s \in Reqs \ {r} : /\ req'[s].kind = req[s].kind /\ req'[s].org = req[s].org
                                  /\ req'[s].st = req[s].st
<1> DEFINE q == [req[r] EXCEPT !.st = stage]
           p(s) == [req[s] EXCEPT !.quiet = FALSE]
<1>1. q.kind = req[r].kind /\ q.org = req[r].org /\ q.st = stage
  BY DEF KInv, ReqType
<1>2. \A s \in Reqs : /\ p(s).kind = req[s].kind /\ p(s).org = req[s].org
                      /\ p(s).st = req[s].st
  BY DEF KInv, ReqType
<1>3. req' = [s \in Reqs |-> IF s = r THEN q ELSE p(s)] /\ UNCHANGED scene
  BY DEF Wrote
<1> HIDE DEF q, p
<1> QED
  BY <1>1, <1>2, <1>3

LEMMA MLoads ==
  ASSUME KInv, MInv, NEW r \in Reqs, LoadOrganization(r) \/ OwnersOnly(r) PROVE MInv'
<1>1. PICK next : /\ req' = [req EXCEPT ![r].st = next] /\ UNCHANGED <<tables, scene>>
                  /\ next # "fill"
  <2>1. CASE LoadOrganization(r)
    BY <2>1 DEF LoadOrganization
  <2>2. CASE OwnersOnly(r)
    BY <2>2 DEF OwnersOnly
  <2> QED
    BY <2>1, <2>2
<1>2. req[r].kind \notin OrgMakers
  BY DEF LoadOrganization, OwnersOnly, OrgKinds, OrgMakers
<1> DEFINE q == [req[r] EXCEPT !.st = next]
<1>3. q.kind = req[r].kind /\ q.org = req[r].org /\ q.st = next
  BY DEF KInv, ReqType
<1>4. req' = [req EXCEPT ![r] = q]
  BY <1>1 DEF KInv
<1> HIDE DEF q
<1>5. Sober(r) /\ req'[r] = q
  BY <1>1, <1>3, <1>4, ReadsSober DEF KInv
<1>6. \A o \in Orgs : Ticket(req[r], o)' => Ticket(req[r], o)
  BY <1>1, <1>2, <1>3, <1>5 DEF Ticket
<1> QED
  BY <1>5, <1>6, MStill

LEMMA MCreates ==
  ASSUME KInv, MInv, NEW r \in Reqs, NEW k \in OrgMakers, NEW failed \in {"hung", "failed"},
         SaveOrganization(r, k) \/ CreateOwner(r, k, failed)
  PROVE  MInv'
<1>1. req[r].kind = k /\ req[r].org \in Orgs
  BY DEF SaveOrganization, CreateOwner, KInv, ReqsOK, ParamsOK
<1>2. CASE SaveOrganization(r, k)
  <2>1. Sober(r) /\ req'[r].st = "second" /\ req[r].st = "go"
    BY <1>2, WroteSober DEF SaveOrganization
  <2>2. \A o \in Orgs : Ticket(req[r], o)' => Ticket(req[r], o)
    BY <1>1, <2>1 DEF Ticket, Sober
  <2> QED
    BY <2>1, <2>2, MStill
<1>3. CASE CreateOwner(r, k, failed)
  <2>1. CASE Ended(r, k, "second", failed)
    <3>1. Sober(r) /\ req'[r].st \in {"hung", "failed"}
      BY <2>1, EndedSober
    <3>2. \A o \in Orgs : Ticket(req[r], o)' => Ticket(req[r], o)
      BY <3>1 DEF Ticket
    <3> QED
      BY <3>1, <3>2, MStill
  <2>2. CASE ~Ended(r, k, "second", failed)
    <3> DEFINE m == [id |-> fresh, org |-> req[r].org, user |-> req[r].by, role |-> "owner"]
    <3>1. member' = member \cup {m} /\ Wrote(r, "ok") /\ req[r].st = "second"
      BY <1>3, <2>2 DEF CreateOwner
    <3>2. m.org = req[r].org
      OBVIOUS
    <3> HIDE DEF m
    <3>3. Ticket(req[r], req[r].org) /\ \A x \in Orgs : ~Ticket(req[r], x)'
      BY <1>1, <3>1, WroteOrg DEF Ticket
    <3> DEFINE new == {m}
    <3>4. member' = member \cup new /\ \A n \in new : n.org = req[r].org
      BY <3>1, <3>2
    <3>5. \A n, l \in new : n.user = l.user => n = l
      OBVIOUS
    <3> HIDE DEF new
    <3> QED
      BY <1>1, <3>1, <3>3, <3>4, <3>5, WroteOrg, MFills
  <2> QED
    BY <2>1, <2>2
<1> QED
  BY <1>2, <1>3

LEMMA MDestroyMembers == ASSUME KInv, MInv, NEW r \in Reqs, DestroyMembers(r) PROVE MInv'
<1>0. PICK o \in Orgs : o = req[r].org /\ req[r].kind = "add_members"
  BY DEF DestroyMembers, KInv, ReqsOK, ParamsOK, OrgKinds
<1>a. CASE Ended(r, "add_members", "go", "failed")
  <2>1. Sober(r) /\ req'[r].st = "failed"
    BY <1>a, EndedSober
  <2>2. \A x \in Orgs : Ticket(req[r], x)' => Ticket(req[r], x)
    BY <2>1 DEF Ticket
  <2> QED
    BY <2>1, <2>2, MStill
<1> SUFFICES ASSUME ~Ended(r, "add_members", "go", "failed") PROVE MInv'
  BY <1>a
<1> DEFINE next == IF member' = member THEN "failed" ELSE "fill"
<1>1. /\ req[r].kind = "add_members" /\ member' = {m \in member : m.org # o}
      /\ Wrote(r, next) /\ o = req[r].org
  BY <1>0 DEF DestroyMembers
<1>2. next \in {"failed", "fill"} /\ (next = "fill" => member' # member)
  OBVIOUS
<1> HIDE DEF next
<1>3. /\ scene' = scene /\ req'[r].st = next
      /\ req'[r].kind = req[r].kind /\ req'[r].org = req[r].org
      /\ \A s \in Reqs \ {r} : /\ req'[s].kind = req[s].kind /\ req'[s].org = req[s].org
                               /\ req'[s].st = req[s].st
  BY <1>1, WroteOrg
<1>4. \A s \in Reqs \ {r}, x \in Orgs : Ticket(req[s], x)' => Ticket(req[s], x)
  BY <1>3 DEF Ticket
<1> SUFFICES ASSUME "addRole" \notin scene.kinds PROVE TicketsOK' /\ MembersOnce'
  BY <1>3 DEF MInv
<1>5. TicketsOK /\ MembersOnce
  BY DEF MInv
<1>6. MembersOnce'
  BY <1>1, <1>3, <1>5 DEF MembersOnce
<1>7. ASSUME NEW x \in Orgs, Ticket(req[r], x)'
      PROVE  x = o /\ MembersOf(o)' = {} /\ \A s \in Reqs \ {r} : ~Ticket(req[s], o)'
  <2>1. x = o /\ next = "fill"
    BY <1>1, <1>2, <1>3, <1>7 DEF Ticket, OrgMakers
  <2>2. MembersOf(o)' = {} /\ MembersOf(o) # {}
    BY <1>1, <1>2, <1>3, <2>1 DEF MembersOf
  <2> QED
    BY <1>1, <1>4, <1>5, <2>1, <2>2 DEF TicketsOK
<1>8. ASSUME NEW s \in Reqs, NEW x \in Orgs, Ticket(req[s], x)' PROVE MembersOf(x)' = {}
  <2>1. CASE s = r
    BY <1>7, <1>8, <2>1
  <2>2. CASE s # r
    <3>1. MembersOf(x) = {}
      BY <1>4, <1>5, <1>8, <2>2 DEF TicketsOK
    <3> QED
      BY <1>1, <3>1 DEF MembersOf
  <2> QED
    BY <2>1, <2>2
<1>9. ASSUME NEW s \in Reqs, NEW t \in Reqs, NEW x \in Orgs, Ticket(req[s], x)',
             Ticket(req[t], x)'
      PROVE  s = t
  <2>1. CASE s = r \/ t = r
    BY <1>7, <1>9, <2>1
  <2>2. CASE s # r /\ t # r
    BY <1>4, <1>5, <1>9, <2>2 DEF TicketsOK
  <2> QED
    BY <2>1, <2>2
<1> QED
  BY <1>6, <1>8, <1>9 DEF TicketsOK

LEMMA MCreateMembers == ASSUME KInv, MInv, NEW r \in Reqs, CreateMembers(r) PROVE MInv'
<1> DEFINE o == req[r].org
           form == req[r].form
<1>1. /\ req[r].kind = "add_members" /\ req[r].st = "fill" /\ o \in Orgs
      /\ \A f, g \in form : f.user = g.user => f = g
  BY DEF CreateMembers, KInv, ReqsOK, ParamsOK, StageOK, OrgKinds, OneRoleEach
<1>2. CASE Ended(r, "add_members", "fill", "failed")
  <2>1. Sober(r) /\ req'[r].st = "failed"
    BY <1>2, EndedSober
  <2>2. \A x \in Orgs : Ticket(req[r], x)' => Ticket(req[r], x)
    BY <2>1 DEF Ticket
  <2> QED
    BY <2>1, <2>2, MStill
<1>3. CASE ~Ended(r, "add_members", "fill", "failed")
  <2>1. /\ Wrote(r, "ok")
        /\ \E ids \in [form -> fresh..(fresh + Cardinality(form) - 1)] :
             member' = member \cup {[id |-> ids[f], org |-> o, user |-> f.user,
                                     role |-> f.role] : f \in form}
    BY <1>3 DEF CreateMembers
  <2>2. PICK ids : member' = member \cup {[id |-> ids[f], org |-> o, user |-> f.user,
                                            role |-> f.role] : f \in form}
    BY <2>1
  <2> DEFINE new == {[id |-> ids[f], org |-> o, user |-> f.user, role |-> f.role] : f \in form}
  <2>3. \A m \in new : m.org = o
    OBVIOUS
  <2>4. \A m, n \in new : m.user = n.user => m = n
    BY <1>1
  <2>5. member' = member \cup new
    BY <2>2
  <2> HIDE DEF new, form
  <2>6. Ticket(req[r], o) /\ \A x \in Orgs : ~Ticket(req[r], x)'
    BY <1>1, <2>1, WroteOrg DEF Ticket
  <2> QED
    BY <1>1, <2>1, <2>3, <2>4, <2>5, <2>6, WroteOrg, MFills
<1> QED
  BY <1>2, <1>3

\* The API's own way of putting someone in.
LEMMA MApiMember ==
  ASSUME KInv, RInv, MInv, NEW r \in Reqs, FindMember(r) \/ SaveMember(r) \/ CreateMember(r)
  PROVE  MInv'
<1>1. req[r].kind = "addRole"
  BY DEF FindMember, SaveMember, CreateMember, Reading
<1>2. "addRole" \in scene.kinds
  BY <1>1 DEF RInv, Names
<1>3. scene' = scene
  BY DEF FindMember, SaveMember, CreateMember, Reading, Ended, Wrote
<1> QED
  BY <1>2, <1>3 DEF MInv

LEMMA MAdministrators ==
  ASSUME KInv, MInv, NEW r \in Reqs,
         ReadAdministrators(r) \/ AddAdministrators(r) \/ RemoveAdministrators(r)
  PROVE  MInv'
<1>1. "update_administrators" \notin TicketKinds
  BY DEF TicketKinds, OrgMakers
<1>2. CASE ReadAdministrators(r)
  <2> DEFINE q == WithAdmins(req[r], "change", admin)
  <2>1. Reading(r, "update_administrators", "go", q)
    BY <1>2 DEF ReadAdministrators, WithAdmins
  <2>2. Kept(req[r], q)
    BY ReadAdmins DEF KInv
  <2> HIDE DEF q
  <2> QED
    BY <1>1, <2>1, <2>2, MReading DEF Kept
<1>3. CASE AddAdministrators(r) \/ RemoveAdministrators(r)
  BY <1>1, <1>3, MWrote DEF AddAdministrators, RemoveAdministrators
<1> QED
  BY <1>2, <1>3

LEMMA MPlainOrg ==
  ASSUME KInv, MInv, NEW r \in Reqs,
         \/ UpdateInfo(r) \/ ApiUpdateOrganization(r) \/ DestroyOrganization(r)
         \/ ApiDeleteOrganization(r) \/ Remove(r) \/ RemoveRole(r)
  PROVE  MInv'
<1>1. {"org_update_info", "api_org_update", "org_destroy", "api_org_delete", "org_remove",
       "removeRole"} \cap TicketKinds = {}
  BY DEF TicketKinds, OrgMakers
<1>2. CASE UpdateInfo(r) \/ ApiUpdateOrganization(r)
  BY <1>1, <1>2, MEnded DEF UpdateInfo, ApiUpdateOrganization
<1>3. CASE DestroyOrganization(r) \/ ApiDeleteOrganization(r)
  BY <1>1, <1>3, MDeleted DEF DestroyOrganization, ApiDeleteOrganization
<1>4. CASE Remove(r)
  <2>1. member' \subseteq member /\ Wrote(r, "ok") /\ req[r].kind = "org_remove"
    BY <1>4 DEF Remove
  <2> QED
    BY <1>1, <2>1, MWrote
<1>5. CASE RemoveRole(r)
  <2>1. member' \subseteq member /\ req[r].kind = "removeRole"
    BY <1>5 DEF RemoveRole
  <2>2. PICK end : Wrote(r, end)
    BY <1>5, Zenon DEF RemoveRole
  <2> QED
    BY <1>1, <2>1, <2>2, MWrote
<1> QED
  BY <1>2, <1>3, <1>4, <1>5

LEMMA MOrganization ==
  ASSUME KInv, RInv, MInv, NEW r \in Reqs, OrganizationStep(r) PROVE MInv'
<1>1. {"org_create", "api_org_create"} \subseteq OrgMakers
  BY DEF OrgMakers
<1> QED
  BY <1>1, MLoads, MCreates, MPlainOrg, MDestroyMembers, MCreateMembers, MAdministrators,
     MApiMember DEF OrganizationStep

LEMMA MNewRequest == ASSUME KInv, MInv, NEW r \in Reqs, NewRequest(r) PROVE MInv'
<1>1. PICK q : Arrive(r, q) /\ Fresh(q)
  BY NewArrives DEF Arrived
<1>2. /\ req' = [req EXCEPT ![r] = q] /\ UNCHANGED <<member, scene>>
  BY <1>1 DEF Arrive, tables
<1>3. req'[r] = q /\ \A s \in Reqs \ {r} : req'[s] = req[s]
  BY <1>2 DEF KInv
<1>4. \A s \in Reqs \ {r}, o \in Orgs : Ticket(req[s], o)' => Ticket(req[s], o)
  BY <1>3 DEF Ticket
<1>5. ASSUME NEW o \in Orgs, Ticket(req[r], o)'
      PROVE  MembersOf(o) = {} /\ \A s \in Reqs \ {r} : ~Ticket(req[s], o)
  <2>1. q.org = o /\ q.kind \in OrgMakers
    BY <1>1, <1>3, <1>5 DEF Ticket, Fresh
  <2>2. row[o] = "free" /\ \A s \in Reqs : req[s].org # o
    BY <1>1, <2>1 DEF Fresh, Free
  <2>3. MembersOf(o) = {}
    BY <2>2 DEF MembersOf, KInv, TablesOK, MemberFits, Here
  <2> QED
    BY <2>2, <2>3 DEF Ticket
<1> SUFFICES ASSUME "addRole" \notin scene.kinds PROVE TicketsOK' /\ MembersOnce'
  BY <1>2 DEF MInv
<1>6. TicketsOK /\ MembersOnce
  BY DEF MInv
<1>7. MembersOnce' /\ \A o \in Orgs : MembersOf(o)' = MembersOf(o)
  BY <1>2, <1>6 DEF MembersOnce, MembersOf
<1>8. ASSUME NEW s \in Reqs, NEW o \in Orgs, Ticket(req[s], o)' PROVE MembersOf(o)' = {}
  <2>1. CASE s = r
    BY <1>5, <1>7, <1>8, <2>1
  <2>2. CASE s # r
    BY <1>4, <1>6, <1>7, <1>8, <2>2 DEF TicketsOK
  <2> QED
    BY <2>1, <2>2
<1>9. ASSUME NEW s \in Reqs, NEW t \in Reqs, NEW o \in Orgs, Ticket(req[s], o)',
             Ticket(req[t], o)'
      PROVE  s = t
  <2>1. CASE s = r \/ t = r
    BY <1>4, <1>5, <1>9, <2>1
  <2>2. CASE s # r /\ t # r
    BY <1>4, <1>6, <1>9, <2>2 DEF TicketsOK
  <2> QED
    BY <2>1, <2>2
<1> QED
  BY <1>7, <1>8, <1>9 DEF TicketsOK

LEMMA MDeleteAccount == ASSUME KInv, MInv, NEW u \in Users, DeleteAccount(u) PROVE MInv'
<1> DEFINE p(s) == [req[s] EXCEPT !.quiet = FALSE]
<1>1. /\ req' = [s \in Reqs |-> p(s)] /\ UNCHANGED scene /\ Delete({u})
  BY DEF DeleteAccount
<1>2. \A s \in Reqs : p(s).kind = req[s].kind /\ p(s).org = req[s].org /\ p(s).st = req[s].st
  BY DEF KInv, ReqType
<1> HIDE DEF p
<1>3. \A s \in Reqs, o \in Orgs : Ticket(req[s], o)' => Ticket(req[s], o)
  BY <1>1, <1>2 DEF Ticket
<1> QED
  BY <1>1, <1>3, DeleteTakes, MShrinks

-----------------------------------------------------------------------------
(* Every state. *)

LEMMA InitMInv == Init => MInv
<1> SUFFICES ASSUME Init PROVE MInv
  OBVIOUS
<1>1. \A r \in Reqs : req[r].kind = "none"
  BY DEF Init, IdleReq
<1>2. TicketsOK
  BY <1>1 DEF TicketsOK, Ticket, OrgMakers
<1>3. PICK founder \in Users \cap scene.rows, ids \in [Users -> 1..Cardinality(Users)] :
         FirstTables(scene.rows, founder, ids)
  BY DEF Init
<1>4. \A m \in member : \E u \in Users, o \in Orgs :
         m = [id |-> ids[u], org |-> o, user |-> u,
              role |-> IF u = founder THEN "owner" ELSE "member"]
  BY <1>3 DEF FirstTables
<1>5. MembersOnce
  <2> SUFFICES ASSUME NEW m \in member, NEW n \in member, m.org = n.org, m.user = n.user
               PROVE  m = n
    BY DEF MembersOnce
  <2>1. PICK u \in Users, o \in Orgs :
           m = [id |-> ids[u], org |-> o, user |-> u,
                role |-> IF u = founder THEN "owner" ELSE "member"]
    BY <1>4
  <2>2. PICK v \in Users, x \in Orgs :
           n = [id |-> ids[v], org |-> x, user |-> v,
                role |-> IF v = founder THEN "owner" ELSE "member"]
    BY <1>4
  <2>3. u = v /\ o = x
    BY <2>1, <2>2
  <2> QED
    BY <2>1, <2>2, <2>3
<1> QED
  BY <1>2, <1>5 DEF MInv

LEMMA StepMInv == KInv /\ RInv /\ MInv /\ [Next]_vars => MInv'
<1> SUFFICES ASSUME KInv, RInv, MInv, [Next]_vars PROVE MInv'
  OBVIOUS
<1>1. ASSUME NEW r \in Reqs, NewRequest(r) PROVE MInv'
  BY <1>1, MNewRequest
<1>2. ASSUME NEW r \in Reqs, Handle(r) PROVE MInv'
  BY <1>2, MCheck, MOrganization, MApplication, MRole, MDecision DEF Handle
<1>3. ASSUME NEW u \in Users, DeleteAccount(u) PROVE MInv'
  BY <1>3, MDeleteAccount
<1>4. CASE UNCHANGED vars
  <2>1. UNCHANGED <<member, req, scene>>
    BY <1>4 DEF vars, tables
  <2>2. \A s \in Reqs, o \in Orgs : Ticket(req[s], o)' => Ticket(req[s], o)
    BY <2>1 DEF Ticket
  <2> QED
    BY <2>1, <2>2, MShrinks
<1> QED
  BY <1>1, <1>2, <1>3, <1>4 DEF Next

\* However many dialogs of members are saved at once, and while organizations are
\* created, left and deleted, nobody is twice in an organization, as long as the
\* API's addRole is not used: the dialog inserts only after its own DELETE took
\* rows (manage_members.js), so nobody else's can have.
THEOREM MembersAreThereOnce == Spec => []MembersOnce
<1>1. Init => KInv /\ RInv /\ MInv
  BY InitKInv, InitRInv, InitMInv
<1>2. KInv /\ RInv /\ MInv /\ [Next]_vars => KInv' /\ RInv' /\ MInv'
  BY StepKInv, StepRInv, StepMInv
<1>3. MInv => MembersOnce
  BY DEF MInv, MembersOnce
<1> QED
  BY <1>1, <1>2, <1>3, PTL DEF Spec

=============================================================================
