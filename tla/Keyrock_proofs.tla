--------------------------- MODULE Keyrock_proofs ---------------------------
(***************************************************************************)
(* Theorems of Keyrock for every number of accounts, organizations,        *)
(* applications and requests, and for every mix of kinds of requests.      *)
(* KInv is inductive.  Beside the tables (TablesOK) it holds what the      *)
(* requests remember: the ids that a path of the API named belong together *)
(* for good (ParamsOK), what a stage takes for granted, such as that the   *)
(* form was compared with the roles the editor may change (StageOK), and   *)
(* that no row is created by two requests (CreatorsOK).                    *)
(***************************************************************************)
EXTENDS Keyrock, FiniteSetTheorems, TLAPS

TablesType ==
    /\ row \in [Ids -> {"free", "here", "gone"}]
    /\ of \in [Roles \cup Perms \cup Agents \cup Proxies -> Apps \cup {None}]
    /\ member \subseteq MemberRow /\ fresh \in 1..(MaxRows + 1)
    /\ assign \in [Assignable -> Nat] /\ grant \in [Grantable -> Nat]
    /\ trust \subseteq Apps \X Apps /\ admin \subseteq Users
    /\ token \in [Apps -> [jwt : BOOLEAN, openid : BOOLEAN, secret : BOOLEAN]]
    /\ pass \in [Agents \cup Proxies -> Reqs \cup {None}]

\* The parts of RowsFit, one for each table.
OfFits == \A x \in Roles \cup Perms \cup Agents \cup Proxies :
             /\ row[x] # "free" => of[x] \in Apps
             /\ Here(x) => Here(of[x])
MemberFits == \A m \in member : Here(m.org) /\ Here(m.user)
AssignFits == \A k \in Assignable : assign[k] > 0 =>
                 Here(k.app) /\ Belongs(k.role, k.app) /\ Exists({k.to.user, k.to.org})
GrantFits == \A k \in Grantable : grant[k] > 0 => Exists({k.role, k.perm})
TrustFits == \A t \in trust : Here(t[1]) /\ Here(t[2]) /\ t[1] # t[2]
AdminFits == \A u \in admin : Here(u)
TablesOK == /\ TablesType /\ OfFits /\ MemberFits /\ AssignFits /\ GrantFits
            /\ TrustFits /\ AdminFits

-----------------------------------------------------------------------------
(* The requests. *)

\* A role or permission that is, or was, one of the application.
Known(x, a, rows, ofs) ==
    \/ x \in Internal \cup Standard
    \/ x \in Roles \cup Perms \cup Agents \cup Proxies /\ rows[x] # "free" /\ ofs[x] = a

RoleMakers == {"role_create", "api_role_create"}
PermMakers == {"permission_create", "api_permission_create"}
AgentMakers == {"register_iot", "api_iot_create"}
ProxyMakers == {"register_pep", "api_pep_create"}
Makers == RoleMakers \cup PermMakers \cup AgentMakers \cup ProxyMakers
RoleNamers == {"api_role_update", "api_role_delete", "api_grant_create", "api_grant_delete", "api_user_addRole",
    "api_user_removeRole", "api_org_role_addRole", "api_org_role_removeRole"}
PermNamers == {"api_permission_update", "api_permission_delete", "api_grant_create",
    "api_grant_delete"}
AppMakers == {"app_create", "api_app_create"}
OrgMakers == {"org_create", "api_org_create"}

FormKinds == {"authorize_users", "authorize_organizations"}

\* What came with a request, and stays as it came.
ParamsOK(q, rows, ofs) ==
    /\ q.kind # "none" => q.by \in Users
    /\ q.kind \in AppKinds \cup DecisionKinds \cup AppMakers => q.app \in Apps
    /\ q.kind \in OrgKinds \cup OrgMakers \cup {"org_remove"} => q.org \in Orgs
    /\ q.kind = "api_app_create" => q.org = None
    /\ q.kind \in {"addRole", "removeRole"} => q.who \in Users /\ q.how \in MemberRoles
    /\ q.kind = "add_members" => q.form \in MemberForms
    /\ q.kind = "update_administrators" => q.form \subseteq Users
    /\ q.kind = "authorize_trusted_applications" => q.form \subseteq Apps
    /\ q.kind \in {"addTrusted", "removeTrusted"} => q.who \in Apps
    /\ q.kind \in RoleMakers => q.who \in Roles
    /\ q.kind \in PermMakers => q.who \in Perms
    /\ q.kind \in AgentMakers \cup {"delete_iot", "reset_password_iot",
                                    "api_iot_update", "api_iot_delete"} => q.who \in Agents
    /\ q.kind \in ProxyMakers \cup {"delete_pep", "reset_password_pep"} => q.who \in Proxies
    /\ q.kind \in {"role_edit", "role_delete"} => q.role \in AllRoles
    /\ q.kind \in {"permission_edit", "permission_delete"} => q.perm \in AllPerms
    /\ q.kind \in RoleNamers => q.role \in AllRoles /\ Known(q.role, q.app, rows, ofs)
    /\ q.kind \in PermNamers => q.perm \in AllPerms /\ Known(q.perm, q.app, rows, ofs)
    /\ q.kind \in FormKinds => q.form \subseteq [to : Holders, role : AllRoles]
    /\ q.kind \in {"api_user_addRole", "api_user_removeRole"} =>
          q.who \in Users /\ q.org = None
    /\ q.kind \in {"api_org_role_addRole", "api_org_role_removeRole"} =>
          q.org \in Orgs /\ q.how \in MemberRoles

\* What a stage takes for granted.  The last three are about the forms that
\* assign roles: the roles the editor holds, those he may change and, once the
\* form has been compared with them, those of the form.
StageOK(q, rows, ofs) ==
    /\ q.kind \in AppMakers /\ q.st = "fill" => q.org = None
    /\ q.kind \in AppMakers /\ q.st = "second" => q.org # None
    /\ q.kind = "addTrusted" /\ q.st = "change" => q.who # q.app
    /\ q.kind = "api_grant_create" /\ q.st = "change" => q.role \notin Internal
    /\ q.kind \in {"api_pep_update", "api_pep_delete"} /\ q.st = "change" =>
          q.who \in Proxies /\ Known(q.who, q.app, rows, ofs)
    /\ q.kind \in FormKinds /\ q.st \in {"can", "params", "go"} =>
          \A x \in q.held : Known(x, q.app, rows, ofs)
    /\ q.kind \in FormKinds /\ q.st = "change" =>
          \A x \in q.changeable : Known(x, q.app, rows, ofs)
    /\ q.kind \in FormKinds /\ q.st = "fill" =>
          \A f \in q.form : Known(f.role, q.app, rows, ofs)
    /\ q.kind = "add_members" /\ q.st = "fill" => OneRoleEach(q.form)

ReqsOK == \A r \in Reqs : /\ req[r] \in ReqType
                          /\ ParamsOK(req[r], row, of)
                          /\ StageOK(req[r], row, of)

\* A row is created by one request at most, and is not there before.
Making(q) == q.kind \in Makers /\ q.st \notin Final
CreatorsOK ==
    /\ \A r \in Reqs : Making(req[r]) => row[req[r].who] = "free"
    /\ \A r, s \in Reqs : (/\ r # s /\ req[r].kind \in Makers
                           /\ req[s].kind \in Makers) => req[r].who # req[s].who

KInv == /\ TablesOK /\ req \in [Reqs -> ReqType] /\ ReqsOK /\ CreatorsOK
        /\ scene \in Scenarios

-----------------------------------------------------------------------------
(* The constants, and the tables. *)

Owned == Roles \cup Perms \cup Agents \cup Proxies

\* No id is that of two rows.
LEMMA Apart ==
  /\ Users \cap Orgs = {} /\ Users \cap Apps = {} /\ Users \cap Owned = {}
  /\ Orgs \cap Apps = {} /\ Orgs \cap Owned = {} /\ Apps \cap Owned = {}
  /\ Roles \cap Perms = {} /\ Roles \cap Agents = {} /\ Roles \cap Proxies = {}
  /\ Perms \cap Agents = {} /\ Perms \cap Proxies = {} /\ Agents \cap Proxies = {}
  /\ (Internal \cup Standard) \cap (Users \cup Orgs \cup Apps \cup Owned) = {}
  /\ Internal \cap Standard = {}
  /\ None \notin Ids \cup AllRoles \cup AllPerms \cup MemberRoles \cup Reqs
<1> DEFINE idsOf == <<Users, Orgs, Apps, Roles, Perms, Agents, Proxies, Internal,
                      Standard>>
<1>1. \A i, j \in 1..9 : i # j => idsOf[i] \cap idsOf[j] = {}
  BY DirectoryAssumption
<1>2. /\ Users \cap Orgs = {} /\ Users \cap Apps = {} /\ Orgs \cap Apps = {}
      /\ Internal \cap Standard = {}
  BY <1>1
<1>3. /\ Users \cap Roles = {} /\ Users \cap Perms = {} /\ Users \cap Agents = {}
      /\ Users \cap Proxies = {} /\ Orgs \cap Roles = {} /\ Orgs \cap Perms = {}
      /\ Orgs \cap Agents = {} /\ Orgs \cap Proxies = {} /\ Apps \cap Roles = {}
      /\ Apps \cap Perms = {} /\ Apps \cap Agents = {} /\ Apps \cap Proxies = {}
  BY <1>1
<1>4. /\ Roles \cap Perms = {} /\ Roles \cap Agents = {} /\ Roles \cap Proxies = {}
      /\ Perms \cap Agents = {} /\ Perms \cap Proxies = {} /\ Agents \cap Proxies = {}
  BY <1>1
<1>5. /\ Users \cap Internal = {} /\ Orgs \cap Internal = {} /\ Apps \cap Internal = {}
      /\ Roles \cap Internal = {} /\ Perms \cap Internal = {} /\ Agents \cap Internal = {}
      /\ Proxies \cap Internal = {} /\ Users \cap Standard = {} /\ Orgs \cap Standard = {}
      /\ Apps \cap Standard = {} /\ Roles \cap Standard = {} /\ Perms \cap Standard = {}
      /\ Agents \cap Standard = {} /\ Proxies \cap Standard = {}
  BY <1>1
<1>6. None \notin Ids \cup AllRoles \cup AllPerms \cup MemberRoles \cup Reqs
  BY DirectoryAssumption
<1> HIDE DEF idsOf
<1> QED
  BY <1>2, <1>3, <1>4, <1>5, <1>6 DEF Owned

\* Rows are only ever added, deleted for good, and keep their application.
Advance == /\ \A x \in Ids : row[x] # "free" => row'[x] # "free"
           /\ \A x \in Owned : row[x] # "free" => of'[x] = of[x]
           /\ DOMAIN of' = DOMAIN of

LEMMA AdvanceSame == ASSUME UNCHANGED <<row, of>> PROVE Advance
  BY DEF Advance

LEMMA KnownStays ==
  ASSUME NEW x, NEW a, Advance, Known(x, a, row, of)
  PROVE  Known(x, a, row', of')
  BY DEF Advance, Known, Ids, Owned

LEMMA ParamsStay ==
  ASSUME NEW q, Advance, ParamsOK(q, row, of)
  PROVE  ParamsOK(q, row', of')
<1> USE KnownStays
<1> QED
  BY DEF ParamsOK

LEMMA StageStays ==
  ASSUME NEW q, Advance, StageOK(q, row, of)
  PROVE  StageOK(q, row', of')
<1>1. \A x, a : Known(x, a, row, of) => Known(x, a, row', of')
  BY KnownStays
<1> QED
  BY ONLY <1>1, StageOK(q, row, of) DEF StageOK

\* A deletion, by the foreign keys.
LEMMA DeleteKeeps ==
  ASSUME TablesOK, NEW X \in SUBSET Ids, Delete(X)
  PROVE  /\ TablesOK' /\ Advance
         /\ \A x \in Ids : row[x] = "free" => row'[x] = "free"
         /\ \A x \in X : row'[x] # "here"
<1> DEFINE gone == X \cup {x \in DOMAIN of : of[x] \in X}
<1>1. /\ row' = [x \in Ids |-> IF x \in gone /\ Here(x) THEN "gone" ELSE row[x]]
      /\ member' = {m \in member : m.org \notin gone /\ m.user \notin gone}
      /\ assign' = [k \in Assignable |->
            IF {k.app, k.role, k.to.user, k.to.org} \cap gone = {}
            THEN assign[k] ELSE 0]
      /\ grant' = [k \in Grantable |->
            IF {k.role, k.perm} \cap gone = {} THEN grant[k] ELSE 0]
      /\ trust' = {t \in trust : t[1] \notin gone /\ t[2] \notin gone}
      /\ admin' = admin \ gone
      /\ UNCHANGED <<of, fresh, token, pass>>
  BY DEF Delete
<1>2. DOMAIN of = Owned /\ TablesType
  BY DEF TablesOK, TablesType, Owned
<1>3. X \subseteq gone /\ \A x \in Owned : of[x] \in X => x \in gone
  BY <1>2
<1>4. \A x \in Apps : x \in gone => x \in X
  BY <1>2, Apart
<1> HIDE DEF gone
<1>5. \A x \in Ids : /\ row'[x] \in {"free", "here", "gone"}
                     /\ row'[x] = "here" <=> row[x] = "here" /\ x \notin gone
                     /\ row'[x] = "free" <=> row[x] = "free"
  BY <1>1, <1>2 DEF TablesType, Here
<1>6. Advance
  BY <1>1, <1>2, <1>5 DEF Advance
<1>7. TablesType'
  <2>1. row' \in [Ids -> {"free", "here", "gone"}]
    BY <1>1, <1>5
  <2>2. assign' \in [Assignable -> Nat] /\ grant' \in [Grantable -> Nat]
    BY <1>1, <1>2 DEF TablesType
  <2> QED
    BY <1>1, <1>2, <2>1, <2>2 DEF TablesType
<1>8. OfFits'
  <2> SUFFICES ASSUME NEW x \in Owned
               PROVE  /\ row'[x] # "free" => of'[x] \in Apps
                      /\ row'[x] = "here" => row'[of'[x]] = "here"
    BY DEF OfFits, Here, Owned
  <2>1. x \in Ids /\ of'[x] = of[x] /\ (row[x] # "free" => of[x] \in Apps)
        /\ (row[x] = "here" => row[of[x]] = "here")
    BY <1>1 DEF TablesOK, OfFits, Here, Owned, Ids
  <2>2. CASE row'[x] = "here"
    <3>1. row[x] = "here" /\ x \notin gone
      BY <1>5, <2>1, <2>2
    <3>2. of[x] \in Apps /\ of[x] \notin gone /\ of[x] \in Ids
      BY <1>3, <1>4, <2>1, <3>1 DEF Ids
    <3> QED
      BY <1>5, <2>1, <3>1, <3>2
  <2>3. CASE row'[x] # "here"
    BY <1>5, <2>1, <2>3
  <2> QED
    BY <2>2, <2>3
<1>9. MemberFits'
  BY <1>1, <1>2, <1>5 DEF TablesOK, TablesType, MemberFits, MemberRow, Here, Ids
<1>10. AssignFits'
  <2> SUFFICES ASSUME NEW k \in Assignable, assign'[k] > 0
               PROVE  row'[k.app] = "here" /\ Belongs(k.role, k.app)'
                      /\ Exists({k.to.user, k.to.org})'
    BY DEF AssignFits, Here
  <2>1. {k.app, k.role, k.to.user, k.to.org} \cap gone = {} /\ assign[k] > 0
    BY <1>1
  <2>2. row[k.app] = "here" /\ Belongs(k.role, k.app) /\ Exists({k.to.user, k.to.org})
    BY <2>1 DEF TablesOK, AssignFits, Here
  <2>3. k.app \in Ids /\ k.role \in AllRoles
    BY DEF Assignable, Ids
  <2>4. row'[k.app] = "here"
    BY <1>5, <2>1, <2>2, <2>3
  <2>5. Belongs(k.role, k.app)'
    BY <1>1, <1>5, <2>1, <2>2, <2>3 DEF Belongs, Here, AllRoles, Ids
  <2>6. Exists({k.to.user, k.to.org})'
    BY <1>5, <2>1, <2>2 DEF Exists, Here
  <2> QED
    BY <2>4, <2>5, <2>6
<1>11. GrantFits'
  <2> SUFFICES ASSUME NEW k \in Grantable, grant'[k] > 0
               PROVE  Exists({k.role, k.perm})'
    BY DEF GrantFits
  <2>1. {k.role, k.perm} \cap gone = {} /\ grant[k] > 0
    BY <1>1
  <2>2. Exists({k.role, k.perm})
    BY <2>1 DEF TablesOK, GrantFits
  <2> QED
    BY <1>5, <2>1, <2>2 DEF Exists, Here
<1>12. TrustFits' /\ AdminFits'
  BY <1>1, <1>2, <1>5 DEF TablesOK, TablesType, TrustFits, AdminFits, Here, Ids
<1> QED
  BY <1>3, <1>5, <1>6, <1>7, <1>8, <1>9, <1>10, <1>11, <1>12 DEF TablesOK

-----------------------------------------------------------------------------
(* One request goes on, and the others do not disturb it. *)

SameParams(p, q) ==
    /\ p.kind = q.kind /\ p.by = q.by /\ p.app = q.app /\ p.org = q.org
    /\ p.role = q.role /\ p.perm = q.perm /\ p.who = q.who /\ p.how = q.how
    /\ p.form = q.form
SameRest(p, q) ==
    /\ p.types = q.types /\ p.jwt = q.jwt /\ p.saved = q.saved /\ p.found = q.found
    /\ p.mem = q.mem /\ p.held = q.held /\ p.can = q.can
    /\ p.changeable = q.changeable /\ p.admins = q.admins /\ p.apps = q.apps

LEMMA ParamsSame ==
  ASSUME NEW p, NEW q, NEW rows, NEW ofs, ParamsOK(p, rows, ofs), SameParams(p, q)
  PROVE  ParamsOK(q, rows, ofs)
  BY DEF ParamsOK, SameParams, FormPairs

LEMMA StageSame ==
  ASSUME NEW p, NEW q, NEW rows, NEW ofs, StageOK(p, rows, ofs), SameParams(p, q), p.st = q.st,
         SameRest(p, q)
  PROVE  StageOK(q, rows, ofs)
  BY DEF StageOK, SameParams, SameRest

LEMMA StageFree ==
  ASSUME NEW q, q.st \notin {"fill", "second", "change", "can", "params", "go"},
         NEW rows, NEW ofs
  PROVE  StageOK(q, rows, ofs)
  BY DEF StageOK

LEMMA StageNotForm ==
  ASSUME NEW q, q.st \notin {"fill", "second", "change"}, q.kind \notin FormKinds,
         NEW rows, NEW ofs
  PROVE  StageOK(q, rows, ofs)
  BY DEF StageOK

\* The roles that were read stay those that were read.
LEMMA StageHeld ==
  ASSUME NEW p, NEW q, SameParams(p, q), p.held = q.held, NEW rows, NEW ofs,
         StageOK(p, rows, ofs),
         p.st \in {"can", "params", "go"}, q.st \in {"can", "params", "go"}
  PROVE  StageOK(q, rows, ofs)
  BY DEF StageOK, SameParams

LEMMA NewStage ==
  ASSUME NEW q \in ReqType, NEW s \in Stages
  PROVE  /\ [q EXCEPT !.st = s] \in ReqType
         /\ [q EXCEPT !.st = s].st = s /\ [q EXCEPT !.st = s].quiet = q.quiet
         /\ SameParams(q, [q EXCEPT !.st = s]) /\ SameRest(q, [q EXCEPT !.st = s])
  BY DEF ReqType, SameParams, SameRest

LEMMA Disturbed ==
  ASSUME NEW q \in ReqType
  PROVE  /\ [q EXCEPT !.quiet = FALSE] \in ReqType
         /\ [q EXCEPT !.quiet = FALSE].st = q.st
         /\ [q EXCEPT !.quiet = FALSE].quiet = FALSE
         /\ SameParams(q, [q EXCEPT !.quiet = FALSE])
         /\ SameRest(q, [q EXCEPT !.quiet = FALSE])
<1> DEFINE p == [q EXCEPT !.quiet = FALSE]
<1>1. p \in ReqType
  BY DEF ReqType
<1>2. p.st = q.st /\ SameParams(q, p)
  BY DEF ReqType, SameParams
<1>3. p.quiet = FALSE
  BY DEF ReqType
<1>4. SameRest(q, p)
  BY DEF ReqType, SameRest
<1> HIDE DEF p
<1>5. QED
  BY <1>1, <1>2, <1>3, <1>4 DEF p

\* What a request remembers of what it read, one field for each lemma.
LEMMA NewJwt ==
  ASSUME NEW q \in ReqType, NEW b \in BOOLEAN
  PROVE  [q EXCEPT !.jwt = b] \in ReqType
  BY DEF ReqType

LEMMA NewMem ==
  ASSUME NEW q \in ReqType, NEW mem \in SUBSET (Orgs \X MemberRoles)
  PROVE  /\ [q EXCEPT !.mem = mem] \in ReqType /\ [q EXCEPT !.mem = mem].st = q.st
         /\ SameParams(q, [q EXCEPT !.mem = mem])
  BY DEF ReqType, SameParams

LEMMA NewHeld ==
  ASSUME NEW q \in ReqType, NEW held \in SUBSET AllRoles
  PROVE  /\ [q EXCEPT !.held = held] \in ReqType /\ [q EXCEPT !.held = held].st = q.st
         /\ SameParams(q, [q EXCEPT !.held = held])
  BY DEF ReqType, SameParams

LEMMA NewCan ==
  ASSUME NEW q \in ReqType, NEW can \in SUBSET AllPerms
  PROVE  /\ [q EXCEPT !.can = can] \in ReqType /\ [q EXCEPT !.can = can].st = q.st
         /\ SameParams(q, [q EXCEPT !.can = can])
  BY DEF ReqType, SameParams

LEMMA NewChangeable ==
  ASSUME NEW q \in ReqType, NEW ch \in SUBSET AllRoles
  PROVE  /\ [q EXCEPT !.changeable = ch] \in ReqType /\ [q EXCEPT !.changeable = ch].st = q.st
         /\ SameParams(q, [q EXCEPT !.changeable = ch])
  BY DEF ReqType, SameParams

LEMMA NewFound ==
  ASSUME NEW q \in ReqType, NEW m \in MemberRow \cup {None}
  PROVE  /\ [q EXCEPT !.found = m] \in ReqType /\ [q EXCEPT !.found = m].st = q.st
         /\ SameParams(q, [q EXCEPT !.found = m])
  BY DEF ReqType, SameParams

LEMMA NewAdmins ==
  ASSUME NEW q \in ReqType, NEW us \in SUBSET Users
  PROVE  /\ [q EXCEPT !.admins = us] \in ReqType /\ [q EXCEPT !.admins = us].st = q.st
         /\ SameParams(q, [q EXCEPT !.admins = us])
  BY DEF ReqType, SameParams

LEMMA NewApps ==
  ASSUME NEW q \in ReqType, NEW as \in SUBSET Apps
  PROVE  /\ [q EXCEPT !.apps = as] \in ReqType /\ [q EXCEPT !.apps = as].st = q.st
         /\ SameParams(q, [q EXCEPT !.apps = as])
<1> DEFINE p == [q EXCEPT !.apps = as]
<1>1. p \in ReqType
  BY DEF ReqType
<1>2. p.st = q.st /\ SameParams(q, p)
  BY DEF ReqType, SameParams
<1> QED
  BY <1>1, <1>2

LEMMA SameTwice ==
  ASSUME NEW p, NEW q, NEW t, SameParams(p, q), SameParams(q, t)
  PROVE  SameParams(p, t)
  BY DEF SameParams

\* A step that reads, or answers.
LEMMA ReadStep ==
  ASSUME KInv, NEW r \in Reqs, NEW q \in ReqType, req' = [req EXCEPT ![r] = q],
         UNCHANGED <<tables, scene>>, SameParams(req[r], q), StageOK(q, row, of),
         Making(q) => Making(req[r])
  PROVE  KInv'
<1>1. UNCHANGED <<row, of>> /\ TablesOK'
  BY DEF KInv, tables, TablesOK, TablesType, OfFits, MemberFits, AssignFits, GrantFits,
         TrustFits, AdminFits, Here, Belongs, Exists
<1>2. req' \in [Reqs -> ReqType] /\ req'[r] = q /\ \A s \in Reqs \ {r} : req'[s] = req[s]
  BY DEF KInv
<1>3. ParamsOK(q, row, of)
  BY ParamsSame DEF KInv, ReqsOK
<1>4. ReqsOK'
  BY <1>1, <1>2, <1>3 DEF KInv, ReqsOK
<1>5. CreatorsOK'
  BY <1>1, <1>2 DEF KInv, CreatorsOK, SameParams
<1> QED
  BY <1>1, <1>2, <1>4, <1>5 DEF KInv

\* A step that writes, after which the request is q: the caller shows what the
\* tables are then.
LEMMA WriteAny ==
  ASSUME KInv, NEW r \in Reqs, NEW q \in ReqType, SameParams(req[r], q),
         req' = [s \in Reqs |-> IF s = r THEN q ELSE [req[s] EXCEPT !.quiet = FALSE]],
         UNCHANGED scene, TablesOK', Advance, StageOK(q, row, of),
         Making(q) => Making(req[r]),
         \A x \in Owned : row[x] = "free" =>
            row'[x] = "free" \/ (req[r].kind \in Makers /\ x = req[r].who /\ q.st \in Final)
  PROVE  KInv'
<1> DEFINE p(s) == [req[s] EXCEPT !.quiet = FALSE]
<1>1. req \in [Reqs -> ReqType]
  BY DEF KInv
<1>2. \A s \in Reqs : /\ p(s) \in ReqType /\ p(s).st = req[s].st
                      /\ SameParams(req[s], p(s)) /\ SameRest(req[s], p(s))
  <2> SUFFICES ASSUME NEW s \in Reqs
               PROVE  /\ p(s) \in ReqType /\ p(s).st = req[s].st
                      /\ SameParams(req[s], p(s)) /\ SameRest(req[s], p(s))
    OBVIOUS
  <2>1. req[s] \in ReqType
    BY <1>1
  <2> QED
    BY <2>1, Disturbed
<1>3. req' = [s \in Reqs |-> IF s = r THEN q ELSE p(s)]
  OBVIOUS
<1> HIDE DEF p
<1>4. req' \in [Reqs -> ReqType] /\ req'[r] = q /\ \A s \in Reqs \ {r} : req'[s] = p(s)
  BY <1>2, <1>3
<1>5. ReqsOK'
  <2> SUFFICES ASSUME NEW s \in Reqs
               PROVE  ParamsOK(req'[s], row', of') /\ StageOK(req'[s], row', of')
    BY <1>4 DEF ReqsOK
  <2>1. ParamsOK(req[s], row, of) /\ StageOK(req[s], row, of)
    BY DEF KInv, ReqsOK
  <2>2. ParamsOK(req'[s], row, of) /\ StageOK(req'[s], row, of)
    BY <1>2, <1>4, <2>1, ParamsSame, StageSame
  <2> QED
    BY <2>2, ParamsStay, StageStays
<1>6. CreatorsOK'
  <2>1. \A s \in Reqs : SameParams(req[s], req'[s])
    BY <1>2, <1>4
  <2>2. ASSUME NEW s \in Reqs, Making(req'[s]) PROVE row'[req'[s].who] = "free"
    <3>1. Making(req[s])
      BY <1>2, <1>4, <2>1, <2>2 DEF Making, SameParams
    <3>2. req[s].who \in Owned /\ row[req[s].who] = "free" /\ req'[s].who = req[s].who
      BY <2>1, <3>1 DEF KInv, CreatorsOK, ReqsOK, ParamsOK, Making, Makers, Owned, SameParams
    <3>3. CASE s = r
      BY <1>4, <2>2, <3>2, <3>3 DEF Making
    <3>4. CASE s # r
      <4>1. req[r].kind \in Makers => req[r].who # req[s].who
        BY <3>1, <3>4 DEF KInv, CreatorsOK, Making
      <4> QED
        BY <3>2, <4>1
    <3> QED
      BY <3>3, <3>4
  <2> QED
    BY <2>1, <2>2 DEF KInv, CreatorsOK, SameParams
<1> QED
  BY <1>4, <1>5, <1>6 DEF KInv

LEMMA WriteStep ==
  ASSUME KInv, NEW r \in Reqs, NEW stage \in Stages, Wrote(r, stage),
         req[r].st \notin Final, TablesOK', Advance,
         \A x \in Owned : row[x] = "free" =>
            row'[x] = "free" \/ (req[r].kind \in Makers /\ x = req[r].who /\ stage \in Final),
         stage \in Final \/ StageOK([req[r] EXCEPT !.st = stage], row, of)
  PROVE  KInv'
<1> DEFINE q == [req[r] EXCEPT !.st = stage]
<1>1. req[r] \in ReqType
  BY DEF KInv
<1>2. q \in ReqType /\ q.st = stage /\ SameParams(req[r], q)
  BY <1>1, NewStage
<1>3. StageOK(q, row, of)
  BY <1>2, StageFree DEF Final
<1>4. req' = [s \in Reqs |-> IF s = r THEN q ELSE [req[s] EXCEPT !.quiet = FALSE]]
      /\ UNCHANGED scene
  BY DEF Wrote
<1> HIDE DEF q
<1>5. Making(q) => Making(req[r])
  BY <1>2 DEF Making, SameParams
<1> QED
  BY <1>2, <1>3, <1>4, <1>5, WriteAny

\* An answer that only says how it went.
LEMMA EndedKeeps ==
  ASSUME KInv, NEW r \in Reqs, NEW k, NEW stage, NEW end \in Final, Ended(r, k, stage, end)
  PROVE  KInv'
<1> DEFINE q == [req[r] EXCEPT !.st = end]
<1>1. req[r] \in ReqType /\ end \in Stages
  BY DEF KInv, Stages
<1>2. q \in ReqType /\ q.st = end /\ SameParams(req[r], q)
  BY <1>1, NewStage
<1>3. req' = [req EXCEPT ![r] = q] /\ UNCHANGED <<tables, scene>>
  BY DEF Ended, Reading
<1> HIDE DEF q
<1>4. StageOK(q, row, of) /\ ~Making(q)
  BY <1>2, StageFree DEF Final, Making
<1> QED
  BY <1>2, <1>3, <1>4, ReadStep

\* A step to another stage, from one that is not final.
LEMMA MovedKeeps ==
  ASSUME KInv, NEW r \in Reqs, NEW s \in Stages,
         req' = [req EXCEPT ![r].st = s], UNCHANGED <<tables, scene>>,
         req[r].st \notin Final, StageOK([req[r] EXCEPT !.st = s], row, of)
  PROVE  KInv'
<1> DEFINE q == [req[r] EXCEPT !.st = s]
<1>1. req[r] \in ReqType
  BY DEF KInv
<1>2. q \in ReqType /\ q.st = s /\ SameParams(req[r], q)
  BY <1>1, NewStage
<1>3. req' = [req EXCEPT ![r] = q]
  OBVIOUS
<1>4. Making(q) => Making(req[r])
  BY <1>2 DEF Making, SameParams
<1> QED
  BY <1>2, <1>3, <1>4, ReadStep

-----------------------------------------------------------------------------
(* The checks before the handlers. *)

\* Several fields of a request are set: its parameters stay.
LEMMA FieldsKeep ==
  ASSUME KInv, NEW r \in Reqs, NEW q, UNCHANGED <<tables, scene>>,
         req' = [req EXCEPT ![r] = q], q \in ReqType, SameParams(req[r], q),
         StageOK(q, row, of), req[r].st \notin Final
  PROVE  KInv'
<1>1. Making(q) => Making(req[r])
  BY DEF Making, SameParams
<1> QED
  BY <1>1, ReadStep

LEMMA StepLoad ==
  ASSUME KInv, NEW r \in Reqs, LoadApplication(r) \/ ApiLoadApplication(r) PROVE KInv'
<1> DEFINE next == IF Here(req[r].app) THEN "member" ELSE "missing"
           q == [req[r] EXCEPT !.st = next, !.jwt = token[req[r].app].jwt]
<1>1. req[r] \in ReqType /\ req[r].st = "load" /\ UNCHANGED <<tables, scene>>
      /\ req[r].kind \in AppKinds
  <2>1. req[r] \in ReqType
    BY DEF KInv
  <2>2. req[r].st = "load" /\ UNCHANGED <<tables, scene>>
    BY Zenon DEF LoadApplication, ApiLoadApplication, LoadRow
  <2>3. req[r].kind \in AppKinds
    <3>1. CASE LoadApplication(r)
      <4>1. req[r].kind \in AppKinds \ ApiAppKinds
        BY <3>1, Zenon DEF LoadApplication, LoadRow
      <4> QED
        BY <4>1
    <3>2. CASE ApiLoadApplication(r)
      <4>1. req[r].kind \in ApiAppKinds
        BY <3>2, Zenon DEF ApiLoadApplication, LoadRow
      <4> QED
        BY <4>1 DEF AppKinds
    <3> QED
      BY <3>1, <3>2
  <2> QED
    BY <2>1, <2>2, <2>3
<1>2. req' = [req EXCEPT ![r] = q]
  BY DEF LoadApplication, ApiLoadApplication, LoadRow
<1>3. token[req[r].app].jwt \in BOOLEAN
  <2>1. req[r].app \in Apps
    BY <1>1 DEF KInv, ReqsOK, ParamsOK
  <2> QED
    BY <2>1 DEF KInv, TablesOK, TablesType
<1>4. q \in ReqType /\ q.st = next /\ SameParams(req[r], q)
  <2>1. next \in Stages
    BY DEF Stages, Final
  <2> HIDE DEF next
  <2> DEFINE p == [req[r] EXCEPT !.st = next]
             b == token[req[r].app].jwt
  <2>2. p \in ReqType /\ p.st = next /\ SameParams(req[r], p)
    BY <1>1, <2>1, NewStage
  <2>3. q = [p EXCEPT !.jwt = b]
    OBVIOUS
  <2> HIDE DEF p, b, q
  <2>4. [p EXCEPT !.jwt = b].st = p.st /\ SameParams(p, [p EXCEPT !.jwt = b])
    BY <2>2 DEF ReqType, SameParams
  <2>5. [p EXCEPT !.jwt = b] \in ReqType
    BY <1>3, <2>2, NewJwt DEF b
  <2> QED
    BY <2>2, <2>3, <2>4, <2>5, SameTwice
<1> HIDE DEF q
<1>5. StageOK(q, row, of)
  <2>1. next \in {"member", "missing"}
    OBVIOUS
  <2> QED
    BY <1>4, <2>1, StageFree
<1> QED
  BY <1>1, <1>2, <1>4, <1>5, FieldsKeep DEF Final

LEMMA StepFindMemberships ==
  ASSUME KInv, NEW r \in Reqs, FindMemberships(r) PROVE KInv'
<1> DEFINE mem == {<<m.org, m.role>> : m \in {m \in member : m.user = req[r].by}}
           q == [req[r] EXCEPT !.st = "held", !.mem = mem]
<1>1. req[r] \in ReqType /\ req[r].st = "member" /\ UNCHANGED <<tables, scene>>
  BY DEF KInv, FindMemberships
<1>2. req' = [req EXCEPT ![r] = q]
  BY DEF FindMemberships
<1>3. mem \subseteq Orgs \X MemberRoles
  BY DEF KInv, TablesOK, TablesType, MemberRow
<1> HIDE DEF mem
<1>4. q \in ReqType /\ q.st = "held" /\ SameParams(req[r], q)
  <2> DEFINE p == [req[r] EXCEPT !.st = "held"]
  <2>1. p \in ReqType /\ p.st = "held" /\ SameParams(req[r], p)
    BY <1>1, NewStage DEF Stages
  <2>2. q = [p EXCEPT !.mem = mem]
    OBVIOUS
  <2> HIDE DEF p, q
  <2> QED
    BY <1>3, <2>1, <2>2, NewMem, SameTwice
<1> HIDE DEF q
<1>5. StageOK(q, row, of)
  BY <1>4, StageFree
<1> QED
  BY <1>1, <1>2, <1>4, <1>5, FieldsKeep DEF Final

\* A role that someone holds in an application is one of it.
LEMMA RolesKnown ==
  ASSUME KInv, NEW a \in Apps, NEW to \in Holders, NEW x \in RolesAt(a, to)
  PROVE  Known(x, a, row, of)
<1> DEFINE k == [app |-> a, role |-> x, to |-> to]
<1>1. k \in Assignable /\ k.app = a /\ k.role = x /\ assign[k] > 0
  BY DEF RolesAt, Assignable
<1> HIDE DEF k
<1>2. Belongs(x, a) /\ x \in AllRoles
  BY <1>1 DEF KInv, TablesOK, AssignFits, RolesAt
<1> QED
  BY <1>2 DEF Belongs, Known, AllRoles, Here

LEMMA StepFindRoles ==
  ASSUME KInv, NEW r \in Reqs, FindRoles(r) PROVE KInv'
<1> DEFINE held == RolesAt(req[r].app, OfUser(req[r].by)) \cup
                     UNION {RolesAt(req[r].app, OfOrg(m[1], m[2])) : m \in req[r].mem}
           q == [req[r] EXCEPT !.st = "can", !.held = held]
<1>1. req[r] \in ReqType /\ req[r].st = "held" /\ UNCHANGED <<tables, scene>>
  BY DEF KInv, FindRoles
<1>2. req' = [req EXCEPT ![r] = q]
  BY DEF FindRoles
<1>3. held \subseteq AllRoles
  BY DEF RolesAt
<1>4. req[r].kind \in FormKinds => \A x \in held : Known(x, req[r].app, row, of)
  <2> SUFFICES ASSUME req[r].kind \in FormKinds, NEW x \in held
               PROVE  Known(x, req[r].app, row, of)
    OBVIOUS
  <2>1. req[r].app \in Apps /\ req[r].by \in Users
    BY DEF KInv, ReqsOK, ParamsOK, FormKinds, AppKinds, WebAssignKinds
  <2>2. \A m \in req[r].mem : m[1] \in Orgs /\ m[2] \in MemberRoles
    BY <1>1 DEF ReqType
  <2>3. PICK to \in Holders : x \in RolesAt(req[r].app, to)
    <3>1. CASE x \in RolesAt(req[r].app, OfUser(req[r].by))
      BY <2>1, <3>1 DEF Holders, OfUser
    <3>2. ASSUME NEW m \in req[r].mem, x \in RolesAt(req[r].app, OfOrg(m[1], m[2]))
          PROVE  \E to \in Holders : x \in RolesAt(req[r].app, to)
      BY <2>2, <3>2 DEF Holders, OfOrg
    <3> QED
      BY <3>1, <3>2
  <2> QED
    BY <2>1, <2>3, RolesKnown
<1> HIDE DEF held
<1>5. q \in ReqType /\ q.st = "can" /\ SameParams(req[r], q) /\ q.held = held
  <2> DEFINE p == [req[r] EXCEPT !.st = "can"]
  <2>1. p \in ReqType /\ p.st = "can" /\ SameParams(req[r], p)
    BY <1>1, NewStage DEF Stages
  <2>2. q = [p EXCEPT !.held = held]
    OBVIOUS
  <2>3. q.held = held
    BY <2>1 DEF ReqType
  <2> HIDE DEF p, q
  <2> QED
    BY <1>3, <2>1, <2>2, <2>3, NewHeld, SameTwice
<1> HIDE DEF q
<1>6. StageOK(q, row, of)
  BY <1>4, <1>5 DEF StageOK, SameParams
<1> QED
  BY <1>1, <1>2, <1>5, <1>6, FieldsKeep DEF Final

LEMMA StepDecide ==
  ASSUME KInv, NEW r \in Reqs, OwnedPermissions(r) \/ CheckRequest(r) PROVE KInv'
<1> DEFINE can == UNION {PermsOf(x) : x \in req[r].held}
<1>1. PICK next \in {"go", "params", "silent", "denied"} :
         req' = [req EXCEPT ![r].can = can, ![r].st = next]
  <2>1. ASSUME NEW kinds, NEW further \in {"go", "params"}, NEW refused \in {"silent", "denied"},
               Decide(r, kinds, further, refused)
        PROVE \E next \in {"go", "params", "silent", "denied"} :
                 req' = [req EXCEPT ![r].can = can, ![r].st = next]
    BY <2>1 DEF Decide
  <2> QED
    BY <2>1 DEF OwnedPermissions, CheckRequest
<1>2. req[r] \in ReqType /\ req[r].st = "can" /\ UNCHANGED <<tables, scene>>
  BY DEF KInv, OwnedPermissions, CheckRequest, Decide
<1> DEFINE q == [req[r] EXCEPT !.can = can, !.st = next]
<1>3. req' = [req EXCEPT ![r] = q]
  BY <1>1
<1>4. can \subseteq AllPerms
  BY DEF PermsOf, AllPerms
<1> HIDE DEF can
<1>5. q \in ReqType /\ q.st = next /\ SameParams(req[r], q) /\ q.held = req[r].held
  <2> DEFINE p == [req[r] EXCEPT !.can = can]
  <2>1. p \in ReqType /\ SameParams(req[r], p)
    BY <1>2, <1>4, NewCan
  <2>2. q = [p EXCEPT !.st = next]
    OBVIOUS
  <2>3. next \in Stages
    BY DEF Stages, Final
  <2>4. q.held = req[r].held
    BY <1>2 DEF ReqType
  <2> HIDE DEF p, q
  <2> QED
    BY <2>1, <2>2, <2>3, <2>4, NewStage, SameTwice
<1> HIDE DEF q
<1>6. StageOK(q, row, of)
  <2>1. StageOK(req[r], row, of)
    BY DEF KInv, ReqsOK
  <2> QED
    BY <1>2, <1>5, <2>1, StageHeld, StageFree
<1> QED
  BY <1>2, <1>3, <1>5, <1>6, FieldsKeep DEF Final

LEMMA StepLoadParameters ==
  ASSUME KInv, NEW r \in Reqs, LoadParameters(r) PROVE KInv'
<1> DEFINE s == IF ParamsHere(req[r]) THEN "go" ELSE "missing"
<1>1. s \in Stages \ {"fill", "second", "change"}
  BY DEF Stages, Final
<1>2. req[r] \in ReqType
  BY DEF KInv
<1>3. /\ [req[r] EXCEPT !.st = s].st = s
      /\ SameParams(req[r], [req[r] EXCEPT !.st = s]) /\ SameRest(req[r], [req[r] EXCEPT !.st = s])
  BY <1>1, <1>2, NewStage
<1>5. /\ req' = [req EXCEPT ![r].st = s] /\ UNCHANGED <<tables, scene>>
      /\ req[r].st = "params"
  BY DEF LoadParameters
<1>4. StageOK([req[r] EXCEPT !.st = s], row, of)
  <2>1. StageOK(req[r], row, of) /\ s \in {"go", "missing"}
    BY DEF KInv, ReqsOK
  <2> QED
    BY <1>3, <1>5, <2>1, StageHeld, StageFree DEF SameRest
<1> HIDE DEF s
<1> QED
  BY <1>1, <1>4, <1>5, MovedKeeps DEF Final

LEMMA StepCheck == ASSUME KInv, NEW r \in Reqs, Check(r) PROVE KInv'
<1>1. ASSUME RefuseBody(r) PROVE KInv'
  BY <1>1, EndedKeeps DEF RefuseBody, Final
<1> QED
  BY <1>1, StepLoad, StepFindMemberships, StepFindRoles, StepDecide, StepLoadParameters
     DEF Check

-----------------------------------------------------------------------------
(* The first states. *)

LEMMA InitTables ==
  ASSUME NEW first \in SUBSET Ids, NEW founder \in Users \cap first, Home \in first,
         NEW ids \in [Users -> 1..Cardinality(Users)], FirstTables(first, founder, ids)
  PROVE  TablesOK
<1>1. /\ row = [x \in Ids |-> IF x \in first THEN "here" ELSE "free"]
      /\ of = [x \in Roles \cup Perms \cup Agents \cup Proxies |->
                IF x \in first THEN Home ELSE None]
      /\ member = {[id |-> ids[u], org |-> o, user |-> u,
                  role |-> IF u = founder THEN "owner" ELSE "member"] :
                   u \in Users \cap first, o \in Orgs \cap first}
      /\ fresh = Cardinality(Users) + 1
      /\ admin = {founder}
      /\ token = [a \in Apps |-> [jwt |-> FALSE, openid |-> FALSE, secret |-> FALSE]]
      /\ pass = [x \in Agents \cup Proxies |-> None]
  BY DEF FirstTables
<1>2. PICK given \in Chosen(FirstHolders(first)) :
          assign = [k \in Assignable |->
            IF \/ k.app \in first /\ k.role = "provider" /\ k.to = OfUser(founder)
               \/ k \in given
            THEN 1 ELSE 0]
  BY DEF FirstTables
<1>3. PICK granted \in Chosen(FirstGrants(first)) :
          grant = [k \in Grantable |-> IF k \in granted THEN 1 ELSE 0]
  BY DEF FirstTables
<1>4. given \subseteq FirstHolders(first) /\ granted \subseteq FirstGrants(first)
      /\ trust \subseteq FirstTrust(first)
  BY <1>2, <1>3 DEF FirstTables, Chosen
<1>5. Home \in Apps /\ Home \in Ids /\ Cardinality(Users) \in Nat
      /\ MaxRows \in Nat /\ Cardinality(Users) <= MaxRows
  BY DirectoryAssumption, FS_CardinalityType DEF Ids
<1>6. TablesType
  <2>1. row \in [Ids -> {"free", "here", "gone"}]
        /\ of \in [Roles \cup Perms \cup Agents \cup Proxies -> Apps \cup {None}]
    BY <1>1, <1>5
  <2>2. member \subseteq MemberRow /\ fresh \in 1..(MaxRows + 1)
    BY <1>1, <1>5 DEF MemberRow, MemberRoles
  <2>3. assign \in [Assignable -> Nat] /\ grant \in [Grantable -> Nat]
    BY <1>2, <1>3
  <2>4. trust \subseteq Apps \X Apps /\ admin \subseteq Users
    BY <1>1, <1>4, <1>5 DEF FirstTrust
  <2>5. token \in [Apps -> [jwt : BOOLEAN, openid : BOOLEAN, secret : BOOLEAN]]
    BY <1>1
  <2>6. pass \in [Agents \cup Proxies -> Reqs \cup {None}]
    BY <1>1
  <2> QED
    BY <2>1, <2>2, <2>3, <2>4, <2>5, <2>6 DEF TablesType
<1>7. OfFits
  BY <1>1, <1>5 DEF OfFits, Here, Ids
<1>8. MemberFits
  BY <1>1 DEF MemberFits, Here, Ids
<1>9. AssignFits
  <2> SUFFICES ASSUME NEW k \in Assignable, assign[k] > 0
               PROVE  Here(k.app) /\ Belongs(k.role, k.app) /\ Exists({k.to.user, k.to.org})
    BY DEF AssignFits
  <2>1. CASE k.app \in first /\ k.role = "provider" /\ k.to = OfUser(founder)
    <3>1. Here(k.app) /\ Belongs(k.role, k.app)
      BY <1>1, <2>1 DEF Here, Belongs, Internal
    <3>2. k.to.user = founder /\ k.to.org = None
      BY <2>1 DEF OfUser
    <3>3. Exists({k.to.user, k.to.org})
      BY <1>1, <3>2, Apart DEF Exists, Here
    <3> QED
      BY <3>1, <3>3
  <2>2. CASE k \in given
    <3>1. k \in FirstHolders(first)
      BY <1>4, <2>2
    <3>2. k.app = Home /\ k.role \in Roles \cap first /\ {k.to.user, k.to.org} \cap Ids \subseteq first
      BY <3>1 DEF FirstHolders
    <3>3. Here(k.app) /\ Belongs(k.role, k.app)
      BY <1>1, <1>5, <3>2 DEF Here, Belongs, Ids
    <3>4. Exists({k.to.user, k.to.org})
      BY <1>1, <3>2 DEF Exists, Here
    <3> QED
      BY <3>3, <3>4
  <2> QED
    BY <1>2, <2>1, <2>2
<1>10. GrantFits
  BY <1>1, <1>3, <1>4 DEF GrantFits, FirstGrants, Here, Exists, Ids
<1>11. TrustFits
  BY <1>1, <1>4, <1>5 DEF TrustFits, FirstTrust, Here, Ids
<1>12. AdminFits
  BY <1>1 DEF AdminFits, Here, Ids
<1> QED
  BY <1>6, <1>7, <1>8, <1>9, <1>10, <1>11, <1>12 DEF TablesOK

LEMMA IdleType == IdleReq \in ReqType /\ IdleReq.st = "idle" /\ IdleReq.kind = "none"
<1>1. IdleReq \in ReqType
  BY DEF IdleReq, ReqType, Stages
<1> QED
  BY <1>1 DEF IdleReq

LEMMA InitKInv == Init => KInv
<1> SUFFICES ASSUME Init PROVE KInv
  OBVIOUS
<1>1. scene \in Scenarios /\ req = [r \in Reqs |-> IdleReq]
  BY DEF Init
<1>2. TablesOK
  <2>1. PICK founder \in Users \cap scene.rows, ids \in [Users -> 1..Cardinality(Users)] :
           FirstTables(scene.rows, founder, ids)
    BY DEF Init
  <2>2. scene.rows \subseteq Ids /\ Home \in scene.rows
    BY <1>1, DirectoryAssumption
  <2> QED
    BY <2>1, <2>2, InitTables
<1>3. \A r \in Reqs : req[r] = IdleReq
  BY <1>1
<1>4. ParamsOK(IdleReq, row, of) /\ StageOK(IdleReq, row, of)
  <2>1. ParamsOK(IdleReq, row, of)
    BY IdleType DEF ParamsOK, OrgKinds, AppKinds, DecisionKinds, AppMakers, OrgMakers,
       WebRolesKinds, WebAssignKinds, WebManageKinds, ApiAppKinds, ApiRolesKinds,
       ApiAssignKinds, ApiManageKinds, RoleMakers, PermMakers, AgentMakers, ProxyMakers,
       RoleNamers, PermNamers, FormKinds
  <2> QED
    BY <2>1, IdleType, StageFree
<1>5. ReqsOK /\ req \in [Reqs -> ReqType]
  BY <1>1, <1>3, <1>4, IdleType DEF ReqsOK
<1>6. CreatorsOK
  BY <1>3, IdleType DEF CreatorsOK, Making, Makers, RoleMakers, PermMakers, AgentMakers,
     ProxyMakers
<1> QED
  BY <1>1, <1>2, <1>5, <1>6 DEF KInv

-----------------------------------------------------------------------------
(* Arrivals. *)

LEMMA ArriveKeeps ==
  ASSUME KInv, NEW r \in Reqs, NEW q \in ReqType, Arrive(r, q), ParamsOK(q, row, of),
         q.st \in {"load", "go"}, q.st = "go" => q.kind \notin FormKinds,
         q.kind \in Makers =>
            row[q.who] = "free" /\ \A s \in Reqs : req[s].who # q.who
  PROVE  KInv'
<1>1. UNCHANGED <<tables, scene>> /\ req' = [req EXCEPT ![r] = q]
  BY DEF Arrive
<1>2. UNCHANGED <<row, of>> /\ TablesOK' /\ scene' \in Scenarios
  BY <1>1 DEF KInv, tables, TablesOK, TablesType, OfFits, MemberFits, AssignFits,
     GrantFits, TrustFits, AdminFits, Here, Belongs, Exists
<1>3. req' \in [Reqs -> ReqType] /\ req'[r] = q /\ \A s \in Reqs \ {r} : req'[s] = req[s]
  BY <1>1 DEF KInv
<1>4. StageOK(q, row, of)
  BY StageFree, StageNotForm
<1>5. ReqsOK'
  BY <1>2, <1>3, <1>4 DEF KInv, ReqsOK
<1>6. CreatorsOK'
  BY <1>2, <1>3 DEF KInv, CreatorsOK, Making
<1> QED
  BY <1>2, <1>3, <1>5, <1>6 DEF KInv

\* A request that was just opened says who asks for what, and nothing else.
Blank(q, k, u) ==
    /\ q \in ReqType /\ q.st = "load" /\ q.kind = k /\ q.by = u
    /\ q.app = None /\ q.org = None /\ q.role = None /\ q.perm = None
    /\ q.who = None /\ q.how = None /\ q.form = {}

LEMMA OpenedIsBlank ==
  ASSUME NEW k \in AllKinds, NEW u \in Users
  PROVE  Blank(Opened(k, u), k, u)
<1>1. /\ IdleReq.app = None /\ IdleReq.org = None /\ IdleReq.role = None
      /\ IdleReq.perm = None /\ IdleReq.who = None /\ IdleReq.how = None
      /\ IdleReq.form = {}
  BY DEF IdleReq
<1> DEFINE q == Opened(k, u)
<1>2. IdleReq \in ReqType /\ "load" \in Stages
  BY IdleType DEF Stages
<1>3. q \in ReqType
  BY <1>2 DEF Opened, ReqType
<1>4. q.st = "load" /\ q.kind = k /\ q.by = u
  BY <1>2 DEF Opened, ReqType
<1>5. /\ q.app = IdleReq.app /\ q.org = IdleReq.org /\ q.role = IdleReq.role
      /\ q.perm = IdleReq.perm /\ q.who = IdleReq.who /\ q.how = IdleReq.how
      /\ q.form = IdleReq.form
  BY <1>2 DEF Opened, ReqType
<1> HIDE DEF q
<1> QED
  BY <1>1, <1>3, <1>4, <1>5 DEF Blank, q

LEMMA NewOrgCreate ==
  ASSUME KInv, NEW r \in Reqs, NEW k \in OrgMakers, NEW u \in Users, NEW o \in Orgs,
         Arrive(r, [Opened(k, u) EXCEPT !.st = "go", !.org = o])
  PROVE  KInv'
<1> DEFINE b == Opened(k, u)
           q == [b EXCEPT !.st = "go", !.org = o]
<1>1. Blank(b, k, u)
  BY OpenedIsBlank DEF OrgMakers, AllKinds, OpenKinds
<1> HIDE DEF b
<1>2. b \in ReqType /\ "go" \in Stages
  BY <1>1 DEF Blank, Stages
<1>3. q \in ReqType
  BY <1>2 DEF ReqType
<1>4. q.st = "go" /\ q.org = o /\ q.kind = b.kind /\ q.by = b.by
  BY <1>2 DEF ReqType
<1>5. Arrive(r, q)
  BY DEF b
<1> HIDE DEF q
<1>6. q.kind = k /\ q.by = u
  BY <1>1, <1>4 DEF Blank
<1>7. ParamsOK(q, row, of) /\ q.kind \notin Makers
  BY <1>4, <1>6 DEF ParamsOK, OrgKinds, AppKinds, DecisionKinds, AppMakers, OrgMakers,
     WebRolesKinds, WebAssignKinds, WebManageKinds, ApiAppKinds, ApiRolesKinds,
     ApiAssignKinds, ApiManageKinds, RoleMakers, PermMakers, AgentMakers, ProxyMakers,
     RoleNamers, PermNamers, Makers, FormKinds
<1>8. q.kind \notin FormKinds
  BY <1>6 DEF OrgMakers, FormKinds
<1> QED
  BY <1>3, <1>4, <1>5, <1>7, <1>8, ArriveKeeps

USE DEF FormKinds, OrgKinds, OpenKinds, AppKinds, DecisionKinds, AppMakers, OrgMakers,
    WebRolesKinds, WebAssignKinds, WebManageKinds, ApiAppKinds, ApiRolesKinds,
    ApiAssignKinds, ApiManageKinds, RoleMakers, PermMakers, AgentMakers, ProxyMakers,
    RoleNamers, PermNamers, Makers

LEMMA NewForOrg ==
  ASSUME KInv, NEW r \in Reqs, NEW k \in {"org_update_info", "org_destroy", "org_remove",
                                       "api_org_update", "api_org_delete"},
         NEW u \in Users, NEW o \in Orgs,
         Arrive(r, [Opened(k, u) EXCEPT !.org = o])
  PROVE  KInv'
<1> DEFINE b == Opened(k, u)
           q == [b EXCEPT !.org = o]
<1>1. Blank(b, k, u)
  BY OpenedIsBlank DEF AllKinds
<1> HIDE DEF b
<1>2. q \in ReqType
  BY <1>1 DEF Blank, ReqType
<1>3. q.st = "load" /\ q.kind = k /\ q.by = u /\ q.org = o
  BY <1>1 DEF Blank, ReqType
<1> HIDE DEF q
<1>4. ParamsOK(q, row, of) /\ q.kind \notin Makers
  BY <1>1, <1>3 DEF ParamsOK, FormPairs, Blank
<1> QED
  BY <1>2, <1>3, <1>4, ArriveKeeps DEF b, q

LEMMA NewMembersForm ==
  ASSUME KInv, NEW r \in Reqs, NEW k \in {"add_members"},
         NEW u \in Users, NEW o \in Orgs, NEW form \in MemberForms,
         Arrive(r, [Opened(k, u) EXCEPT !.org = o, !.form = form])
  PROVE  KInv'
<1> DEFINE b == Opened(k, u)
           q == [b EXCEPT !.org = o, !.form = form]
<1>1. Blank(b, k, u)
  BY OpenedIsBlank DEF AllKinds
<1> HIDE DEF b
<1>2. form \in SUBSET Posted
  BY DEF MemberForms, Posted
<1>3. q \in ReqType
  BY <1>1, <1>2 DEF Blank, ReqType
<1>4. q.st = "load" /\ q.kind = k /\ q.by = u /\ q.org = o /\ q.form = form
  BY <1>1, <1>2 DEF Blank, ReqType
<1> HIDE DEF q
<1>5. ParamsOK(q, row, of) /\ q.kind \notin Makers
  BY <1>1, <1>2, <1>4 DEF ParamsOK, FormPairs, Blank
<1> QED
  BY <1>3, <1>4, <1>5, ArriveKeeps DEF b, q

LEMMA NewForMember ==
  ASSUME KInv, NEW r \in Reqs, NEW k \in {"addRole", "removeRole"},
         NEW u \in Users, NEW o \in Orgs, NEW w \in Users, NEW h \in MemberRoles,
         Arrive(r, [Opened(k, u) EXCEPT !.org = o, !.who = w, !.how = h])
  PROVE  KInv'
<1> DEFINE b == Opened(k, u)
           q == [b EXCEPT !.org = o, !.who = w, !.how = h]
<1>1. Blank(b, k, u)
  BY OpenedIsBlank DEF AllKinds
<1> HIDE DEF b
<1>2. w \in Ids
  BY DEF Ids
<1>3. q \in ReqType
  BY <1>1, <1>2 DEF Blank, ReqType
<1>4. q.st = "load" /\ q.kind = k /\ q.by = u /\ q.org = o /\ q.who = w /\ q.how = h
  BY <1>1, <1>2 DEF Blank, ReqType
<1> HIDE DEF q
<1>5. ParamsOK(q, row, of) /\ q.kind \notin Makers
  BY <1>1, <1>2, <1>4 DEF ParamsOK, FormPairs, Blank
<1> QED
  BY <1>3, <1>4, <1>5, ArriveKeeps DEF b, q

LEMMA NewAdministrators ==
  ASSUME KInv, NEW r \in Reqs, NEW k \in {"update_administrators"},
         NEW u \in Users, NEW form \in SUBSET Users,
         Arrive(r, [Opened(k, u) EXCEPT !.st = "go", !.form = form])
  PROVE  KInv'
<1> DEFINE b == Opened(k, u)
           q == [b EXCEPT !.st = "go", !.form = form]
<1>1. Blank(b, k, u)
  BY OpenedIsBlank DEF AllKinds
<1> HIDE DEF b
<1>2. form \in SUBSET Posted /\ "go" \in Stages
  BY DEF Posted, Stages
<1>3. q \in ReqType
  BY <1>1, <1>2 DEF Blank, ReqType
<1>4. q.st = "go" /\ q.kind = k /\ q.by = u /\ q.form = form
  BY <1>1, <1>2 DEF Blank, ReqType
<1> HIDE DEF q
<1>5. ParamsOK(q, row, of) /\ q.kind \notin Makers
  BY <1>1, <1>2, <1>4 DEF ParamsOK, FormPairs, Blank
<1> QED
  BY <1>3, <1>4, <1>5, ArriveKeeps DEF b, q

LEMMA NewAppCreate ==
  ASSUME KInv, NEW r \in Reqs, NEW k \in AppMakers,
         NEW u \in Users, NEW a \in Apps, NEW o \in Orgs \cup {None},
         NEW t \in {"kept", "jwt"}, o # None => k = "app_create",
         Arrive(r, [Opened(k, u) EXCEPT !.st = "go", !.app = a, !.org = o, !.types = t])
  PROVE  KInv'
<1> DEFINE b == Opened(k, u)
           q == [b EXCEPT !.st = "go", !.app = a, !.org = o, !.types = t]
<1>1. Blank(b, k, u)
  BY OpenedIsBlank DEF AllKinds
<1> HIDE DEF b
<1>2. "go" \in Stages
  BY DEF Stages
<1>3. q \in ReqType
  BY <1>1, <1>2 DEF Blank, ReqType
<1>4. q.st = "go" /\ q.kind = k /\ q.by = u /\ q.app = a /\ q.org = o
  BY <1>1, <1>2 DEF Blank, ReqType
<1> HIDE DEF q
<1>5. ParamsOK(q, row, of) /\ q.kind \notin Makers
  BY <1>1, <1>2, <1>4 DEF ParamsOK, FormPairs, Blank
<1> QED
  BY <1>3, <1>4, <1>5, ArriveKeeps DEF b, q

LEMMA NewForApp ==
  ASSUME KInv, NEW r \in Reqs, NEW k \in {"app_update_info", "change_token_type",
            "api_app_update"},
         NEW u \in Users, NEW a \in Apps, NEW t \in {"kept", "bearer", "jwt"},
         Arrive(r, [Opened(k, u) EXCEPT !.app = a, !.types = t])
  PROVE  KInv'
<1> DEFINE b == Opened(k, u)
           q == [b EXCEPT !.app = a, !.types = t]
<1>1. Blank(b, k, u)
  BY OpenedIsBlank DEF AllKinds
<1> HIDE DEF b
<1>2. q \in ReqType
  BY <1>1 DEF Blank, ReqType
<1>3. q.st = "load" /\ q.kind = k /\ q.by = u /\ q.app = a
  BY <1>1 DEF Blank, ReqType
<1> HIDE DEF q
<1>4. ParamsOK(q, row, of) /\ q.kind \notin Makers
  BY <1>1, <1>3 DEF ParamsOK, FormPairs, Blank
<1> QED
  BY <1>2, <1>3, <1>4, ArriveKeeps DEF b, q

LEMMA NewForAppOnly ==
  ASSUME KInv, NEW r \in Reqs, NEW k \in {"reset_jwt_secret", "app_destroy", "api_app_delete",
            "api_pep_update", "api_pep_delete", "access_token_info"},
         NEW u \in Users, NEW a \in Apps,
         Arrive(r, [Opened(k, u) EXCEPT !.app = a])
  PROVE  KInv'
<1> DEFINE b == Opened(k, u)
           q == [b EXCEPT !.app = a]
<1>1. Blank(b, k, u)
  BY OpenedIsBlank DEF AllKinds
<1> HIDE DEF b
<1>2. q \in ReqType
  BY <1>1 DEF Blank, ReqType
<1>3. q.st = "load" /\ q.kind = k /\ q.by = u /\ q.app = a
  BY <1>1 DEF Blank, ReqType
<1> HIDE DEF q
<1>4. ParamsOK(q, row, of) /\ q.kind \notin Makers
  BY <1>1, <1>3 DEF ParamsOK, FormPairs, Blank
<1> QED
  BY <1>2, <1>3, <1>4, ArriveKeeps DEF b, q

\* The row that a request will create.
LEMMA NewMaker ==
  ASSUME KInv, NEW r \in Reqs, NEW k \in Makers,
         NEW u \in Users, NEW a \in Apps, NEW x \in Owned, row[x] = "free",
         \A s \in Reqs : req[s].who # x, k \in RoleMakers => x \in Roles,
         k \in PermMakers => x \in Perms, k \in AgentMakers => x \in Agents,
         k \in ProxyMakers => x \in Proxies,
         Arrive(r, [Opened(k, u) EXCEPT !.app = a, !.who = x])
  PROVE  KInv'
<1> DEFINE b == Opened(k, u)
           q == [b EXCEPT !.app = a, !.who = x]
<1>1. Blank(b, k, u)
  BY OpenedIsBlank DEF AllKinds
<1> HIDE DEF b
<1>2. x \in Ids
  BY DEF Ids, Owned
<1>3. q \in ReqType
  BY <1>1, <1>2 DEF Blank, ReqType
<1>4. q.st = "load" /\ q.kind = k /\ q.by = u /\ q.app = a /\ q.who = x
  BY <1>1, <1>2 DEF Blank, ReqType
<1> HIDE DEF q
<1>5. ParamsOK(q, row, of)
  BY <1>1, <1>2, <1>4 DEF ParamsOK, FormPairs, Blank
<1> QED
  BY <1>3, <1>4, <1>5, ArriveKeeps DEF b, q

LEMMA NewForAgent ==
  ASSUME KInv, NEW r \in Reqs, NEW k \in {"delete_iot", "reset_password_iot", "api_iot_update",
            "api_iot_delete", "delete_pep", "reset_password_pep"},
         NEW u \in Users, NEW a \in Apps, NEW x \in Agents \cup Proxies,
         x \in Agents <=> k \notin {"delete_pep", "reset_password_pep"},
         Arrive(r, [Opened(k, u) EXCEPT !.app = a, !.who = x])
  PROVE  KInv'
<1> DEFINE b == Opened(k, u)
           q == [b EXCEPT !.app = a, !.who = x]
<1>1. Blank(b, k, u)
  BY OpenedIsBlank DEF AllKinds
<1> HIDE DEF b
<1>2. x \in Ids
  BY DEF Ids
<1>3. q \in ReqType
  BY <1>1, <1>2 DEF Blank, ReqType
<1>4. q.st = "load" /\ q.kind = k /\ q.by = u /\ q.app = a /\ q.who = x
  BY <1>1, <1>2 DEF Blank, ReqType
<1> HIDE DEF q
<1>5. ParamsOK(q, row, of) /\ q.kind \notin Makers
  BY <1>1, <1>2, <1>4 DEF ParamsOK, FormPairs, Blank
<1> QED
  BY <1>3, <1>4, <1>5, ArriveKeeps DEF b, q

LEMMA NewTrustedForm ==
  ASSUME KInv, NEW r \in Reqs, NEW k \in {"authorize_trusted_applications"},
         NEW u \in Users, NEW a \in Apps, NEW form \in SUBSET Apps,
         Arrive(r, [Opened(k, u) EXCEPT !.app = a, !.form = form])
  PROVE  KInv'
<1> DEFINE b == Opened(k, u)
           q == [b EXCEPT !.app = a, !.form = form]
<1>1. Blank(b, k, u)
  BY OpenedIsBlank DEF AllKinds
<1> HIDE DEF b
<1>2. form \in SUBSET Posted
  BY DEF Posted
<1>3. q \in ReqType
  BY <1>1, <1>2 DEF Blank, ReqType
<1>4. q.st = "load" /\ q.kind = k /\ q.by = u /\ q.app = a /\ q.form = form
  BY <1>1, <1>2 DEF Blank, ReqType
<1> HIDE DEF q
<1>5. ParamsOK(q, row, of) /\ q.kind \notin Makers
  BY <1>1, <1>2, <1>4 DEF ParamsOK, FormPairs, Blank
<1> QED
  BY <1>3, <1>4, <1>5, ArriveKeeps DEF b, q

LEMMA NewForTrusted ==
  ASSUME KInv, NEW r \in Reqs, NEW k \in {"addTrusted", "removeTrusted"},
         NEW u \in Users, NEW a \in Apps, NEW w \in Apps,
         Arrive(r, [Opened(k, u) EXCEPT !.app = a, !.who = w])
  PROVE  KInv'
<1> DEFINE b == Opened(k, u)
           q == [b EXCEPT !.app = a, !.who = w]
<1>1. Blank(b, k, u)
  BY OpenedIsBlank DEF AllKinds
<1> HIDE DEF b
<1>2. w \in Ids
  BY DEF Ids
<1>3. q \in ReqType
  BY <1>1, <1>2 DEF Blank, ReqType
<1>4. q.st = "load" /\ q.kind = k /\ q.by = u /\ q.app = a /\ q.who = w
  BY <1>1, <1>2 DEF Blank, ReqType
<1> HIDE DEF q
<1>5. ParamsOK(q, row, of) /\ q.kind \notin Makers
  BY <1>1, <1>2, <1>4 DEF ParamsOK, FormPairs, Blank
<1> QED
  BY <1>3, <1>4, <1>5, ArriveKeeps DEF b, q

LEMMA NewForRole ==
  ASSUME KInv, NEW r \in Reqs, NEW k \in {"role_edit", "role_delete", "api_role_update",
            "api_role_delete"},
         NEW u \in Users, NEW a \in Apps, NEW x \in AnyRole,
         k \in ApiRolesKinds => x \in RolesOf(a),
         Arrive(r, [Opened(k, u) EXCEPT !.app = a, !.role = x])
  PROVE  KInv'
<1> DEFINE b == Opened(k, u)
           q == [b EXCEPT !.app = a, !.role = x]
<1>1. Blank(b, k, u)
  BY OpenedIsBlank DEF AllKinds
<1> HIDE DEF b
<1>2. x \in AllRoles /\ (k \in ApiRolesKinds => Known(x, a, row, of))
  BY DEF AnyRole, RolesOf, AllRoles, Known, Here
<1>3. q \in ReqType
  BY <1>1, <1>2 DEF Blank, ReqType
<1>4. q.st = "load" /\ q.kind = k /\ q.by = u /\ q.app = a /\ q.role = x
  BY <1>1, <1>2 DEF Blank, ReqType
<1> HIDE DEF q
<1>5. ParamsOK(q, row, of) /\ q.kind \notin Makers
  BY <1>1, <1>2, <1>4 DEF ParamsOK, FormPairs, Blank
<1> QED
  BY <1>3, <1>4, <1>5, ArriveKeeps DEF b, q

LEMMA NewForPermission ==
  ASSUME KInv, NEW r \in Reqs, NEW k \in {"permission_edit", "permission_delete",
            "api_permission_update", "api_permission_delete"},
         NEW u \in Users, NEW a \in Apps, NEW p \in AnyPerm,
         k \in ApiRolesKinds => p \in Offered(a),
         Arrive(r, [Opened(k, u) EXCEPT !.app = a, !.perm = p])
  PROVE  KInv'
<1> DEFINE b == Opened(k, u)
           q == [b EXCEPT !.app = a, !.perm = p]
<1>1. Blank(b, k, u)
  BY OpenedIsBlank DEF AllKinds
<1> HIDE DEF b
<1>2. p \in AllPerms /\ (k \in ApiRolesKinds => Known(p, a, row, of))
  BY DEF AnyPerm, Offered, OwnPerms, AllPerms, Standard, Known, Here
<1>3. q \in ReqType
  BY <1>1, <1>2 DEF Blank, ReqType
<1>4. q.st = "load" /\ q.kind = k /\ q.by = u /\ q.app = a /\ q.perm = p
  BY <1>1, <1>2 DEF Blank, ReqType
<1> HIDE DEF q
<1>5. ParamsOK(q, row, of) /\ q.kind \notin Makers
  BY <1>1, <1>2, <1>4 DEF ParamsOK, FormPairs, Blank
<1> QED
  BY <1>3, <1>4, <1>5, ArriveKeeps DEF b, q

LEMMA NewForGrant ==
  ASSUME KInv, NEW r \in Reqs, NEW k \in {"api_grant_create", "api_grant_delete"},
         NEW u \in Users, NEW a \in Apps, NEW x \in RolesOf(a),
         NEW p \in Offered(a),
         Arrive(r, [Opened(k, u) EXCEPT !.app = a, !.role = x, !.perm = p])
  PROVE  KInv'
<1> DEFINE b == Opened(k, u)
           q == [b EXCEPT !.app = a, !.role = x, !.perm = p]
<1>1. Blank(b, k, u)
  BY OpenedIsBlank DEF AllKinds
<1> HIDE DEF b
<1>2. x \in AllRoles /\ Known(x, a, row, of)
      /\ p \in AllPerms /\ Known(p, a, row, of)
  BY DEF RolesOf, AllRoles, Offered, OwnPerms, AllPerms, Standard, Known, Here
<1>3. q \in ReqType
  BY <1>1, <1>2 DEF Blank, ReqType
<1>4. q.st = "load" /\ q.kind = k /\ q.by = u /\ q.app = a
      /\ q.role = x /\ q.perm = p
  BY <1>1, <1>2 DEF Blank, ReqType
<1> HIDE DEF q
<1>5. ParamsOK(q, row, of) /\ q.kind \notin Makers
  BY <1>1, <1>2, <1>4 DEF ParamsOK, FormPairs, Blank
<1> QED
  BY <1>3, <1>4, <1>5, ArriveKeeps DEF b, q

LEMMA NewForUserRole ==
  ASSUME KInv, NEW r \in Reqs, NEW k \in {"api_user_addRole", "api_user_removeRole"},
         NEW u \in Users, NEW a \in Apps, NEW x \in RolesOf(a), NEW w \in Users,
         Arrive(r, [Opened(k, u) EXCEPT !.app = a, !.role = x, !.who = w])
  PROVE  KInv'
<1> DEFINE b == Opened(k, u)
           q == [b EXCEPT !.app = a, !.role = x, !.who = w]
<1>1. Blank(b, k, u)
  BY OpenedIsBlank DEF AllKinds
<1> HIDE DEF b
<1>2. x \in AllRoles /\ Known(x, a, row, of) /\ w \in Ids
  BY DEF RolesOf, AllRoles, Known, Here, Ids
<1>3. q \in ReqType
  BY <1>1, <1>2 DEF Blank, ReqType
<1>4. q.st = "load" /\ q.kind = k /\ q.by = u /\ q.app = a
      /\ q.role = x /\ q.who = w /\ q.org = None
  BY <1>1, <1>2 DEF Blank, ReqType
<1> HIDE DEF q
<1>5. ParamsOK(q, row, of) /\ q.kind \notin Makers
  BY <1>1, <1>2, <1>4 DEF ParamsOK, FormPairs, Blank
<1> QED
  BY <1>3, <1>4, <1>5, ArriveKeeps DEF b, q

LEMMA NewForOrgRole ==
  ASSUME KInv, NEW r \in Reqs, NEW k \in {"api_org_role_addRole", "api_org_role_removeRole"},
         NEW u \in Users, NEW a \in Apps, NEW x \in RolesOf(a), NEW o \in Orgs,
         NEW h \in MemberRoles,
         Arrive(r, [Opened(k, u) EXCEPT !.app = a, !.role = x, !.org = o, !.how = h])
  PROVE  KInv'
<1> DEFINE b == Opened(k, u)
           q == [b EXCEPT !.app = a, !.role = x, !.org = o, !.how = h]
<1>1. Blank(b, k, u)
  BY OpenedIsBlank DEF AllKinds
<1> HIDE DEF b
<1>2. x \in AllRoles /\ Known(x, a, row, of)
  BY DEF RolesOf, AllRoles, Known, Here
<1>3. q \in ReqType
  BY <1>1, <1>2 DEF Blank, ReqType
<1>4. q.st = "load" /\ q.kind = k /\ q.by = u /\ q.app = a
      /\ q.role = x /\ q.org = o /\ q.how = h
  BY <1>1, <1>2 DEF Blank, ReqType
<1> HIDE DEF q
<1>5. ParamsOK(q, row, of) /\ q.kind \notin Makers
  BY <1>1, <1>2, <1>4 DEF ParamsOK, FormPairs, Blank
<1> QED
  BY <1>3, <1>4, <1>5, ArriveKeeps DEF b, q

LEMMA NewGrantForm ==
  ASSUME KInv, NEW r \in Reqs, NEW k \in {"role_permissions_assign"},
         NEW u \in Users, NEW a \in Apps, NEW form \in SUBSET Posted,
         Arrive(r, [Opened(k, u) EXCEPT !.app = a, !.form = form])
  PROVE  KInv'
<1> DEFINE b == Opened(k, u)
           q == [b EXCEPT !.app = a, !.form = form]
<1>1. Blank(b, k, u)
  BY OpenedIsBlank DEF AllKinds
<1> HIDE DEF b
<1>2. q \in ReqType
  BY <1>1 DEF Blank, ReqType
<1>3. q.st = "load" /\ q.kind = k /\ q.by = u /\ q.app = a /\ q.form = form
  BY <1>1 DEF Blank, ReqType
<1> HIDE DEF q
<1>4. ParamsOK(q, row, of) /\ q.kind \notin Makers
  BY <1>1, <1>3 DEF ParamsOK, FormPairs, Blank
<1> QED
  BY <1>2, <1>3, <1>4, ArriveKeeps DEF b, q

LEMMA NewAssignForm ==
  ASSUME KInv, NEW r \in Reqs, NEW k \in {"authorize_users", "authorize_organizations"},
         NEW u \in Users, NEW a \in Apps,
         NEW form \in SUBSET [to : Holders, role : AllRoles],
         Arrive(r, [Opened(k, u) EXCEPT !.app = a, !.form = form])
  PROVE  KInv'
<1> DEFINE b == Opened(k, u)
           q == [b EXCEPT !.app = a, !.form = form]
<1>1. Blank(b, k, u)
  BY OpenedIsBlank DEF AllKinds
<1> HIDE DEF b
<1>2. form \in SUBSET Posted
  BY DEF Posted
<1>3. q \in ReqType
  BY <1>1, <1>2 DEF Blank, ReqType
<1>4. q.st = "load" /\ q.kind = k /\ q.by = u /\ q.app = a /\ q.form = form
  BY <1>1, <1>2 DEF Blank, ReqType
<1> HIDE DEF q
<1>5. ParamsOK(q, row, of) /\ q.kind \notin Makers
  BY <1>1, <1>2, <1>4 DEF ParamsOK, FormPairs, Blank
<1> QED
  BY <1>3, <1>4, <1>5, ArriveKeeps DEF b, q

LEMMA NewResource ==
  ASSUME KInv, NEW r \in Reqs, NEW k \in {"resource_request"},
         NEW u \in Users, NEW a \in Apps, NEW w \in Apps \cup {None},
         NEW form \in SUBSET Perms,
         Arrive(r, [Opened(k, u) EXCEPT !.app = a, !.who = w, !.form = form])
  PROVE  KInv'
<1> DEFINE b == Opened(k, u)
           q == [b EXCEPT !.app = a, !.who = w, !.form = form]
<1>1. Blank(b, k, u)
  BY OpenedIsBlank DEF AllKinds
<1> HIDE DEF b
<1>2. form \in SUBSET Posted /\ w \in Ids \cup {None}
  BY DEF Posted, Ids
<1>3. q \in ReqType
  BY <1>1, <1>2 DEF Blank, ReqType
<1>4. q.st = "load" /\ q.kind = k /\ q.by = u /\ q.app = a
  BY <1>1, <1>2 DEF Blank, ReqType
<1> HIDE DEF q
<1>5. ParamsOK(q, row, of) /\ q.kind \notin Makers
  BY <1>1, <1>2, <1>4 DEF ParamsOK, FormPairs, Blank
<1> QED
  BY <1>3, <1>4, <1>5, ArriveKeeps DEF b, q

HIDE DEF OrgKinds, OpenKinds, AppKinds, DecisionKinds, AppMakers, OrgMakers,
    WebRolesKinds, WebAssignKinds, WebManageKinds, ApiAppKinds, ApiRolesKinds,
    ApiAssignKinds, ApiManageKinds, RoleMakers, PermMakers, AgentMakers, ProxyMakers,
    RoleNamers, PermNamers, Makers

LEMMA NewOrgKeeps == ASSUME KInv, NEW r \in Reqs, NewOrgRequest(r) PROVE KInv'
<1>1. ASSUME NEW k \in {"org_create", "api_org_create"}, NEW u \in Users, NEW o \in Free(Orgs),
             Arrive(r, [Opened(k, u) EXCEPT !.st = "go", !.org = o])
      PROVE  KInv'
  BY <1>1, NewOrgCreate DEF OrgMakers, Free
<1>2. ASSUME NEW k \in {"org_update_info", "org_destroy", "org_remove", "api_org_update",
                        "api_org_delete"}, NEW u \in Users, NEW o \in Orgs,
             Arrive(r, [Opened(k, u) EXCEPT !.org = o])
      PROVE  KInv'
  BY <1>2, NewForOrg
<1>3. ASSUME NEW u \in Users, NEW o \in Orgs, NEW form \in MemberForms,
             Arrive(r, [Opened("add_members", u) EXCEPT !.org = o, !.form = form])
      PROVE  KInv'
  BY <1>3, NewMembersForm
<1>4. ASSUME NEW k \in {"addRole", "removeRole"}, NEW u \in Users, NEW w \in Users,
             NEW o \in Orgs, NEW h \in MemberRoles,
             Arrive(r, [Opened(k, u) EXCEPT !.org = o, !.who = w, !.how = h])
      PROVE  KInv'
  BY <1>4, NewForMember
<1>5. ASSUME NEW u \in Users, NEW form \in SUBSET Users,
             Arrive(r, [Opened("update_administrators", u) EXCEPT !.st = "go", !.form = form])
      PROVE  KInv'
  BY <1>5, NewAdministrators
<1> QED
  BY <1>1, <1>2, <1>3, <1>4, <1>5, Zenon DEF NewOrgRequest

LEMMA NewAppKeeps == ASSUME KInv, NEW r \in Reqs, NewAppRequest(r) PROVE KInv'
<1>1. ASSUME NEW k \in {"app_create", "api_app_create"}, NEW u \in Users, NEW a \in Free(Apps),
             NEW o \in Orgs \cup {None}, NEW t \in {"kept", "jwt"},
             o # None => k = "app_create" /\ Here(o),
             Arrive(r, [Opened(k, u) EXCEPT !.st = "go", !.app = a, !.org = o, !.types = t])
      PROVE  KInv'
  BY <1>1, NewAppCreate DEF AppMakers, Free
<1>2. ASSUME NEW k \in {"app_update_info", "change_token_type", "api_app_update"},
             NEW u \in Users, NEW a \in Apps, NEW t \in {"kept", "bearer", "jwt"},
             Arrive(r, [Opened(k, u) EXCEPT !.app = a, !.types = t])
      PROVE  KInv'
  BY <1>2, NewForApp
<1>3. ASSUME NEW k \in {"reset_jwt_secret", "app_destroy", "api_app_delete",
                 "api_pep_update", "api_pep_delete"}, NEW u \in Users, NEW a \in Apps,
             Arrive(r, [Opened(k, u) EXCEPT !.app = a])
      PROVE  KInv'
  BY <1>3, NewForAppOnly
<1>4. ASSUME NEW u \in Users, NEW a \in Apps, NEW x \in Free(Agents \cup Proxies),
             \A s \in Reqs : req[s].who # x,
             NEW k \in IF x \in Agents THEN {"register_iot", "api_iot_create"}
                       ELSE {"register_pep", "api_pep_create"},
             Arrive(r, [Opened(k, u) EXCEPT !.app = a, !.who = x])
      PROVE  KInv'
  <2>1. x \in Owned /\ row[x] = "free"
    BY DEF Owned, Free
  <2>2. /\ k \in Makers /\ k \notin RoleMakers /\ k \notin PermMakers
        /\ k \in AgentMakers => x \in Agents
        /\ k \in ProxyMakers => x \in Proxies
    BY <1>4 DEF Makers, RoleMakers, PermMakers, AgentMakers, ProxyMakers, Free
  <2> QED
    BY <1>4, <2>1, <2>2, NewMaker
<1>5. ASSUME NEW u \in Users, NEW a \in Apps, NEW x \in Agents \cup Proxies,
             NEW k \in IF x \in Agents
                       THEN {"delete_iot", "reset_password_iot", "api_iot_update",
                             "api_iot_delete"}
                       ELSE {"delete_pep", "reset_password_pep"},
             Arrive(r, [Opened(k, u) EXCEPT !.app = a, !.who = x])
      PROVE  KInv'
  <2>1. /\ k \in {"delete_iot", "reset_password_iot", "api_iot_update",
                  "api_iot_delete", "delete_pep", "reset_password_pep"}
        /\ x \in Agents <=> k \notin {"delete_pep", "reset_password_pep"}
    BY <1>5
  <2> QED
    BY <1>5, <2>1, NewForAgent
<1>6. ASSUME NEW u \in Users, NEW a \in Apps, NEW form \in SUBSET Apps,
             Arrive(r, [Opened("authorize_trusted_applications", u)
                          EXCEPT !.app = a, !.form = form])
      PROVE  KInv'
  BY <1>6, NewTrustedForm
<1>7. ASSUME NEW k \in {"addTrusted", "removeTrusted"}, NEW u \in Users, NEW a \in Apps,
             NEW b \in Apps, Arrive(r, [Opened(k, u) EXCEPT !.app = a, !.who = b])
      PROVE  KInv'
  BY <1>7, NewForTrusted
<1> QED
  BY <1>1, <1>2, <1>3, <1>4, <1>5, <1>6, <1>7, Zenon DEF NewAppRequest

LEMMA GrantFormFits ==
  ASSUME NEW form \in GrantForms
  PROVE  form \in SUBSET Posted
<1>0. PICK keys \in SUBSET (AnyRole \ Internal) :
         \E pairs \in Forms([role : keys, perm : AnyPerm]) : form = keys \cup pairs
  BY DEF GrantForms
<1>1. PICK pairs \in Forms([role : keys, perm : AnyPerm]) : form = keys \cup pairs
  BY <1>0
<1>2. pairs \subseteq [role : keys, perm : AnyPerm]
  BY DEF Forms
<1>3. keys \subseteq Roles
  BY DEF AnyRole
<1>4. AnyPerm \subseteq AllPerms
  BY DEF AnyPerm, AllPerms, Standard
<1>6. pairs \subseteq Grantable
  BY <1>2, <1>3, <1>4 DEF Grantable
<1> QED
  BY <1>1, <1>3, <1>6 DEF Posted

LEMMA AssignFormFits ==
  ASSUME NEW hs \in SUBSET Holders, NEW form \in Forms([to : hs, role : AnyRole])
  PROVE  form \in SUBSET [to : Holders, role : AllRoles]
<1>1. form \subseteq [to : hs, role : AnyRole]
  BY DEF Forms
<1>2. AnyRole \subseteq AllRoles
  BY DEF AnyRole, AllRoles
<1> QED
  BY <1>1, <1>2

LEMMA HoldersFit == UserHolders \in SUBSET Holders /\ OrgHolders \in SUBSET Holders
  BY DEF UserHolders, OrgHolders, Holders, OfUser, OfOrg

LEMMA NewRoleKeeps == ASSUME KInv, NEW r \in Reqs, NewRoleRequest(r) PROVE KInv'
<1>0. PICK u \in Users, a \in Apps :
       \/ \E x \in Free(Roles \cup Perms) :
               /\ \A s \in Reqs : req[s].who # x
               /\ \E k \in IF x \in Roles THEN {"role_create", "api_role_create"}
                           ELSE {"permission_create", "api_permission_create"} :
                     Arrive(r, [Opened(k, u) EXCEPT !.app = a, !.who = x])
       \/ \E x \in AnyRole, k \in {"role_edit", "role_delete", "api_role_update",
                                      "api_role_delete"} :
                /\ k \in ApiRolesKinds => x \in RolesOf(a)
                /\ Arrive(r, [Opened(k, u) EXCEPT !.app = a, !.role = x])
       \/ \E p \in AnyPerm, k \in {"permission_edit", "permission_delete",
                         "api_permission_update", "api_permission_delete"} :
                /\ k \in ApiRolesKinds => p \in Offered(a)
                /\ Arrive(r, [Opened(k, u) EXCEPT !.app = a, !.perm = p])
       \/ \E k \in {"api_grant_create", "api_grant_delete"},
               x \in RolesOf(a), p \in Offered(a) :
                Arrive(r, [Opened(k, u) EXCEPT !.app = a, !.role = x, !.perm = p])
       \/ \E form \in GrantForms :
                Arrive(r, [Opened("role_permissions_assign", u)
                             EXCEPT !.app = a, !.form = form])
       \/ \E form \in Forms([to : UserHolders, role : AnyRole]) :
                Arrive(r, [Opened("authorize_users", u)
                             EXCEPT !.app = a, !.form = form])
       \/ \E form \in Forms([to : OrgHolders, role : AnyRole]) :
                Arrive(r, [Opened("authorize_organizations", u)
                             EXCEPT !.app = a, !.form = form])
       \/ \E k \in {"api_user_addRole", "api_user_removeRole"},
               x \in RolesOf(a), w \in Users :
                /\ Here(w)
                /\ Arrive(r, [Opened(k, u) EXCEPT !.app = a, !.role = x, !.who = w])
       \/ \E k \in {"api_org_role_addRole", "api_org_role_removeRole"},
               x \in RolesOf(a), o \in Orgs, h \in MemberRoles :
                /\ Here(o)
                /\ Arrive(r, [Opened(k, u) EXCEPT !.app = a, !.role = x,
                                                  !.org = o, !.how = h])
  BY Zenon DEF NewRoleRequest
<1>1. ASSUME NEW x \in Free(Roles \cup Perms), \A s \in Reqs : req[s].who # x,
             NEW k \in IF x \in Roles THEN {"role_create", "api_role_create"}
                       ELSE {"permission_create", "api_permission_create"},
             Arrive(r, [Opened(k, u) EXCEPT !.app = a, !.who = x])
      PROVE  KInv'
  <2>1. x \in Owned /\ row[x] = "free"
    BY DEF Owned, Free
  <2>2. /\ k \in Makers /\ k \notin AgentMakers /\ k \notin ProxyMakers
        /\ k \in RoleMakers => x \in Roles
        /\ k \in PermMakers => x \in Perms
    BY <1>1 DEF Makers, RoleMakers, PermMakers, AgentMakers, ProxyMakers, Free
  <2> QED
    BY <1>1, <2>1, <2>2, NewMaker
<1>2. ASSUME NEW form \in GrantForms,
             Arrive(r, [Opened("role_permissions_assign", u) EXCEPT !.app = a, !.form = form])
      PROVE  KInv'
  BY <1>2, GrantFormFits, NewGrantForm
<1>3. ASSUME NEW form \in Forms([to : UserHolders, role : AnyRole]),
             Arrive(r, [Opened("authorize_users", u) EXCEPT !.app = a, !.form = form])
      PROVE  KInv'
  BY <1>3, HoldersFit, AssignFormFits, NewAssignForm
<1>4. ASSUME NEW form \in Forms([to : OrgHolders, role : AnyRole]),
             Arrive(r, [Opened("authorize_organizations", u) EXCEPT !.app = a, !.form = form])
      PROVE  KInv'
  BY <1>4, HoldersFit, AssignFormFits, NewAssignForm
<1>5. ASSUME NEW k \in {"role_edit", "role_delete", "api_role_update", "api_role_delete"},
             NEW x \in AnyRole, k \in ApiRolesKinds => x \in RolesOf(a),
             Arrive(r, [Opened(k, u) EXCEPT !.app = a, !.role = x])
      PROVE  KInv'
  BY <1>5, NewForRole
<1>6. ASSUME NEW k \in {"permission_edit", "permission_delete",
                       "api_permission_update", "api_permission_delete"},
             NEW p \in AnyPerm, k \in ApiRolesKinds => p \in Offered(a),
             Arrive(r, [Opened(k, u) EXCEPT !.app = a, !.perm = p])
      PROVE  KInv'
  BY <1>6, NewForPermission
<1>7. ASSUME NEW k \in {"api_grant_create", "api_grant_delete"}, NEW x \in RolesOf(a),
             NEW p \in Offered(a),
             Arrive(r, [Opened(k, u) EXCEPT !.app = a, !.role = x, !.perm = p])
      PROVE  KInv'
  BY <1>7, NewForGrant
<1>8. ASSUME NEW k \in {"api_user_addRole", "api_user_removeRole"}, NEW x \in RolesOf(a),
             NEW w \in Users,
             Arrive(r, [Opened(k, u) EXCEPT !.app = a, !.role = x, !.who = w])
      PROVE  KInv'
  BY <1>8, NewForUserRole
<1>9. ASSUME NEW k \in {"api_org_role_addRole", "api_org_role_removeRole"},
             NEW x \in RolesOf(a), NEW o \in Orgs, NEW h \in MemberRoles,
             Arrive(r, [Opened(k, u) EXCEPT !.app = a, !.role = x, !.org = o, !.how = h])
      PROVE  KInv'
  BY <1>9, NewForOrgRole
<1> QED
  BY <1>0, <1>1, <1>2, <1>3, <1>4, <1>5, <1>6, <1>7, <1>8, <1>9, Zenon

LEMMA NewDecisionKeeps == ASSUME KInv, NEW r \in Reqs, NewDecision(r) PROVE KInv'
<1>1. ASSUME NEW u \in Users, NEW a \in Apps, NEW match \in {{}} \cup {{p} : p \in OwnPerms(a)},
             NEW b \in {None} \cup {b \in Apps : Here(b)},
             Arrive(r, [Opened("resource_request", u) EXCEPT
                             !.app = a, !.who = b, !.form = match])
      PROVE  KInv'
  <2>1. match \in SUBSET Perms /\ b \in Apps \cup {None}
    BY DEF OwnPerms
  <2> QED
    BY <1>1, <2>1, NewResource
<1>2. ASSUME NEW u \in Users, NEW a \in Apps,
             Arrive(r, [Opened("access_token_info", u) EXCEPT !.app = a])
      PROVE  KInv'
  BY <1>2, NewForAppOnly
<1> QED
  BY <1>1, <1>2, Zenon DEF NewDecision

LEMMA StepNewRequest == ASSUME KInv, NEW r \in Reqs, NewRequest(r) PROVE KInv'
  BY NewOrgKeeps, NewAppKeeps, NewRoleKeeps, NewDecisionKeeps DEF NewRequest

-----------------------------------------------------------------------------
(* What the statements of the handlers do to the tables. *)

\* A statement on the tables that link rows: what it adds fits.
LEMMA LinksKeep ==
  ASSUME TablesOK, UNCHANGED <<row, of>>,
         \A m \in member' \ member : m \in MemberRow /\ Here(m.org) /\ Here(m.user),
         fresh' \in 1..(MaxRows + 1),
         assign' \in [Assignable -> Nat],
         \A k \in Assignable : assign'[k] > 0 =>
            \/ assign[k] > 0
            \/ Here(k.app) /\ Belongs(k.role, k.app) /\ Exists({k.to.user, k.to.org}),
         grant' \in [Grantable -> Nat],
         \A k \in Grantable : grant'[k] > 0 =>
            grant[k] > 0 \/ Exists({k.role, k.perm}),
         \A t \in trust' \ trust :
            t \in Apps \X Apps /\ Here(t[1]) /\ Here(t[2]) /\ t[1] # t[2],
         \A u \in admin' \ admin : u \in Users /\ Here(u),
         token' \in [Apps -> [jwt : BOOLEAN, openid : BOOLEAN, secret : BOOLEAN]],
         pass' \in [Agents \cup Proxies -> Reqs \cup {None}]
  PROVE  TablesOK' /\ Advance
<1>1. Advance
  BY AdvanceSame
<1>2. TablesType'
  BY DEF TablesOK, TablesType
<1>3. OfFits' /\ MemberFits' /\ TrustFits' /\ AdminFits'
  BY DEF TablesOK, OfFits, MemberFits, TrustFits, AdminFits, Here
<1>4. AssignFits'
  BY DEF TablesOK, AssignFits, Here, Belongs, Exists
<1>5. GrantFits'
  BY DEF TablesOK, GrantFits, Here, Exists
<1> QED
  BY <1>1, <1>2, <1>3, <1>4, <1>5 DEF TablesOK

\* The same for one table, the others being left alone.
LEMMA MemberKeeps ==
  ASSUME TablesOK, UNCHANGED <<row, of, assign, grant, trust, admin, token, pass>>,
         \A m \in member' \ member : m \in MemberRow /\ Here(m.org) /\ Here(m.user),
         fresh' \in 1..(MaxRows + 1)
  PROVE  TablesOK' /\ Advance
<1>1. /\ assign' \in [Assignable -> Nat] /\ grant' \in [Grantable -> Nat]
      /\ token' \in [Apps -> [jwt : BOOLEAN, openid : BOOLEAN, secret : BOOLEAN]]
      /\ pass' \in [Agents \cup Proxies -> Reqs \cup {None}]
  BY DEF TablesOK, TablesType
<1> QED
  BY <1>1, LinksKeep

LEMMA AdminKeeps ==
  ASSUME TablesOK, UNCHANGED <<row, of, member, fresh, assign, grant, trust, token, pass>>,
         \A u \in admin' \ admin : u \in Users /\ Here(u)
  PROVE  TablesOK' /\ Advance
<1>1. /\ assign' \in [Assignable -> Nat] /\ grant' \in [Grantable -> Nat]
      /\ token' \in [Apps -> [jwt : BOOLEAN, openid : BOOLEAN, secret : BOOLEAN]]
      /\ pass' \in [Agents \cup Proxies -> Reqs \cup {None}]
      /\ fresh' \in 1..(MaxRows + 1)
  BY DEF TablesOK, TablesType
<1> QED
  BY <1>1, LinksKeep

LEMMA AssignKeeps ==
  ASSUME TablesOK, UNCHANGED <<row, of, member, fresh, grant, trust, admin, token, pass>>,
         assign' \in [Assignable -> Nat],
         \A k \in Assignable : assign'[k] > 0 =>
            \/ assign[k] > 0
            \/ Here(k.app) /\ Belongs(k.role, k.app) /\ Exists({k.to.user, k.to.org})
  PROVE  TablesOK' /\ Advance
<1>1. /\ grant' \in [Grantable -> Nat]
      /\ token' \in [Apps -> [jwt : BOOLEAN, openid : BOOLEAN, secret : BOOLEAN]]
      /\ pass' \in [Agents \cup Proxies -> Reqs \cup {None}]
      /\ fresh' \in 1..(MaxRows + 1)
  BY DEF TablesOK, TablesType
<1> QED
  BY <1>1, LinksKeep

LEMMA GrantKeeps ==
  ASSUME TablesOK, UNCHANGED <<row, of, member, fresh, assign, trust, admin, token, pass>>,
         grant' \in [Grantable -> Nat],
         \A k \in Grantable : grant'[k] > 0 =>
            grant[k] > 0 \/ Exists({k.role, k.perm})
  PROVE  TablesOK' /\ Advance
<1>1. /\ assign' \in [Assignable -> Nat]
      /\ token' \in [Apps -> [jwt : BOOLEAN, openid : BOOLEAN, secret : BOOLEAN]]
      /\ pass' \in [Agents \cup Proxies -> Reqs \cup {None}]
      /\ fresh' \in 1..(MaxRows + 1)
  BY DEF TablesOK, TablesType
<1> QED
  BY <1>1, LinksKeep

LEMMA TrustKeeps ==
  ASSUME TablesOK, UNCHANGED <<row, of, member, fresh, assign, grant, admin, token, pass>>,
         \A t \in trust' \ trust :
            t \in Apps \X Apps /\ Here(t[1]) /\ Here(t[2]) /\ t[1] # t[2]
  PROVE  TablesOK' /\ Advance
<1>1. /\ assign' \in [Assignable -> Nat] /\ grant' \in [Grantable -> Nat]
      /\ token' \in [Apps -> [jwt : BOOLEAN, openid : BOOLEAN, secret : BOOLEAN]]
      /\ pass' \in [Agents \cup Proxies -> Reqs \cup {None}]
      /\ fresh' \in 1..(MaxRows + 1)
  BY DEF TablesOK, TablesType
<1> QED
  BY <1>1, LinksKeep

LEMMA TokenKeeps ==
  ASSUME TablesOK, UNCHANGED <<row, of, member, fresh, assign, grant, trust, admin, pass>>,
         token' \in [Apps -> [jwt : BOOLEAN, openid : BOOLEAN, secret : BOOLEAN]]
  PROVE  TablesOK' /\ Advance
<1>1. /\ assign' \in [Assignable -> Nat] /\ grant' \in [Grantable -> Nat]
      /\ pass' \in [Agents \cup Proxies -> Reqs \cup {None}]
      /\ fresh' \in 1..(MaxRows + 1)
  BY DEF TablesOK, TablesType
<1> QED
  BY <1>1, LinksKeep

LEMMA PassKeeps ==
  ASSUME TablesOK, UNCHANGED <<row, of, member, fresh, assign, grant, trust, admin, token>>,
         pass' \in [Agents \cup Proxies -> Reqs \cup {None}]
  PROVE  TablesOK' /\ Advance
<1>1. /\ assign' \in [Assignable -> Nat] /\ grant' \in [Grantable -> Nat]
      /\ token' \in [Apps -> [jwt : BOOLEAN, openid : BOOLEAN, secret : BOOLEAN]]
      /\ fresh' \in 1..(MaxRows + 1)
  BY DEF TablesOK, TablesType
<1> QED
  BY <1>1, LinksKeep

\* A new organization or application.
LEMMA RowKeeps ==
  ASSUME TablesOK, NEW x \in Orgs \cup Apps, row' = [row EXCEPT ![x] = "here"],
         UNCHANGED <<of, member, fresh, assign, grant, trust, admin, pass>>,
         token' \in [Apps -> [jwt : BOOLEAN, openid : BOOLEAN, secret : BOOLEAN]]
  PROVE  TablesOK' /\ Advance /\ \A y \in Owned : row'[y] = row[y]
<1>1. x \in Ids /\ x \notin Owned /\ TablesType
  BY Apart DEF Ids, TablesOK
<1>2. /\ row' \in [Ids -> {"free", "here", "gone"}] /\ row'[x] = "here"
      /\ \A y \in Ids \ {x} : row'[y] = row[y]
  BY <1>1 DEF TablesType
<1>3. \A y \in Ids : row[y] = "here" => row'[y] = "here"
  BY <1>2
<1>4. TablesType' /\ Advance
  BY <1>1, <1>2 DEF TablesType, Advance, Owned, Ids
<1>5. \A y \in Owned : row'[y] = row[y]
  BY <1>1, <1>2 DEF Owned, Ids
<1>6. OfFits'
  <2> SUFFICES ASSUME NEW y \in Owned
               PROVE  /\ row'[y] # "free" => of'[y] \in Apps
                      /\ row'[y] = "here" => row'[of'[y]] = "here"
    BY DEF OfFits, Here, Owned
  <2>1. (row[y] # "free" => of[y] \in Apps) /\ (row[y] = "here" => row[of[y]] = "here")
    BY DEF TablesOK, OfFits, Here, Owned
  <2> QED
    BY <1>3, <1>5, <2>1 DEF Ids
<1>7. MemberFits' /\ TrustFits' /\ AdminFits'
  BY <1>3 DEF TablesOK, TablesType, MemberFits, TrustFits, AdminFits, Here, MemberRow, Ids
<1>8. AssignFits'
  <2> SUFFICES ASSUME NEW k \in Assignable, assign[k] > 0
               PROVE  row'[k.app] = "here" /\ Belongs(k.role, k.app)'
                      /\ Exists({k.to.user, k.to.org})'
    BY DEF AssignFits, Here
  <2>1. row[k.app] = "here" /\ Belongs(k.role, k.app) /\ Exists({k.to.user, k.to.org})
    BY DEF TablesOK, AssignFits, Here
  <2>2. k.app \in Ids /\ k.role \in AllRoles
    BY DEF Assignable, Ids
  <2>3. Belongs(k.role, k.app)'
    BY <1>3, <2>1, <2>2 DEF Belongs, Here, AllRoles, Ids
  <2>4. Exists({k.to.user, k.to.org})'
    BY <1>3, <2>1 DEF Exists, Here
  <2> QED
    BY <1>3, <2>1, <2>2, <2>3, <2>4
<1>9. GrantFits'
  BY <1>3 DEF TablesOK, GrantFits, Exists, Here, Grantable, AllPerms, Ids
<1> QED
  BY <1>4, <1>5, <1>6, <1>7, <1>8, <1>9 DEF TablesOK

\* A new role, permission, agent or proxy of an application that is there.
LEMMA OwnedKeeps ==
  ASSUME TablesOK, NEW x \in Owned, row[x] = "free", NEW a \in Apps, Here(a),
         row' = [row EXCEPT ![x] = "here"], of' = [of EXCEPT ![x] = a],
         UNCHANGED <<member, fresh, assign, grant, trust, admin, token>>,
         pass' \in [Agents \cup Proxies -> Reqs \cup {None}]
  PROVE  TablesOK' /\ Advance /\ \A y \in Owned \ {x} : row'[y] = row[y]
<1>1. x \in Ids /\ TablesType /\ of \in [Owned -> Apps \cup {None}]
  BY DEF Ids, Owned, TablesOK, TablesType
<1>2. /\ row' \in [Ids -> {"free", "here", "gone"}] /\ row'[x] = "here"
      /\ \A y \in Ids \ {x} : row'[y] = row[y]
  BY <1>1 DEF TablesType
<1>3. of' \in [Owned -> Apps \cup {None}] /\ of'[x] = a /\ \A y \in Owned \ {x} : of'[y] = of[y]
  BY <1>1
<1>4. \A y \in Ids : row[y] = "here" => row'[y] = "here" /\ y # x
  BY <1>2
<1>5. TablesType' /\ Advance
  BY <1>1, <1>2, <1>3 DEF TablesType, Advance, Owned, Ids
<1>6. \A y \in Owned \ {x} : row'[y] = row[y]
  BY <1>2 DEF Owned, Ids
<1>7. OfFits'
  <2> SUFFICES ASSUME NEW y \in Owned
               PROVE  /\ row'[y] # "free" => of'[y] \in Apps
                      /\ row'[y] = "here" => row'[of'[y]] = "here"
    BY DEF OfFits, Here, Owned
  <2>1. (row[y] # "free" => of[y] \in Apps) /\ (row[y] = "here" => row[of[y]] = "here")
    BY DEF TablesOK, OfFits, Here, Owned
  <2>2. row'[a] = "here"
    BY <1>4 DEF Here, Ids
  <2> QED
    BY <1>3, <1>4, <1>6, <2>1, <2>2 DEF Ids
<1>8. MemberFits' /\ TrustFits' /\ AdminFits'
  BY <1>4 DEF TablesOK, TablesType, MemberFits, TrustFits, AdminFits, Here, MemberRow, Ids
<1>9. AssignFits'
  <2> SUFFICES ASSUME NEW k \in Assignable, assign[k] > 0
               PROVE  row'[k.app] = "here" /\ Belongs(k.role, k.app)'
                      /\ Exists({k.to.user, k.to.org})'
    BY DEF AssignFits, Here
  <2>1. row[k.app] = "here" /\ Belongs(k.role, k.app) /\ Exists({k.to.user, k.to.org})
    BY DEF TablesOK, AssignFits, Here
  <2>2. k.app \in Ids /\ k.role \in AllRoles
    BY DEF Assignable, Ids
  <2>3. Belongs(k.role, k.app)'
    BY <1>3, <1>4, <2>1, <2>2 DEF Belongs, Here, AllRoles, Ids, Owned
  <2>4. Exists({k.to.user, k.to.org})'
    BY <1>4, <2>1 DEF Exists, Here
  <2> QED
    BY <1>4, <2>1, <2>2, <2>3, <2>4
<1>10. GrantFits'
  <2> SUFFICES ASSUME NEW k \in Grantable, grant[k] > 0
               PROVE  Exists({k.role, k.perm})'
    BY DEF GrantFits
  <2>1. Exists({k.role, k.perm})
    BY DEF TablesOK, GrantFits
  <2> QED
    BY <1>4, <2>1 DEF Exists, Here
<1> QED
  BY <1>5, <1>6, <1>7, <1>8, <1>9, <1>10 DEF TablesOK

-----------------------------------------------------------------------------
(* Steps of the handlers in general. *)

StageKinds == AppMakers \cup FormKinds
                \cup {"addTrusted", "api_grant_create", "api_pep_update", "api_pep_delete"}

LEMMA StageOther ==
  ASSUME NEW q, q.kind \notin StageKinds, q.kind # "add_members" \/ q.st # "fill",
         NEW rows, NEW ofs
  PROVE  StageOK(q, rows, ofs)
  BY DEF StageOK, StageKinds

LEMMA StageTo ==
  ASSUME NEW q \in ReqType, NEW s \in Stages,
         \/ q.kind \notin StageKinds /\ (q.kind # "add_members" \/ s # "fill")
         \/ s \notin {"fill", "second", "change", "can", "params", "go"}
  PROVE  StageOK([q EXCEPT !.st = s], row, of)
<1>1. [q EXCEPT !.st = s].st = s /\ [q EXCEPT !.st = s].kind = q.kind
  BY NewStage DEF SameParams
<1> QED
  BY <1>1, StageFree, StageOther

\* To a stage that takes nothing for granted.
LEMMA MovedOn ==
  ASSUME KInv, NEW r \in Reqs, NEW s \in Stages,
         req' = [req EXCEPT ![r].st = s], UNCHANGED <<tables, scene>>,
         req[r].st \notin Final,
         \/ req[r].kind \notin StageKinds /\ (req[r].kind # "add_members" \/ s # "fill")
         \/ s \notin {"fill", "second", "change", "can", "params", "go"}
  PROVE  KInv'
<1>1. req[r] \in ReqType
  BY DEF KInv
<1> QED
  BY <1>1, StageTo, MovedKeeps

\* A statement that writes, of one of the kinds that make no rows.
LEMMA WroteOn ==
  ASSUME KInv, NEW r \in Reqs, NEW s \in Stages, Wrote(r, s), req[r].st \notin Final,
         TablesOK', Advance, UNCHANGED row,
         \/ req[r].kind \notin StageKinds /\ (req[r].kind # "add_members" \/ s # "fill")
         \/ s \notin {"fill", "second", "change", "can", "params", "go"}
  PROVE  KInv'
<1>1. req[r] \in ReqType
  BY DEF KInv
<1>2. StageOK([req[r] EXCEPT !.st = s], row, of)
  BY <1>1, StageTo
<1> QED
  BY <1>2, WriteStep

\* A deletion, by the foreign keys.
LEMMA WroteDeletion ==
  ASSUME KInv, NEW r \in Reqs, NEW s \in Final, Wrote(r, s), req[r].st \notin Final,
         NEW X \in SUBSET Ids, Delete(X)
  PROVE  KInv'
<1>1. TablesOK' /\ Advance /\ \A x \in Ids : row[x] = "free" => row'[x] = "free"
  BY DeleteKeeps DEF KInv
<1>2. s \in Stages /\ Owned \subseteq Ids
  BY DEF Stages, Owned, Ids
<1> QED
  BY <1>1, <1>2, WriteStep

-----------------------------------------------------------------------------
(* Organizations. *)

LEMMA StepOwners ==
  ASSUME KInv, NEW r \in Reqs, LoadOrganization(r) \/ OwnersOnly(r) PROVE KInv'
<1>1. PICK s \in {"missing", "go", "owner", "denied", "params"} :
         req' = [req EXCEPT ![r].st = s]
  <2>1. CASE LoadOrganization(r)
    <3> DEFINE next == IF ~Here(req[r].org) THEN "missing"
                       ELSE IF req[r].kind = "org_remove" THEN "go" ELSE "owner"
    <3>1. req' = [req EXCEPT ![r].st = next]
      BY <2>1 DEF LoadOrganization
    <3> QED
      BY <3>1
  <2>2. CASE OwnersOnly(r)
    <3> DEFINE next == IF OwnerRows(req[r].org, req[r].by) = {} THEN "denied"
                       ELSE IF req[r].kind \in {"addRole", "removeRole"}
                       THEN "params" ELSE "go"
    <3>1. req' = [req EXCEPT ![r].st = next]
      BY <2>2 DEF OwnersOnly
    <3> QED
      BY <3>1
  <2> QED
    BY <2>1, <2>2
<1>2. UNCHANGED <<tables, scene>> /\ req[r].st \in {"load", "owner"}
  BY DEF LoadOrganization, OwnersOnly
<1>3. req[r].kind \in OrgKinds \cup {"org_remove"}
  BY DEF LoadOrganization, OwnersOnly
<1>4. req[r].kind \notin StageKinds
  BY <1>3 DEF OrgKinds, StageKinds, AppMakers, FormKinds
<1> QED
  BY <1>1, <1>2, <1>4, MovedOn DEF Stages, Final

LEMMA StepSaveOrganization ==
  ASSUME KInv, NEW r \in Reqs, NEW k \in OrgMakers, SaveOrganization(r, k) PROVE KInv'
<1>1. /\ At(r, k, "go") /\ Wrote(r, "second") /\ row' = [row EXCEPT ![req[r].org] = "here"]
      /\ UNCHANGED <<of, member, fresh, assign, grant, trust, admin, token, pass>>
  BY DEF SaveOrganization
<1>2. req[r].org \in Orgs /\ req[r].st \notin Final /\ req[r].kind \notin StageKinds
  BY <1>1 DEF KInv, ReqsOK, ParamsOK, At, Final, OrgMakers, StageKinds, AppMakers
<1>3. token' \in [Apps -> [jwt : BOOLEAN, openid : BOOLEAN, secret : BOOLEAN]]
  BY <1>1 DEF KInv, TablesOK, TablesType
<1>4. TablesOK' /\ Advance /\ \A y \in Owned : row'[y] = row[y]
  BY <1>1, <1>2, <1>3, RowKeeps DEF KInv
<1>5. req[r] \in ReqType /\ "second" \in Stages
  BY DEF KInv, Stages
<1>6. StageOK([req[r] EXCEPT !.st = "second"], row, of)
  BY <1>2, <1>5, StageTo
<1> QED
  BY <1>1, <1>2, <1>4, <1>5, <1>6, WriteStep

LEMMA StepCreateOwner ==
  ASSUME KInv, NEW r \in Reqs, NEW k \in OrgMakers, NEW failed \in {"hung", "failed"},
         CreateOwner(r, k, failed)
  PROVE  KInv'
<1>1. CASE Ended(r, k, "second", failed)
  BY <1>1, EndedKeeps DEF Final
<1>2. CASE ~Ended(r, k, "second", failed)
  <2> DEFINE m == [id |-> fresh, org |-> req[r].org, user |-> req[r].by, role |-> "owner"]
  <2>1. /\ At(r, k, "second") /\ Exists({req[r].org, req[r].by}) /\ fresh <= MaxRows
        /\ member' = member \cup {m} /\ fresh' = fresh + 1 /\ Wrote(r, "ok")
        /\ UNCHANGED <<row, of, assign, grant, trust, admin, token, pass>>
    BY <1>2 DEF CreateOwner
  <2>2. req[r].org \in Orgs /\ req[r].by \in Users /\ req[r].st \notin Final
    BY <2>1 DEF KInv, ReqsOK, ParamsOK, At, Final, OrgMakers
  <2>3. fresh \in 1..MaxRows /\ fresh' \in 1..(MaxRows + 1)
    BY <2>1, DirectoryAssumption DEF KInv, TablesOK, TablesType
  <2>4. m \in MemberRow /\ Here(m.org) /\ Here(m.user)
    BY <2>1, <2>2, <2>3 DEF MemberRow, MemberRoles, Exists, Ids
  <2> HIDE DEF m
  <2>5. TablesOK' /\ Advance
    BY <2>1, <2>3, <2>4, MemberKeeps DEF KInv
  <2> QED
    BY <2>1, <2>2, <2>5, WroteOn DEF Stages, Final
<1> QED
  BY <1>1, <1>2

LEMMA StepDestroyOrganization ==
  ASSUME KInv, NEW r \in Reqs, DestroyOrganization(r) \/ ApiDeleteOrganization(r) PROVE KInv'
<1>1. Delete({req[r].org}) /\ Wrote(r, "ok") /\ req[r].st = "go"
      /\ req[r].kind \in {"org_destroy", "api_org_delete"}
  BY DEF DestroyOrganization, ApiDeleteOrganization, At
<1>2. {req[r].org} \in SUBSET Ids
  BY <1>1 DEF KInv, ReqsOK, ParamsOK, OrgKinds, Ids
<1> QED
  BY <1>1, <1>2, WroteDeletion DEF Final

\* The stages of the kinds that only delete memberships, and of the dialog.
LEMMA StageOfMembers ==
  ASSUME NEW q, q.kind \in {"org_remove", "add_members", "removeRole"},
         q.kind = "add_members" => OneRoleEach(q.form), NEW rows, NEW ofs
  PROVE  StageOK(q, rows, ofs)
<1>1. CASE q.kind = "add_members"
  BY <1>1 DEF StageOK, AppMakers, FormKinds
<1>2. CASE q.kind = "org_remove"
  BY <1>2, StageOther DEF StageKinds, AppMakers, FormKinds
<1>3. CASE q.kind = "removeRole"
  BY <1>3, StageOther DEF StageKinds, AppMakers, FormKinds
<1> QED
  BY <1>1, <1>2, <1>3

\* Rows of members only go.
LEMMA StepMembersGo ==
  ASSUME KInv, NEW r \in Reqs, Remove(r) \/ DestroyMembers(r) \/ RemoveRole(r) PROVE KInv'
<1>a. CASE Ended(r, "add_members", "go", "failed")
  BY <1>a, EndedKeeps DEF Final
<1> SUFFICES ASSUME ~Ended(r, "add_members", "go", "failed") PROVE KInv'
  BY <1>a
<1>1. PICK s \in {"ok", "failed", "fill", "missing"} : Wrote(r, s)
  <2>1. CASE DestroyMembers(r)
    <3>1. Wrote(r, IF member' = member THEN "failed" ELSE "fill")
      BY <2>1 DEF DestroyMembers
    <3> QED
      BY <3>1
  <2>2. CASE RemoveRole(r)
    <3>1. Wrote(r, IF member' = member THEN "missing" ELSE "ok")
      BY <2>2 DEF RemoveRole
    <3> QED
      BY <3>1
  <2>3. CASE Remove(r)
    BY <2>3 DEF Remove
  <2> QED
    BY <2>1, <2>2, <2>3
<1>2. /\ member' \subseteq member /\ req[r].st = "go"
      /\ req[r].kind \in {"org_remove", "add_members", "removeRole"}
      /\ req[r].kind = "add_members" => OneRoleEach(req[r].form)
      /\ UNCHANGED <<row, of, fresh, assign, grant, trust, admin, token, pass>>
  BY DEF Remove, DestroyMembers, RemoveRole, At
<1>3. fresh' \in 1..(MaxRows + 1)
  BY <1>2 DEF KInv, TablesOK, TablesType
<1>4. TablesOK' /\ Advance
  BY <1>2, <1>3, MemberKeeps DEF KInv
<1>5. s \in Stages /\ req[r].st \notin Final
  BY <1>2 DEF Stages, Final
<1>6. StageOK([req[r] EXCEPT !.st = s], row, of)
  <2>1. req[r] \in ReqType
    BY DEF KInv
  <2>2. SameParams(req[r], [req[r] EXCEPT !.st = s])
    BY <1>5, <2>1, NewStage
  <2> DEFINE q == [req[r] EXCEPT !.st = s]
  <2>3. q.kind = req[r].kind /\ q.form = req[r].form
    BY ONLY <2>2 DEF SameParams
  <2> HIDE DEF q
  <2>4. q.kind \in {"org_remove", "add_members", "removeRole"}
    BY ONLY <1>2, <2>3
  <2>5. q.kind = "add_members" => OneRoleEach(q.form)
    BY ONLY <1>2, <2>3
  <2>6. StageOK(q, row, of)
    BY ONLY <2>4, <2>5, StageOfMembers
  <2> QED
    BY ONLY <2>6 DEF q
<1> QED
  BY <1>1, <1>2, <1>4, <1>5, <1>6, WriteStep

\* The entries of a form are at most the pairs of an account and a role.
LEMMA FormFinite ==
  ASSUME NEW form \in MemberForms PROVE Cardinality(form) \in Nat
<1> DEFINE f == [x \in form |-> <<x.user, x.role>>]
<1>1. IsFiniteSet(Users \X MemberRoles)
  <2>1. IsFiniteSet(MemberRoles)
    <3>1. IsFiniteSet({} \cup {"owner"})
      BY FS_EmptySet, FS_AddElement
    <3>2. IsFiniteSet(({} \cup {"owner"}) \cup {"member"})
      BY <3>1, FS_AddElement
    <3>3. MemberRoles = ({} \cup {"owner"}) \cup {"member"}
      BY DEF MemberRoles
    <3> QED
      BY <3>2, <3>3
  <2> QED
    BY <2>1, FS_Product, DirectoryAssumption
<1>2. f \in Injection(form, Users \X MemberRoles)
  <2>1. f \in [form -> Users \X MemberRoles]
    BY DEF MemberForms
  <2>2. \A x, y \in form : f[x] = f[y] => x = y
    BY DEF MemberForms
  <2> HIDE DEF f
  <2> QED
    BY <2>1, <2>2 DEF Injection, IsInjective
<1> HIDE DEF f
<1>3. IsFiniteSet(form)
  BY <1>1, <1>2, FS_Injection
<1> QED
  BY <1>3, FS_CardinalityType

LEMMA StepCreateMembers ==
  ASSUME KInv, NEW r \in Reqs, CreateMembers(r) PROVE KInv'
<1>1. CASE Ended(r, "add_members", "fill", "failed")
  BY <1>1, EndedKeeps DEF Final
<1>2. CASE ~Ended(r, "add_members", "fill", "failed")
  <2> DEFINE form == req[r].form
             n == Cardinality(form)
  <2>1. /\ At(r, "add_members", "fill") /\ Exists({req[r].org} \cup {f.user : f \in form})
        /\ fresh + n <= MaxRows + 1 /\ fresh' = fresh + n /\ Wrote(r, "ok")
        /\ UNCHANGED <<row, of, assign, grant, trust, admin, token, pass>>
    BY <1>2, Zenon DEF CreateMembers
  <2>2. PICK ids \in [form -> fresh..(fresh + n - 1)] :
           member' = member \cup {[id |-> ids[f], org |-> req[r].org, user |-> f.user,
                                   role |-> f.role] : f \in form}
    BY <1>2, Zenon DEF CreateMembers
  <2>3. req[r].org \in Orgs /\ form \in MemberForms /\ req[r].st \notin Final
        /\ req[r].kind \notin StageKinds
    BY <2>1 DEF KInv, ReqsOK, ParamsOK, At, Final, OrgKinds, StageKinds, AppMakers
  <2>4. n \in Nat /\ fresh \in 1..(MaxRows + 1) /\ MaxRows \in Nat
    BY <2>3, FormFinite, DirectoryAssumption DEF KInv, TablesOK, TablesType
  <2> HIDE DEF n
  <2>5. fresh' \in 1..(MaxRows + 1) /\ \A f \in form : ids[f] \in 1..MaxRows
    BY <2>1, <2>4
  <2>6. \A f \in form : f \in [user : Users, role : MemberRoles]
    BY <2>3 DEF MemberForms
  <2>7. Here(req[r].org) /\ \A f \in form : Here(f.user)
    BY <2>1, <2>3, <2>6 DEF Exists, Ids
  <2> HIDE DEF form
  <2>8. \A m \in member' \ member : m \in MemberRow /\ Here(m.org) /\ Here(m.user)
    BY <2>2, <2>3, <2>5, <2>6, <2>7 DEF MemberRow
  <2>9. TablesOK' /\ Advance
    BY <2>1, <2>5, <2>8, MemberKeeps DEF KInv
  <2> QED
    BY <2>1, <2>3, <2>9, WroteOn DEF Stages, Final
<1> QED
  BY <1>1, <1>2

LEMMA StepReadAdministrators ==
  ASSUME KInv, NEW r \in Reqs, ReadAdministrators(r) PROVE KInv'
<1> DEFINE p == [req[r] EXCEPT !.st = "change"]
           q == [p EXCEPT !.admins = admin]
<1>1. req[r] \in ReqType /\ "change" \in Stages /\ admin \in SUBSET Users
  BY DEF KInv, Stages, TablesOK, TablesType
<1>2. At(r, "update_administrators", "go") /\ req' = [req EXCEPT ![r] = q]
      /\ UNCHANGED <<tables, scene>>
  BY DEF ReadAdministrators, Reading
<1>3. p \in ReqType /\ p.st = "change" /\ SameParams(req[r], p)
  BY <1>1, NewStage
<1> HIDE DEF p
<1>4. q \in ReqType /\ q.st = "change" /\ SameParams(req[r], q)
  BY <1>1, <1>3, NewAdmins, SameTwice
<1> HIDE DEF q
<1>5. StageOK(q, row, of) /\ ~Making(q)
  BY <1>2, <1>4, StageOther DEF SameParams, At, StageKinds, AppMakers, Making, Makers,
     RoleMakers, PermMakers, AgentMakers, ProxyMakers
<1> QED
  BY <1>2, <1>4, <1>5, ReadStep

LEMMA StepAdministrators ==
  ASSUME KInv, NEW r \in Reqs, AddAdministrators(r) \/ RemoveAdministrators(r) PROVE KInv'
<1>1. PICK s \in {"second", "ok"} : Wrote(r, s)
  BY DEF AddAdministrators, RemoveAdministrators
<1>2. /\ req[r].kind = "update_administrators" /\ req[r].st \in {"change", "second"}
      /\ UNCHANGED <<row, of, member, fresh, assign, grant, trust, token, pass>>
      /\ \A u \in admin' \ admin : u \in req[r].form /\ Here(u)
  BY DEF AddAdministrators, RemoveAdministrators, At
<1>3. req[r].form \subseteq Users
  BY <1>2 DEF KInv, ReqsOK, ParamsOK
<1>4. TablesOK' /\ Advance
  BY <1>2, <1>3, AdminKeeps DEF KInv
<1> QED
  BY <1>1, <1>2, <1>4, WroteOn DEF Stages, Final, StageKinds, AppMakers

LEMMA StepFindMember == ASSUME KInv, NEW r \in Reqs, FindMember(r) PROVE KInv'
<1>1. PICK m \in MemberRow \cup {None} :
         Reading(r, "addRole", "go", [req[r] EXCEPT !.st = "change", !.found = m])
  BY DEF FindMember, KInv, TablesOK, TablesType
<1> DEFINE p == [req[r] EXCEPT !.st = "change"]
           q == [p EXCEPT !.found = m]
<1>2. At(r, "addRole", "go") /\ req' = [req EXCEPT ![r] = q] /\ UNCHANGED <<tables, scene>>
  BY <1>1 DEF Reading
<1>3. req[r] \in ReqType /\ "change" \in Stages
  BY DEF KInv, Stages
<1>4. p \in ReqType /\ p.st = "change" /\ SameParams(req[r], p)
  BY <1>3, NewStage
<1> HIDE DEF p
<1>5. q \in ReqType /\ q.st = "change" /\ SameParams(req[r], q)
  BY <1>4, NewFound, SameTwice
<1> HIDE DEF q
<1>6. StageOK(q, row, of) /\ ~Making(q)
  BY <1>2, <1>5, StageOther DEF SameParams, At, StageKinds, AppMakers, Making, Makers,
     RoleMakers, PermMakers, AgentMakers, ProxyMakers
<1> QED
  BY <1>2, <1>5, <1>6, ReadStep

LEMMA StepSaveMember == ASSUME KInv, NEW r \in Reqs, SaveMember(r) PROVE KInv'
<1>1. /\ At(r, "addRole", "change") /\ Wrote(r, "ok")
      /\ member' = {IF m.id = req[r].found.id THEN [m EXCEPT !.role = req[r].how]
                    ELSE m : m \in member}
      /\ UNCHANGED <<row, of, fresh, assign, grant, trust, admin, token, pass>>
  BY DEF SaveMember
<1>2. req[r].how \in MemberRoles /\ req[r].st \notin Final /\ req[r].kind \notin StageKinds
  BY <1>1 DEF KInv, ReqsOK, ParamsOK, At, Final, StageKinds, AppMakers
<1>3. ASSUME NEW n \in member' \ member PROVE n \in MemberRow /\ Here(n.org) /\ Here(n.user)
  <2>1. PICK m \in member : n = [m EXCEPT !.role = req[r].how]
    BY <1>1, <1>3
  <2>2. m \in MemberRow /\ Here(m.org) /\ Here(m.user)
    BY DEF KInv, TablesOK, TablesType, MemberFits
  <2>3. n \in MemberRow /\ n.org = m.org /\ n.user = m.user
    BY <1>2, <2>1, <2>2 DEF MemberRow
  <2> QED
    BY <2>2, <2>3
<1>4. fresh' \in 1..(MaxRows + 1)
  BY <1>1 DEF KInv, TablesOK, TablesType
<1>5. TablesOK' /\ Advance
  BY <1>1, <1>3, <1>4, MemberKeeps DEF KInv
<1> QED
  BY <1>1, <1>2, <1>5, WroteOn DEF Stages, Final

LEMMA StepCreateMember == ASSUME KInv, NEW r \in Reqs, CreateMember(r) PROVE KInv'
<1>1. CASE Ended(r, "addRole", "change", "failed")
  BY <1>1, EndedKeeps DEF Final
<1>2. CASE ~Ended(r, "addRole", "change", "failed")
  <2> DEFINE m == [id |-> fresh, org |-> req[r].org, user |-> req[r].who, role |-> req[r].how]
  <2>1. /\ At(r, "addRole", "change") /\ Exists({req[r].org, req[r].who}) /\ fresh <= MaxRows
        /\ member' = member \cup {m} /\ fresh' = fresh + 1 /\ Wrote(r, "ok")
        /\ UNCHANGED <<row, of, assign, grant, trust, admin, token, pass>>
    BY <1>2 DEF CreateMember
  <2>2. req[r].org \in Orgs /\ req[r].who \in Users /\ req[r].how \in MemberRoles
        /\ req[r].st \notin Final /\ req[r].kind \notin StageKinds
    BY <2>1 DEF KInv, ReqsOK, ParamsOK, At, Final, OrgKinds, StageKinds, AppMakers
  <2>3. fresh \in 1..MaxRows /\ fresh' \in 1..(MaxRows + 1)
    BY <2>1, DirectoryAssumption DEF KInv, TablesOK, TablesType
  <2>4. m \in MemberRow /\ Here(m.org) /\ Here(m.user)
    BY <2>1, <2>2, <2>3 DEF MemberRow, Exists, Ids
  <2> HIDE DEF m
  <2>5. TablesOK' /\ Advance
    BY <2>1, <2>3, <2>4, MemberKeeps DEF KInv
  <2> QED
    BY <2>1, <2>2, <2>5, WroteOn DEF Stages, Final
<1> QED
  BY <1>1, <1>2

LEMMA StepOrganization == ASSUME KInv, NEW r \in Reqs, OrganizationStep(r) PROVE KInv'
<1>1. ASSUME UpdateInfo(r) \/ ApiUpdateOrganization(r) PROVE KInv'
  BY <1>1, EndedKeeps DEF UpdateInfo, ApiUpdateOrganization, Final
<1> QED
  BY <1>1, StepOwners, StepSaveOrganization, StepCreateOwner, StepDestroyOrganization,
     StepMembersGo, StepCreateMembers, StepReadAdministrators, StepAdministrators,
     StepFindMember, StepSaveMember, StepCreateMember DEF OrganizationStep, OrgMakers

-----------------------------------------------------------------------------
(* Applications. *)

LEMMA NewSaved ==
  ASSUME NEW q \in ReqType
  PROVE  /\ [q EXCEPT !.saved = TRUE] \in ReqType /\ [q EXCEPT !.saved = TRUE].st = q.st
         /\ SameParams(q, [q EXCEPT !.saved = TRUE])
<1> DEFINE p == [q EXCEPT !.saved = TRUE]
<1>1. p \in ReqType
  BY DEF ReqType
<1>2. p.st = q.st /\ SameParams(q, p)
  BY DEF ReqType, SameParams
<1> QED
  BY <1>1, <1>2

TokenType == [jwt : BOOLEAN, openid : BOOLEAN, secret : BOOLEAN]

LEMMA StepSaveApplication ==
  ASSUME KInv, NEW r \in Reqs, NEW k \in AppMakers, SaveApplication(r, k) PROVE KInv'
<1> DEFINE stage == IF req[r].st = "go" /\ req[r].org = None THEN "fill" ELSE req[r].st
           p == [req[r] EXCEPT !.saved = TRUE]
           q == [p EXCEPT !.st = stage]
<1>1. /\ req[r].kind = k /\ req[r].st \in {"go", "second", "provider", "change"}
      /\ row' = [row EXCEPT ![req[r].app] = "here"]
      /\ SaveColumns(req[r].app, k, req[r].types)
      /\ UNCHANGED <<of, member, fresh, assign, grant, trust, admin, pass, scene>>
  BY DEF SaveApplication
<1>2. req[r] \in ReqType /\ stage \in Stages
  BY <1>1 DEF KInv, Stages
<1>3. p \in ReqType /\ p.st = req[r].st /\ SameParams(req[r], p)
  BY <1>2, NewSaved
<1>4. req' = [s \in Reqs |-> IF s = r THEN q ELSE [req[s] EXCEPT !.quiet = FALSE]]
  <2>1. req' = [s \in Reqs |-> IF s = r
          THEN [req[s] EXCEPT !.saved = TRUE,
                              !.st = IF @ = "go" /\ req[s].org = None THEN "fill" ELSE @]
          ELSE [req[s] EXCEPT !.quiet = FALSE]]
    BY DEF SaveApplication
  <2>2. [req[r] EXCEPT !.saved = TRUE,
                       !.st = IF @ = "go" /\ req[r].org = None THEN "fill" ELSE @] = q
    BY <1>3
  <2> HIDE DEF q, p, stage
  <2> QED
    BY <2>1, <2>2
<1> HIDE DEF p
<1>5. q \in ReqType /\ q.st = stage /\ SameParams(req[r], q)
  BY <1>2, <1>3, NewStage, SameTwice
<1> HIDE DEF q
<1>6. StageOK(q, row, of)
  <2>1. StageOK(req[r], row, of)
    BY DEF KInv, ReqsOK
  <2> QED
    BY <1>1, <1>5, <2>1 DEF StageOK, SameParams, AppMakers
<1>7. ~Making(q)
  BY <1>1, <1>5 DEF SameParams, AppMakers, Making, Makers, RoleMakers, PermMakers,
     AgentMakers, ProxyMakers
<1>8. req[r].app \in Apps
  BY <1>1 DEF KInv, ReqsOK, ParamsOK, AppMakers
<1>9. token' \in [Apps -> TokenType]
  <2> DEFINE b == req[r].types = "jwt"
             t == IF k = "app_create"
                  THEN [jwt |-> FALSE, openid |-> b, secret |-> FALSE]
                  ELSE [jwt |-> b, openid |-> FALSE, secret |-> b]
  <2>1. token' = [token EXCEPT ![req[r].app] = t]
    BY <1>1 DEF SaveColumns
  <2>2. b \in BOOLEAN
    OBVIOUS
  <2> HIDE DEF b
  <2>3. t \in TokenType
    BY <2>2 DEF TokenType
  <2>4. token \in [Apps -> TokenType]
    BY DEF KInv, TablesOK, TablesType, TokenType
  <2> HIDE DEF t
  <2> QED
    BY <1>8, <2>1, <2>3, <2>4
<1>10. TablesOK' /\ Advance /\ \A y \in Owned : row'[y] = row[y]
  BY <1>1, <1>8, <1>9, RowKeeps DEF KInv, TokenType
<1> QED
  BY <1>1, <1>4, <1>5, <1>6, <1>7, <1>10, WriteAny

\* Stages of a creation say whose the application is to be.
LEMMA StageOfMaker ==
  ASSUME NEW q \in ReqType, NEW s \in Stages, q.kind \in AppMakers,
         s = "fill" => q.org = None, s = "second" => q.org # None
  PROVE  StageOK([q EXCEPT !.st = s], row, of)
<1>1. [q EXCEPT !.st = s].st = s /\ SameParams(q, [q EXCEPT !.st = s])
  BY NewStage
<1> QED
  BY <1>1 DEF StageOK, SameParams, AppMakers

LEMMA StepProvider ==
  ASSUME KInv, NEW r \in Reqs, AddProvider(r), NEW s \in {"ok", "provider"}, Wrote(r, s),
         NEW k \in AppMakers, NEW st \in {"fill", "second"}, At(r, k, st),
         st = "fill" => Exists({req[r].app, req[r].by}),
         st = "second" => Exists({req[r].app, req[r].org})
  PROVE  KInv'
<1> DEFINE key == ProviderKey(req[r])
<1>1. /\ req[r].app \in Apps /\ req[r].by \in Users /\ req[r].org \in Orgs \cup {None}
      /\ st = "fill" => req[r].org = None
      /\ st = "second" => req[r].org # None
  <2>1. ParamsOK(req[r], row, of) /\ StageOK(req[r], row, of) /\ req[r] \in ReqType
    BY DEF KInv, ReqsOK
  <2>2. req[r].app \in Apps /\ req[r].by \in Users
    BY <2>1 DEF ParamsOK, At, AppMakers
  <2>3. /\ st = "fill" => req[r].org = None
        /\ st = "second" => req[r].org # None
    BY <2>1 DEF StageOK, At
  <2>4. req[r].org \in Orgs \cup {None}
    BY <2>1 DEF ReqType
  <2> QED
    BY <2>2, <2>3, <2>4
<1>2. /\ key.app = req[r].app /\ key.role = "provider"
      /\ key.to = IF req[r].org = None THEN OfUser(req[r].by) ELSE OfOrg(req[r].org, "owner")
      /\ key \in Assignable
  BY <1>1 DEF ProviderKey, Assignable, AllRoles, Internal, Holders, OfUser, OfOrg, MemberRoles
<1>3. assign' = [assign EXCEPT ![key] = @ + 1]
      /\ UNCHANGED <<row, of, member, fresh, grant, trust, admin, token, pass>>
  BY DEF AddProvider
<1> HIDE DEF key
<1>4. Here(key.app) /\ Belongs(key.role, key.app)
  BY <1>1, <1>2 DEF Exists, Ids, Belongs, Internal
<1>5. Exists({key.to.user, key.to.org})
  <2>1. CASE st = "fill"
    <3>1. key.to.user = req[r].by /\ key.to.org = None
      BY <1>1, <1>2, <2>1 DEF OfUser
    <3> QED
      BY <1>1, <2>1, <3>1, Apart DEF Exists
  <2>2. CASE st = "second"
    <3>1. key.to.user = None /\ key.to.org = req[r].org
      BY <1>1, <1>2, <2>2 DEF OfOrg
    <3> QED
      BY <1>1, <2>2, <3>1, Apart DEF Exists
  <2> QED
    BY <2>1, <2>2
<1>6. assign \in [Assignable -> Nat]
  BY DEF KInv, TablesOK, TablesType
<1>7. TablesOK' /\ Advance
  BY <1>2, <1>3, <1>4, <1>5, <1>6, AssignKeeps DEF KInv
<1>8. req[r].st \notin Final
  BY DEF At, Final
<1> QED
  BY <1>3, <1>7, <1>8, WroteOn DEF Stages, Final

LEMMA StepCreateProvider ==
  ASSUME KInv, NEW r \in Reqs, NEW k \in AppMakers, NEW failed \in {"hung", "failed"},
         CreateProvider(r, k, failed)
  PROVE  KInv'
<1>1. CASE Ended(r, k, "fill", failed)
  BY <1>1, EndedKeeps DEF Final
<1>2. CASE ~Ended(r, k, "fill", failed)
  <2>1. At(r, k, "fill") /\ Exists({req[r].app, req[r].by}) /\ AddProvider(r) /\ Wrote(r, "ok")
    BY <1>2 DEF CreateProvider
  <2> QED
    BY <2>1, StepProvider
<1> QED
  BY <1>1, <1>2

LEMMA StepOwnersRow ==
  ASSUME KInv, NEW r \in Reqs, LookUpOwner(r) \/ CreateOwnersRow(r) PROVE KInv'
<1>1. ASSUME NEW s \in {"change", "second"}, NEW st \in {"go", "second"},
             Reading(r, "app_create", st, [req[r] EXCEPT !.st = s]),
             s = "second" => req[r].org # None
      PROVE  KInv'
  <2>1. /\ req[r] \in ReqType /\ s \in Stages /\ req[r].kind = "app_create"
        /\ req' = [req EXCEPT ![r].st = s] /\ UNCHANGED <<tables, scene>>
        /\ req[r].st \notin Final
    BY <1>1 DEF KInv, Reading, At, Stages, Final
  <2>2. StageOK([req[r] EXCEPT !.st = s], row, of)
    BY <1>1, <2>1, StageOfMaker DEF AppMakers
  <2> QED
    BY <2>1, <2>2, MovedKeeps
<1>2. CASE LookUpOwner(r)
  <2> DEFINE s == IF OwnerRows(req[r].org, req[r].by) = {} THEN "change" ELSE "second"
  <2>1. req[r].org # None /\ Reading(r, "app_create", "go", [req[r] EXCEPT !.st = s])
    BY <1>2 DEF LookUpOwner
  <2>2. s \in {"change", "second"}
    OBVIOUS
  <2> HIDE DEF s
  <2> QED
    BY <1>1, <2>1, <2>2
<1>3. CASE CreateOwnersRow(r)
  <2>1. CASE Ended(r, "app_create", "second", "change")
    BY <1>1, <2>1 DEF Ended
  <2>2. CASE ~Ended(r, "app_create", "second", "change")
    <3>1. /\ At(r, "app_create", "second") /\ Exists({req[r].app, req[r].org})
          /\ AddProvider(r) /\ Wrote(r, "provider")
      BY <1>3, <2>2 DEF CreateOwnersRow
    <3> QED
      BY <3>1, StepProvider DEF AppMakers
  <2> QED
    BY <2>1, <2>2
<1> QED
  BY <1>2, <1>3

LEMMA StepDeleteApplication ==
  ASSUME KInv, NEW r \in Reqs,
         DestroyUnowned(r) \/ DestroyApplication(r) \/ ApiDeleteApplication(r)
  PROVE  KInv'
<1>1. PICK s \in {"ok", "failed"} : Wrote(r, s)
  BY DEF DestroyUnowned, DestroyApplication, ApiDeleteApplication
<1>2. Delete({req[r].app}) /\ req[r].st \notin Final
      /\ req[r].kind \in {"app_create", "app_destroy", "api_app_delete"}
  BY DEF DestroyUnowned, DestroyApplication, ApiDeleteApplication, At, Final
<1>3. {req[r].app} \in SUBSET Ids
  BY <1>2 DEF KInv, ReqsOK, ParamsOK, AppMakers, AppKinds, WebManageKinds, ApiAppKinds,
     ApiManageKinds, Ids
<1> QED
  BY <1>1, <1>2, <1>3, WroteDeletion DEF Final

\* The kind of tokens of an application.
LEMMA StepToken ==
  ASSUME KInv, NEW r \in Reqs,
         AppUpdateInfo(r) \/ ChangeTokenType(r) \/ ResetJwtSecret(r) \/ ApiUpdateApplication(r)
  PROVE  KInv'
<1>1. ASSUME NEW k \in {"app_update_info", "change_token_type", "reset_jwt_secret",
                        "api_app_update"}, At(r, k, "go"),
             NEW t \in TokenType, NEW s \in {"ok", "failed"}, SetToken(r, req[r].app, t, s)
      PROVE  KInv'
  <2>1. Wrote(r, s)
        /\ UNCHANGED <<row, of, member, fresh, assign, grant, trust, admin, pass>>
    BY <1>1 DEF SetToken
  <2>2. token' = IF Here(req[r].app) THEN [token EXCEPT ![req[r].app] = t] ELSE token
    BY <1>1 DEF SetToken
  <2>3. token \in [Apps -> TokenType]
    BY DEF KInv, TablesOK, TablesType, TokenType
  <2>4. token' \in [Apps -> TokenType]
    BY <2>2, <2>3
  <2>5. TablesOK' /\ Advance
    BY <2>1, <2>4, TokenKeeps DEF KInv, TokenType
  <2> QED
    BY <1>1, <2>1, <2>5, WroteOn DEF Stages, Final, At
<1>2. \A a \in Apps : token[a] \in TokenType
  BY DEF KInv, TablesOK, TablesType, TokenType
<1>3. req[r].kind \in {"app_update_info", "change_token_type", "reset_jwt_secret",
                       "api_app_update"} => ItsToken(r) \in TokenType
  BY <1>2 DEF KInv, ReqsOK, ParamsOK, ItsToken, AppKinds, WebManageKinds, ApiAppKinds,
     ApiManageKinds
<1>4. ASSUME NEW t \in TokenType, NEW b \in BOOLEAN, NEW c \in BOOLEAN
      PROVE  /\ [t EXCEPT !.openid = b] \in TokenType /\ [t EXCEPT !.secret = b] \in TokenType
             /\ [t EXCEPT !.jwt = b] \in TokenType
             /\ [t EXCEPT !.jwt = b, !.secret = c] \in TokenType
  BY DEF TokenType
<1>5. CASE AppUpdateInfo(r)
  <2> DEFINE b == req[r].types = "jwt"
             t == [ItsToken(r) EXCEPT !.openid = b]
  <2>1. At(r, "app_update_info", "go") /\ SetToken(r, req[r].app, t, "ok")
    BY <1>5 DEF AppUpdateInfo
  <2>2. b \in BOOLEAN /\ ItsToken(r) \in TokenType
    BY <1>3, <2>1 DEF At
  <2> HIDE DEF b
  <2>3. t \in TokenType
    BY <1>4, <2>2
  <2> HIDE DEF t
  <2> QED
    BY <1>1, <2>1, <2>3
<1>6. CASE ChangeTokenType(r)
  <2> DEFINE b == req[r].types = "jwt"
             t == [ItsToken(r) EXCEPT !.jwt = b, !.secret = b]
             s == IF Here(req[r].app) THEN "ok" ELSE "failed"
  <2>1. At(r, "change_token_type", "go") /\ SetToken(r, req[r].app, t, s)
    BY <1>6 DEF ChangeTokenType
  <2>2. b \in BOOLEAN /\ ItsToken(r) \in TokenType /\ s \in {"ok", "failed"}
    BY <1>3, <2>1 DEF At
  <2> HIDE DEF b, s
  <2>3. t \in TokenType
    BY <1>4, <2>2
  <2> HIDE DEF t
  <2> QED
    BY <1>1, <2>1, <2>2, <2>3
<1>7. CASE ResetJwtSecret(r)
  <2>1. CASE Ended(r, "reset_jwt_secret", "go", "refused")
    BY <2>1, EndedKeeps DEF Final
  <2>2. CASE ~Ended(r, "reset_jwt_secret", "go", "refused")
    <3> DEFINE t == [ItsToken(r) EXCEPT !.secret = TRUE]
               s == IF Here(req[r].app) THEN "ok" ELSE "failed"
    <3>1. At(r, "reset_jwt_secret", "go") /\ SetToken(r, req[r].app, t, s)
      BY <1>7, <2>2 DEF ResetJwtSecret
    <3>2. t \in TokenType /\ s \in {"ok", "failed"}
      BY <1>3, <1>4, <3>1 DEF At
    <3> HIDE DEF t, s
    <3> QED
      BY <1>1, <3>1, <3>2
  <2> QED
    BY <2>1, <2>2
<1>8. CASE ApiUpdateApplication(r)
  <2> DEFINE b == req[r].types = "jwt"
             t == IF req[r].types = "kept" THEN [ItsToken(r) EXCEPT !.jwt = req[r].jwt]
                  ELSE [ItsToken(r) EXCEPT !.jwt = b, !.secret = b]
  <2>1. At(r, "api_app_update", "go") /\ SetToken(r, req[r].app, t, "ok")
    BY <1>8 DEF ApiUpdateApplication
  <2>2. b \in BOOLEAN /\ ItsToken(r) \in TokenType
    BY <1>3, <2>1 DEF At
  <2>3. req[r].jwt \in BOOLEAN
    <3>1. req[r] \in ReqType
      BY DEF KInv
    <3> QED
      BY <3>1 DEF ReqType
  <2> HIDE DEF b
  <2>4. t \in TokenType
    BY <1>4, <2>2, <2>3
  <2> HIDE DEF t
  <2> QED
    BY <1>1, <2>1, <2>4
<1> QED
  BY <1>5, <1>6, <1>7, <1>8

\* An agent, a proxy, a role or a permission is made: nobody else makes it.
LEMMA StepMake ==
  ASSUME KInv, NEW r \in Reqs, NEW k \in Makers, NEW stage \in {"go", "change"},
         At(r, k, stage), Here(req[r].app),
         row' = [row EXCEPT ![req[r].who] = "here"],
         of' = [of EXCEPT ![req[r].who] = req[r].app], Wrote(r, "ok"),
         UNCHANGED <<member, fresh, assign, grant, trust, admin, token>>,
         pass' \in [Agents \cup Proxies -> Reqs \cup {None}]
  PROVE  KInv'
<1>1. ParamsOK(req[r], row, of) /\ req[r].kind = k /\ req[r].st \notin Final
  BY DEF KInv, ReqsOK, At, Final
<1>2. req[r].who \in Owned
  BY <1>1 DEF ParamsOK, Makers, Owned
<1>3. k \in AppKinds
  BY DEF Makers, RoleMakers, PermMakers, AgentMakers, ProxyMakers, AppKinds,
     WebRolesKinds, WebManageKinds, ApiAppKinds, ApiRolesKinds, ApiManageKinds
<1>4. req[r].app \in Apps
  BY <1>1, <1>3 DEF ParamsOK
<1>5. row[req[r].who] = "free"
  BY <1>1 DEF KInv, CreatorsOK, Making
<1>6. TablesOK' /\ Advance /\ \A y \in Owned \ {req[r].who} : row'[y] = row[y]
  BY <1>2, <1>4, <1>5, OwnedKeeps DEF KInv
<1> QED
  BY <1>1, <1>6, WriteStep DEF Final, Stages

LEMMA StepRegister ==
  ASSUME KInv, NEW r \in Reqs, NEW k \in AgentMakers \cup ProxyMakers,
         NEW stage \in {"go", "change"}, Register(r, k, stage)
  PROVE  KInv'
<1>1. CASE Ended(r, k, stage, "failed")
  BY <1>1, EndedKeeps DEF Final
<1>2. CASE ~Ended(r, k, stage, "failed")
  <2>1. /\ At(r, k, stage) /\ Here(req[r].app)
        /\ row' = [row EXCEPT ![req[r].who] = "here"]
        /\ of' = [of EXCEPT ![req[r].who] = req[r].app]
        /\ pass' = [pass EXCEPT ![req[r].who] = r] /\ Wrote(r, "ok")
        /\ UNCHANGED <<member, fresh, assign, grant, trust, admin, token>>
    BY <1>2 DEF Register
  <2>2. pass' \in [Agents \cup Proxies -> Reqs \cup {None}]
    BY <2>1 DEF KInv, TablesOK, TablesType
  <2> QED
    BY <2>1, <2>2, StepMake DEF Makers
<1> QED
  BY <1>1, <1>2

LEMMA StepRegisterPep ==
  ASSUME KInv, NEW r \in Reqs, RegisterPep(r) \/ ApiCreatePep(r) PROVE KInv'
<1>1. ASSUME NEW k \in {"register_pep", "api_pep_create"},
             Reading(r, k, "go", [req[r] EXCEPT !.st =
                       IF ProxiesOf(req[r].app) = {} THEN "change" ELSE "refused"])
      PROVE  KInv'
  <2> DEFINE s == IF ProxiesOf(req[r].app) = {} THEN "change" ELSE "refused"
  <2>1. At(r, k, "go") /\ req' = [req EXCEPT ![r].st = s] /\ UNCHANGED <<tables, scene>>
    BY <1>1 DEF Reading
  <2>2. s \in Stages
    BY DEF Stages, Final
  <2> HIDE DEF s
  <2> QED
    BY <1>1, <2>1, <2>2, MovedOn DEF At, Final, StageKinds, AppMakers
<1> QED
  BY <1>1, StepRegister DEF RegisterPep, ApiCreatePep, ProxyMakers

LEMMA StepUnregister ==
  ASSUME KInv, NEW r \in Reqs, NEW k \in {"delete_iot", "delete_pep"}, Unregister(r, k)
  PROVE  KInv'
<1>1. CASE Ended(r, k, "go", "failed")
  BY <1>1, EndedKeeps DEF Final
<1>2. CASE ~Ended(r, k, "go", "failed")
  <2>1. At(r, k, "go") /\ Delete({req[r].who}) /\ Wrote(r, "ok")
    BY <1>2 DEF Unregister
  <2>2. {req[r].who} \in SUBSET Ids
    BY <2>1 DEF At, KInv, ReqsOK, ParamsOK, Ids
  <2> QED
    BY <2>1, <2>2, WroteDeletion DEF At, Final
<1> QED
  BY <1>1, <1>2

LEMMA StepNewPassword ==
  ASSUME KInv, NEW r \in Reqs, NEW x, NewPassword(r, x, "ok"), req[r].st \in {"go", "change"}
  PROVE  KInv'
<1>1. /\ Wrote(r, "ok") /\ pass' = IF Here(x) THEN [pass EXCEPT ![x] = r] ELSE pass
      /\ UNCHANGED <<row, of, member, fresh, assign, grant, trust, admin, token>>
  BY DEF NewPassword
<1>2. pass' \in [Agents \cup Proxies -> Reqs \cup {None}]
  BY <1>1 DEF KInv, TablesOK, TablesType
<1>3. TablesOK' /\ Advance
  BY <1>1, <1>2, PassKeeps DEF KInv
<1> QED
  BY <1>1, <1>3, WroteOn DEF Stages, Final

LEMMA StepResetPassword ==
  ASSUME KInv, NEW r \in Reqs, NEW k, ResetPassword(r, k) PROVE KInv'
<1>1. CASE Ended(r, k, "go", "failed")
  BY <1>1, EndedKeeps DEF Final
<1>2. CASE ~Ended(r, k, "go", "failed")
  BY <1>2, StepNewPassword DEF ResetPassword, At
<1> QED
  BY <1>1, <1>2

LEMMA StepApiIot ==
  ASSUME KInv, NEW r \in Reqs, ApiUpdateIot(r) \/ ApiDeleteIot(r) PROVE KInv'
<1>1. CASE ApiUpdateIot(r)
  BY <1>1, StepNewPassword DEF ApiUpdateIot, At
<1>2. CASE ApiDeleteIot(r)
  <2>1. At(r, "api_iot_delete", "go") /\ Delete({req[r].who}) /\ Wrote(r, "ok")
    BY <1>2 DEF ApiDeleteIot
  <2>2. {req[r].who} \in SUBSET Ids
    BY <2>1 DEF At, KInv, ReqsOK, ParamsOK, Ids
  <2> QED
    BY <2>1, <2>2, WroteDeletion DEF At, Final
<1> QED
  BY <1>1, <1>2

\* The request goes on with the proxy that it has found.
LEMMA StepSearchPep ==
  ASSUME KInv, NEW r \in Reqs, NEW k \in {"api_pep_update", "api_pep_delete"},
         SearchPepProxy(r, k)
  PROVE  KInv'
<1>1. CASE Ended(r, k, "go", "missing")
  BY <1>1, EndedKeeps DEF Final
<1>2. CASE ~Ended(r, k, "go", "missing")
  <2>1. PICK x \in ProxiesOf(req[r].app) :
           Reading(r, k, "go", [req[r] EXCEPT !.st = "change", !.who = x])
    BY <1>2 DEF SearchPepProxy
  <2> DEFINE p == [req[r] EXCEPT !.st = "change"]
             q == [p EXCEPT !.who = x]
  <2>2. At(r, k, "go") /\ req' = [req EXCEPT ![r] = q] /\ UNCHANGED <<tables, scene>>
    BY <2>1 DEF Reading
  <2>3. x \in Proxies /\ x \in Ids /\ Known(x, req[r].app, row, of)
    BY <2>1 DEF ProxiesOf, Ids, Known, Here
  <2>4. req[r] \in ReqType /\ "change" \in Stages /\ ParamsOK(req[r], row, of)
    BY DEF KInv, Stages, ReqsOK
  <2>5. p \in ReqType /\ p.st = "change" /\ SameParams(req[r], p)
    BY <2>4, NewStage
  <2> HIDE DEF p
  <2>6. q \in ReqType
    BY <2>3, <2>5 DEF ReqType
  <2>7. q.st = "change" /\ q.who = x /\ q.kind = p.kind /\ q.app = p.app /\ q.by = p.by
    BY <2>3, <2>5 DEF ReqType
  <2> HIDE DEF q
  <2>8. q.kind = k /\ q.app = req[r].app /\ q.by = req[r].by
    BY <2>2, <2>5, <2>7 DEF SameParams, At
  <2>9. req[r].app \in Apps /\ req[r].by \in Users
    BY <2>2, <2>4 DEF At, ParamsOK, AppKinds, ApiAppKinds, ApiManageKinds
  <2>10. ParamsOK(q, row, of) /\ StageOK(q, row, of)
    <3>1. StageOK(q, row, of)
      BY <2>3, <2>7, <2>8 DEF StageOK, AppMakers
    <3>2. ParamsOK(q, row, of)
      BY <2>7, <2>8, <2>9 DEF ParamsOK, OrgKinds, AppKinds, DecisionKinds, AppMakers,
         OrgMakers, WebRolesKinds, WebAssignKinds, WebManageKinds, ApiAppKinds, ApiRolesKinds,
         ApiAssignKinds, ApiManageKinds, RoleMakers, PermMakers, AgentMakers, ProxyMakers,
         RoleNamers, PermNamers
    <3> QED
      BY <3>1, <3>2
  <2>11. UNCHANGED <<row, of>> /\ TablesOK' /\ scene' \in Scenarios
    BY <2>2 DEF KInv, tables, TablesOK, TablesType, OfFits, MemberFits, AssignFits, GrantFits,
         TrustFits, AdminFits, Here, Belongs, Exists
  <2>12. req' \in [Reqs -> ReqType] /\ req'[r] = q /\ \A s \in Reqs \ {r} : req'[s] = req[s]
    BY <2>2, <2>6 DEF KInv
  <2>13. ReqsOK'
    BY <2>10, <2>11, <2>12 DEF KInv, ReqsOK
  <2>14. q.kind \notin Makers
    BY <2>8 DEF Makers, RoleMakers, PermMakers, AgentMakers, ProxyMakers
  <2>15. CreatorsOK'
    BY <2>11, <2>12, <2>14 DEF KInv, CreatorsOK, Making
  <2> QED
    BY <2>11, <2>12, <2>13, <2>15 DEF KInv
<1> QED
  BY <1>1, <1>2

LEMMA StepApiPep ==
  ASSUME KInv, NEW r \in Reqs, ApiUpdatePep(r) \/ ApiDeletePep(r) PROVE KInv'
<1>1. CASE ApiUpdatePep(r)
  BY <1>1, StepSearchPep, StepNewPassword DEF ApiUpdatePep, At
<1>2. CASE ApiDeletePep(r)
  <2>1. CASE SearchPepProxy(r, "api_pep_delete")
    BY <2>1, StepSearchPep
  <2>2. CASE At(r, "api_pep_delete", "change") /\ Delete({req[r].who}) /\ Wrote(r, "ok")
    <3>1. {req[r].who} \in SUBSET Ids
      BY <2>2 DEF At, KInv, ReqsOK, StageOK, Ids
    <3> QED
      BY <2>2, <3>1, WroteDeletion DEF At, Final
  <2> QED
    BY <1>2, <2>1, <2>2 DEF ApiDeletePep
<1> QED
  BY <1>1, <1>2

-----------------------------------------------------------------------------
(* Trusted applications. *)

LEMMA StepTrust ==
  ASSUME KInv, NEW r \in Reqs, NEW pairs, NEW s \in {"ok", "fill"}, SetTrust(r, pairs, s),
         req[r].st \in {"go", "fill", "change"},
         req[r].kind \notin StageKinds \cup {"add_members"} \/ s = "ok",
         \A t \in pairs \ trust :
            t \in Apps \X Apps /\ Here(t[1]) /\ Here(t[2]) /\ t[1] # t[2]
  PROVE  KInv'
<1>1. trust' = pairs /\ Wrote(r, s)
      /\ UNCHANGED <<row, of, member, fresh, assign, grant, admin, token, pass>>
  BY DEF SetTrust
<1>2. TablesOK' /\ Advance
  BY <1>1, TrustKeeps DEF KInv
<1> QED
  BY <1>1, <1>2, WroteOn DEF Stages, Final

LEMMA StepTrusted ==
  ASSUME KInv, NEW r \in Reqs,
         DestroyTrusted(r) \/ CreateTrusted(r) \/ AddTrusted(r) \/ RemoveTrusted(r)
  PROVE  KInv'
<1> DEFINE a == req[r].app
           pair == <<req[r].app, req[r].who>>
           others == req[r].form \ {a}
<1>1. ParamsOK(req[r], row, of) /\ StageOK(req[r], row, of) /\ req[r] \in ReqType
  BY DEF KInv, ReqsOK
<1>2. req[r].kind \in {"authorize_trusted_applications", "addTrusted", "removeTrusted"} =>
         a \in Apps
  BY <1>1 DEF ParamsOK, AppKinds, WebAssignKinds, ApiAppKinds, ApiAssignKinds
<1>3. CASE DestroyTrusted(r)
  BY <1>3, StepTrust DEF DestroyTrusted, At, StageKinds, AppMakers
<1>4. CASE CreateTrusted(r)
  <2>1. CASE Ended(r, "authorize_trusted_applications", "fill", "failed")
    BY <2>1, EndedKeeps DEF Final
  <2>2. CASE ~Ended(r, "authorize_trusted_applications", "fill", "failed")
    <3>1. /\ At(r, "authorize_trusted_applications", "fill")
          /\ others = {} \/ Exists({a} \cup others)
          /\ SetTrust(r, trust \cup {<<a, b>> : b \in others}, "ok")
      BY <1>4, <2>2 DEF CreateTrusted
    <3>2. others \subseteq Apps /\ a \in Apps
      BY <1>1, <1>2, <3>1 DEF ParamsOK, At
    <3>3. \A b \in others : Here(a) /\ Here(b) /\ b # a
      BY <3>1, <3>2 DEF Exists, Ids
    <3> HIDE DEF a, others
    <3>4. \A t \in {<<a, b>> : b \in others} :
             t \in Apps \X Apps /\ Here(t[1]) /\ Here(t[2]) /\ t[1] # t[2]
      BY <3>2, <3>3
    <3> QED
      BY <3>1, <3>4, StepTrust DEF At
  <2> QED
    BY <2>1, <2>2
<1>5. CASE AddTrusted(r)
  <2>1. CASE Reading(r, "addTrusted", "go", [req[r] EXCEPT !.st =
            IF req[r].app = req[r].who \/ pair \in trust THEN "refused"
            ELSE "change"])
    <3> DEFINE s == IF req[r].app = req[r].who \/ pair \in trust THEN "refused" ELSE "change"
    <3>1. At(r, "addTrusted", "go") /\ req' = [req EXCEPT ![r].st = s]
          /\ UNCHANGED <<tables, scene>>
      BY <2>1 DEF Reading
    <3>2. s \in Stages
      BY DEF Stages, Final
    <3>3. [req[r] EXCEPT !.st = s].st = s /\ SameParams(req[r], [req[r] EXCEPT !.st = s])
      BY <1>1, <3>2, NewStage
    <3>4. StageOK([req[r] EXCEPT !.st = s], row, of)
      <4>1. s = "change" => req[r].app # req[r].who
        OBVIOUS
      <4>2. s \in {"refused", "change"} /\ req[r].kind = "addTrusted"
        BY <3>1 DEF At
      <4> HIDE DEF s
      <4> QED
        BY <3>3, <4>1, <4>2 DEF StageOK, SameParams, AppMakers
    <3> HIDE DEF s
    <3> QED
      BY <3>1, <3>2, <3>4, MovedKeeps DEF At, Final
  <2>2. CASE Ended(r, "addTrusted", "change", "failed")
    BY <2>2, EndedKeeps DEF Final
  <2>3. CASE /\ At(r, "addTrusted", "change") /\ Exists({req[r].app, req[r].who})
             /\ SetTrust(r, trust \cup {pair}, "ok")
    <3>1. req[r].app \in Apps /\ req[r].who \in Apps /\ req[r].who # req[r].app
      BY <1>1, <1>2, <2>3 DEF ParamsOK, StageOK, At
    <3>2. \A t \in {pair} : t \in Apps \X Apps /\ Here(t[1]) /\ Here(t[2]) /\ t[1] # t[2]
      BY <2>3, <3>1 DEF Exists, Ids
    <3> HIDE DEF pair
    <3> QED
      BY <2>3, <3>2, StepTrust DEF At
  <2> QED
    BY <1>5, <2>1, <2>2, <2>3 DEF AddTrusted
<1>6. CASE RemoveTrusted(r)
  <2>1. CASE Ended(r, "removeTrusted", "go", "refused")
    BY <2>1, EndedKeeps DEF Final
  <2>2. CASE At(r, "removeTrusted", "go") /\ SetTrust(r, trust \ {pair}, "ok")
    BY <2>2, StepTrust DEF At
  <2> QED
    BY <1>6, <2>1, <2>2 DEF RemoveTrusted
<1> QED
  BY <1>3, <1>4, <1>5, <1>6

LEMMA StepApplication == ASSUME KInv, NEW r \in Reqs, ApplicationStep(r) PROVE KInv'
<1>1. ASSUME NEW k \in AppMakers, SaveApplication(r, k) PROVE KInv'
  BY <1>1, StepSaveApplication
<1>2. ASSUME AnswerCreated(r) PROVE KInv'
  BY <1>2, EndedKeeps DEF AnswerCreated, Final
<1>3. ASSUME RegisterIot(r) \/ ApiCreateIot(r) PROVE KInv'
  BY <1>3, StepRegister DEF RegisterIot, ApiCreateIot, AgentMakers
<1>4. ASSUME \/ DeleteIot(r) \/ DeletePep(r) \/ ResetPasswordIot(r) \/ ResetPasswordPep(r)
      PROVE KInv'
  BY <1>4, StepUnregister, StepResetPassword DEF DeleteIot, DeletePep, ResetPasswordIot,
     ResetPasswordPep
<1>5. ASSUME CreateProvider(r, "app_create", "hung") \/ CreateProvider(r, "api_app_create", "failed")
      PROVE KInv'
  BY <1>5, StepCreateProvider DEF AppMakers
<1> QED
  BY <1>1, <1>2, <1>3, <1>4, <1>5, StepOwnersRow, StepDeleteApplication, StepToken,
     StepRegisterPep, StepApiIot, StepApiPep, StepTrusted DEF ApplicationStep, AppMakers

-----------------------------------------------------------------------------
(* Roles and permissions. *)

LEMMA StepCreate ==
  ASSUME KInv, NEW r \in Reqs, NEW k \in RoleMakers \cup PermMakers, Create(r, k)
  PROVE  KInv'
<1>1. CASE Ended(r, k, "go", "failed")
  BY <1>1, EndedKeeps DEF Final
<1>2. CASE ~Ended(r, k, "go", "failed")
  <2>1. /\ At(r, k, "go") /\ Here(req[r].app)
        /\ row' = [row EXCEPT ![req[r].who] = "here"]
        /\ of' = [of EXCEPT ![req[r].who] = req[r].app] /\ Wrote(r, "ok")
        /\ UNCHANGED <<member, fresh, assign, grant, trust, admin, token, pass>>
    BY <1>2 DEF Create
  <2>2. pass' \in [Agents \cup Proxies -> Reqs \cup {None}]
    BY <2>1 DEF KInv, TablesOK, TablesType
  <2> QED
    BY <2>1, <2>2, StepMake DEF Makers
<1> QED
  BY <1>1, <1>2

LEMMA StepEdit == ASSUME KInv, NEW r \in Reqs, NEW k, NEW x, Edit(r, k, x) PROVE KInv'
<1> DEFINE s == IF x \in Internal \cup Standard THEN "refused" ELSE "ok"
<1>1. Ended(r, k, "go", s)
  BY DEF Edit
<1>2. s \in Final
  BY DEF Final
<1> HIDE DEF s
<1> QED
  BY <1>1, <1>2, EndedKeeps

LEMMA StepDeleteRow ==
  ASSUME KInv, NEW r \in Reqs, NEW k, NEW x \in AllRoles \cup AllPerms, NEW sure \in BOOLEAN,
         DeleteRow(r, k, x, sure)
  PROVE  KInv'
<1>1. ASSUME NEW s \in {"refused", "ok", "failed"}, Ended(r, k, "go", s) PROVE KInv'
  BY <1>1, EndedKeeps DEF Final
<1>2. CASE At(r, k, "go") /\ x \notin Internal \cup Standard /\ Delete({x}) /\ Wrote(r, "ok")
  <2>1. {x} \in SUBSET Ids
    BY <1>2 DEF AllRoles, AllPerms, Ids
  <2> QED
    BY <1>2, <2>1, WroteDeletion DEF At, Final
<1> QED
  BY <1>1, <1>2 DEF DeleteRow

LEMMA StepDeleteRows ==
  ASSUME KInv, NEW r \in Reqs,
         DeleteRole(r) \/ DeletePermission(r) \/ ApiDeleteRole(r) \/ ApiDeletePermission(r)
  PROVE  KInv'
<1>1. ParamsOK(req[r], row, of)
  BY DEF KInv, ReqsOK
<1>2. CASE DeleteRole(r) \/ ApiDeleteRole(r)
  <2>1. req[r].kind \in {"role_delete", "api_role_delete"}
    BY <1>2 DEF DeleteRole, ApiDeleteRole, DeleteRow, At
  <2>2. req[r].role \in AllRoles \cup AllPerms
    BY <1>1, <2>1 DEF ParamsOK, RoleNamers
  <2> QED
    BY <1>2, <2>2, StepDeleteRow DEF DeleteRole, ApiDeleteRole
<1>3. CASE DeletePermission(r) \/ ApiDeletePermission(r)
  <2>1. req[r].kind \in {"permission_delete", "api_permission_delete"}
    BY <1>3 DEF DeletePermission, ApiDeletePermission, DeleteRow, At
  <2>2. req[r].perm \in AllRoles \cup AllPerms
    BY <1>1, <2>1 DEF ParamsOK, PermNamers
  <2> QED
    BY <1>3, <2>2, StepDeleteRow DEF DeletePermission, ApiDeletePermission
<1> QED
  BY <1>2, <1>3

\* One count of a table is set.
LEMMA SetCount ==
  ASSUME NEW S, NEW f \in [S -> Nat], NEW x, NEW n \in Nat
  PROVE  /\ [f EXCEPT ![x] = n] \in [S -> Nat]
         /\ \A y \in S : [f EXCEPT ![x] = n][y] = IF y = x THEN n ELSE f[y]
  OBVIOUS

\* What was known of an application, and is there, belongs to it.
LEMMA KnownHere ==
  ASSUME NEW x \in AllRoles, NEW a, Known(x, a, row, of), x \in Ids => Here(x)
  PROVE  Belongs(x, a)
<1>1. CASE x \in Internal
  BY <1>1 DEF Belongs
<1>2. CASE x \in Roles
  <2>1. x \notin Internal \cup Standard
    BY <1>2, Apart DEF Owned
  <2> QED
    BY <1>2, <2>1 DEF Known, Belongs, Ids
<1> QED
  BY <1>1, <1>2 DEF AllRoles


LEMMA StepGrant ==
  ASSUME KInv, NEW r \in Reqs, NEW pairs \in [Grantable -> Nat],
         NEW s \in {"ok", "fill", "missing"}, SetGrant(r, pairs, s),
         req[r].st \in {"go", "fill", "change"},
         req[r].kind \notin StageKinds \cup {"add_members"} \/ s # "fill",
         \A k \in Grantable : pairs[k] > 0 =>
            grant[k] > 0 \/ Exists({k.role, k.perm})
  PROVE  KInv'
<1>1. grant' = pairs /\ Wrote(r, s)
      /\ UNCHANGED <<row, of, member, fresh, assign, trust, admin, token, pass>>
  BY DEF SetGrant
<1>2. TablesOK' /\ Advance
  BY <1>1, GrantKeeps DEF KInv
<1> QED
  BY <1>1, <1>2, WroteOn DEF Stages, Final

LEMMA WithPairsFits ==
  ASSUME TablesOK, NEW S, \A k \in S \cap Grantable : Exists({k.role, k.perm})
  PROVE  /\ WithPairs(S) \in [Grantable -> Nat]
         /\ \A k \in Grantable : WithPairs(S)[k] > 0 =>
               grant[k] > 0 \/ Exists({k.role, k.perm})
<1>1. grant \in [Grantable -> Nat]
  BY DEF TablesOK, TablesType
<1> QED
  BY <1>1 DEF WithPairs

LEMMA StepGrants ==
  ASSUME KInv, NEW r \in Reqs, DestroyGrants(r) \/ CreateGrants(r) PROVE KInv'
<1>1. ASSUME NEW st, NEW s \in {"ok", "failed"}, Ended(r, "role_permissions_assign", st, s)
      PROVE  KInv'
  BY <1>1, EndedKeeps DEF Final
<1>2. TablesOK /\ grant \in [Grantable -> Nat]
  BY DEF KInv, TablesOK, TablesType
<1>3. CASE /\ At(r, "role_permissions_assign", "go")
           /\ SetGrant(r, WithoutRoles(FormRoles(req[r])), "fill")
  <2> DEFINE pairs == WithoutRoles(FormRoles(req[r]))
  <2>1. pairs \in [Grantable -> Nat] /\ \A k \in Grantable : pairs[k] > 0 => grant[k] > 0
    BY <1>2 DEF WithoutRoles
  <2> HIDE DEF pairs
  <2> QED
    BY <1>3, <2>1, StepGrant DEF At, StageKinds, AppMakers, pairs
<1>4. CASE /\ At(r, "role_permissions_assign", "fill")
           /\ Exists(UNION {{k.role, k.perm} : k \in FormPairs(req[r])})
           /\ SetGrant(r, WithPairs(FormPairs(req[r])), "ok")
  <2> DEFINE S == FormPairs(req[r])
  <2>2. \A k \in S : Exists({k.role, k.perm})
    BY <1>4 DEF Exists
  <2> HIDE DEF S
  <2> DEFINE pairs == WithPairs(S)
  <2>3. /\ pairs \in [Grantable -> Nat]
        /\ \A k \in Grantable : pairs[k] > 0 =>
              grant[k] > 0 \/ Exists({k.role, k.perm})
    BY <1>2, <2>2, WithPairsFits
  <2>4. SetGrant(r, pairs, "ok")
    BY <1>4 DEF S
  <2> HIDE DEF pairs
  <2> QED
    BY <1>4, <2>3, <2>4, StepGrant DEF At
<1> QED
  BY <1>1, <1>3, <1>4 DEF DestroyGrants, CreateGrants

LEMMA StepApiGrants ==
  ASSUME KInv, NEW r \in Reqs, ApiCreateGrant(r) \/ ApiDeleteGrant(r) PROVE KInv'
<1> DEFINE key == ItsPair(req[r])
<1>1. ParamsOK(req[r], row, of) /\ StageOK(req[r], row, of) /\ req[r] \in ReqType
  BY DEF KInv, ReqsOK
<1>2. TablesOK /\ grant \in [Grantable -> Nat]
  BY DEF KInv, TablesOK, TablesType
<1>3. CASE ApiCreateGrant(r)
  <2>1. CASE Reading(r, "api_grant_create", "go", [req[r] EXCEPT !.st =
              IF req[r].role \in Internal THEN "refused"
              ELSE IF grant[ItsPair(req[r])] > 0 THEN "ok" ELSE "change"])
    <3> DEFINE s == IF req[r].role \in Internal THEN "refused"
                    ELSE IF grant[ItsPair(req[r])] > 0 THEN "ok" ELSE "change"
    <3>1. At(r, "api_grant_create", "go") /\ req' = [req EXCEPT ![r].st = s]
          /\ UNCHANGED <<tables, scene>>
      BY <2>1 DEF Reading
    <3>2. s \in Stages /\ s \in {"refused", "ok", "change"}
          /\ (s = "change" => req[r].role \notin Internal)
      BY DEF Stages, Final
    <3> HIDE DEF s
    <3>3. [req[r] EXCEPT !.st = s].st = s /\ SameParams(req[r], [req[r] EXCEPT !.st = s])
      BY <1>1, <3>2, NewStage
    <3>4. StageOK([req[r] EXCEPT !.st = s], row, of)
      BY <3>1, <3>2, <3>3 DEF StageOK, SameParams, AppMakers, At
    <3> QED
      BY <3>1, <3>2, <3>4, MovedKeeps DEF At, Final
  <2>2. CASE Ended(r, "api_grant_create", "change", "failed")
    BY <2>2, EndedKeeps DEF Final
  <2>3. CASE /\ At(r, "api_grant_create", "change") /\ Exists({req[r].role, req[r].perm})
             /\ SetGrant(r, WithPairs({ItsPair(req[r])}), "ok")
    <3>1. key.role = req[r].role /\ key.perm = req[r].perm
      BY DEF ItsPair
    <3> HIDE DEF key
    <3> DEFINE S == {key}
               pairs == WithPairs(S)
    <3>3. \A k \in S \cap Grantable : Exists({k.role, k.perm})
      BY <2>3, <3>1
    <3> HIDE DEF S
    <3>4. /\ pairs \in [Grantable -> Nat]
          /\ \A k \in Grantable : pairs[k] > 0 =>
                grant[k] > 0 \/ Exists({k.role, k.perm})
      BY <1>2, <3>3, WithPairsFits
    <3>5. SetGrant(r, pairs, "ok")
      BY <2>3 DEF S, key
    <3> HIDE DEF pairs
    <3> QED
      BY <2>3, <3>4, <3>5, StepGrant DEF At
  <2> QED
    BY <1>3, <2>1, <2>2, <2>3 DEF ApiCreateGrant
<1>4. CASE ApiDeleteGrant(r)
  <2>1. CASE Ended(r, "api_grant_delete", "go", "refused")
    BY <2>1, EndedKeeps DEF Final
  <2>2. CASE ~Ended(r, "api_grant_delete", "go", "refused")
    <3> DEFINE pairs == [grant EXCEPT ![key] = 0]
               s == IF grant[key] > 0 THEN "ok" ELSE "missing"
    <3>1. At(r, "api_grant_delete", "go") /\ SetGrant(r, pairs, s)
      BY <1>4, <2>2 DEF ApiDeleteGrant
    <3> HIDE DEF key
    <3>2. pairs \in [Grantable -> Nat] /\ \A k \in Grantable : pairs[k] > 0 => grant[k] > 0
      BY <1>2, SetCount
    <3>3. s \in {"ok", "missing"}
      OBVIOUS
    <3> HIDE DEF pairs, s
    <3> QED
      BY <3>1, <3>2, <3>3, StepGrant DEF At
  <2> QED
    BY <2>1, <2>2
<1> QED
  BY <1>3, <1>4

-----------------------------------------------------------------------------
(* Roles of users and organizations. *)

LEMMA StepAssign ==
  ASSUME KInv, NEW r \in Reqs, NEW rows \in [Assignable -> Nat],
         NEW s \in {"ok", "fill", "missing"}, SetAssign(r, rows, s),
         req[r].st \in {"go", "fill", "change", "second"},
         s \in Final \/ StageOK([req[r] EXCEPT !.st = s], row, of),
         \A k \in Assignable : rows[k] > 0 =>
            \/ assign[k] > 0
            \/ Here(k.app) /\ Belongs(k.role, k.app) /\ Exists({k.to.user, k.to.org})
  PROVE  KInv'
<1>1. assign' = rows /\ Wrote(r, s)
      /\ UNCHANGED <<row, of, member, fresh, grant, trust, admin, token, pass>>
  BY DEF SetAssign
<1>2. TablesOK' /\ Advance
  BY <1>1, AssignKeeps DEF KInv
<1>3. \A x \in Owned : row[x] = "free" => row'[x] = "free"
  BY <1>1
<1> QED
  BY <1>1, <1>2, <1>3, WriteStep DEF Stages, Final

LEMMA StepSearchChangeable ==
  ASSUME KInv, NEW r \in Reqs, NEW k, k \in FormKinds \/ k \notin StageKinds \cup Makers,
         SearchChangeableRoles(r, k)
  PROVE  KInv'
<1> DEFINE ch == Changeable(req[r])
           p == [req[r] EXCEPT !.st = "change"]
           q == [p EXCEPT !.changeable = ch]
<1>1. req[r] \in ReqType /\ "change" \in Stages
  BY DEF KInv, Stages
<1>2. At(r, k, "go") /\ req' = [req EXCEPT ![r] = q] /\ UNCHANGED <<tables, scene>>
  BY DEF SearchChangeableRoles, Reading
<1>3. ch \in SUBSET AllRoles
  <2>1. req[r].held \subseteq AllRoles
    BY <1>1 DEF ReqType
  <2> QED
    BY <2>1 DEF Changeable, OwnRoles, RolesOf, AllRoles
<1> HIDE DEF ch
<1>4. p \in ReqType /\ p.st = "change" /\ SameParams(req[r], p)
  BY <1>1, NewStage
<1> HIDE DEF p
<1>5. q \in ReqType /\ q.st = "change" /\ SameParams(req[r], q) /\ q.changeable = ch
  <2>1. q.changeable = ch
    BY <1>4 DEF ReqType
  <2> QED
    BY <1>3, <1>4, <2>1, NewChangeable, SameTwice
<1> HIDE DEF q
<1>6. ~Making(q)
  BY <1>2, <1>5 DEF SameParams, At, Making, FormKinds, Makers, RoleMakers, PermMakers,
     AgentMakers, ProxyMakers
<1>7. StageOK(q, row, of)
  <2>1. CASE k \notin FormKinds
    BY <1>2, <1>5, <2>1, StageOther DEF SameParams, At
  <2>2. CASE k \in FormKinds
    <3>1. \A x \in req[r].held : Known(x, req[r].app, row, of)
      BY <1>2, <2>2 DEF KInv, ReqsOK, StageOK, At
    <3>2. \A x \in ch : Known(x, req[r].app, row, of)
      BY <3>1 DEF ch, Changeable, OwnRoles, RolesOf, Known, Here
    <3> QED
      BY <1>2, <1>5, <2>2, <3>2 DEF StageOK, SameParams, At, FormKinds, AppMakers
  <2> QED
    BY <2>1, <2>2
<1> QED
  BY <1>2, <1>5, <1>6, <1>7, ReadStep

LEMMA StepDestroyAssignments ==
  ASSUME KInv, NEW r \in Reqs, NEW k \in FormKinds, NEW kind, DestroyAssignments(r, k, kind)
  PROVE  KInv'
<1>2. ASSUME NEW st, Ended(r, k, st, "refused") PROVE KInv'
  BY <1>2, EndedKeeps DEF Final
<1> DEFINE rows == [x \in Assignable |->
                 IF /\ x.app = req[r].app
                    /\ x.role \in req[r].changeable
                    /\ x.to \in kind
                 THEN 0 ELSE assign[x]]
<1>3. CASE /\ At(r, k, "change") /\ SetAssign(r, rows, "fill")
           /\ AssignedRoles(req[r]) \subseteq req[r].changeable
  <2>1. assign \in [Assignable -> Nat]
    BY DEF KInv, TablesOK, TablesType
  <2>2. rows \in [Assignable -> Nat] /\ \A x \in Assignable : rows[x] > 0 => assign[x] > 0
    BY <2>1
  <2> HIDE DEF rows
  <2>3. StageOK([req[r] EXCEPT !.st = "fill"], row, of)
    <3> DEFINE q == [req[r] EXCEPT !.st = "fill"]
    <3>1. req[r] \in ReqType /\ StageOK(req[r], row, of)
      BY DEF KInv, ReqsOK
    <3>2. q.st = "fill" /\ SameParams(req[r], q)
      BY <3>1, NewStage DEF Stages
    <3>3. \A f \in req[r].form : Known(f.role, req[r].app, row, of)
      BY <1>3, <3>1 DEF StageOK, AssignedRoles, At
    <3> HIDE DEF q
    <3>4. q.kind = k /\ q.form = req[r].form /\ q.app = req[r].app
      BY <1>3, <3>2 DEF SameParams, At
    <3>5. StageOK(q, row, of)
      BY <3>2, <3>3, <3>4 DEF StageOK, FormKinds, AppMakers
    <3> QED
      BY <3>5 DEF q
  <2> QED
    BY <1>3, <2>2, <2>3, StepAssign DEF At
<1> QED
  BY <1>2, <1>3, StepSearchChangeable DEF DestroyAssignments

LEMMA StepCreateAssignments ==
  ASSUME KInv, NEW r \in Reqs, NEW k \in FormKinds, CreateAssignments(r, k) PROVE KInv'
<1> DEFINE a == req[r].app
           new == {[app |-> a, role |-> f.role, to |-> f.to] : f \in req[r].form}
           rows == [x \in Assignable |-> IF x \in new THEN assign[x] + 1 ELSE assign[x]]
<1>1. CASE Ended(r, k, "fill", "failed")
  BY <1>1, EndedKeeps DEF Final
<1>2. CASE ~Ended(r, k, "fill", "failed")
  <2>1. /\ At(r, k, "fill") /\ SetAssign(r, rows, "ok")
        /\ Exists({a} \cup UNION {{x.role, x.to.user, x.to.org} : x \in new})
    BY <1>2 DEF CreateAssignments
  <2>2. a \in Apps /\ req[r].form \subseteq [to : Holders, role : AllRoles]
    BY <2>1 DEF KInv, ReqsOK, ParamsOK, At, FormKinds, AppKinds, WebAssignKinds
  <2>7. \A f \in req[r].form : Known(f.role, a, row, of)
    BY <2>1 DEF KInv, ReqsOK, StageOK, At
  <2>3. Here(a)
    BY <2>1, <2>2 DEF Exists, Ids
  <2>4. \A x \in new : Here(x.app) /\ Belongs(x.role, x.app) /\ Exists({x.to.user, x.to.org})
    <3> SUFFICES ASSUME NEW f \in req[r].form
                 PROVE  Belongs(f.role, a) /\ Exists({f.to.user, f.to.org})
      BY <2>3
    <3> DEFINE x == [app |-> a, role |-> f.role, to |-> f.to]
    <3>1. x \in new /\ x.role = f.role /\ x.to = f.to
      OBVIOUS
    <3> HIDE DEF x, new
    <3>2. \A y \in {f.role, f.to.user, f.to.org} \cap Ids : Here(y)
      BY <2>1, <3>1 DEF Exists
    <3>3. f.role \in AllRoles
      BY <2>2
    <3>4. Belongs(f.role, a)
      BY <2>7, <3>2, <3>3, KnownHere
    <3> QED
      BY <3>2, <3>4 DEF Exists
  <2> HIDE DEF new
  <2>5. assign \in [Assignable -> Nat]
    BY DEF KInv, TablesOK, TablesType
  <2>6. /\ rows \in [Assignable -> Nat]
        /\ \A x \in Assignable : rows[x] > 0 => assign[x] > 0 \/ x \in new
    BY <2>5
  <2> HIDE DEF rows
  <2> QED
    BY <2>1, <2>4, <2>6, StepAssign DEF At, Final
<1> QED
  BY <1>1, <1>2

ApiRoleKinds == {"api_user_addRole", "api_user_removeRole", "api_org_role_addRole",
                 "api_org_role_removeRole"}

LEMMA ItsRowFits ==
  ASSUME KInv, NEW r \in Reqs, req[r].kind \in ApiRoleKinds,
         Exists({ItsRow(req[r]).app, ItsRow(req[r]).role, ItsRow(req[r]).to.user,
                 ItsRow(req[r]).to.org})
  PROVE  LET k == ItsRow(req[r])
         IN /\ k \in Assignable
            /\ Here(k.app) /\ Belongs(k.role, k.app) /\ Exists({k.to.user, k.to.org})
<1> DEFINE k == ItsRow(req[r])
<1>0. k \in Assignable
  <2>1. /\ req[r].app \in Apps /\ req[r].role \in AllRoles
        /\ \/ req[r].org = None /\ req[r].who \in Users
           \/ req[r].org \in Orgs /\ req[r].how \in MemberRoles
    BY DEF KInv, ReqsOK, ParamsOK, ApiRoleKinds, RoleNamers, AppKinds, ApiAppKinds, ApiAssignKinds
  <2>2. k.to \in Holders
    BY <2>1, Apart DEF ItsRow, Holders, OfUser, OfOrg, Ids
  <2> QED
    BY <2>1, <2>2 DEF ItsRow, Assignable
<1>1. k.app = req[r].app /\ k.role = req[r].role
  BY DEF ItsRow
<1>2. req[r].app \in Apps /\ req[r].role \in AllRoles /\ Known(req[r].role, req[r].app, row, of)
  BY DEF KInv, ReqsOK, ParamsOK, ApiRoleKinds, RoleNamers, AppKinds, ApiAppKinds, ApiAssignKinds
<1> HIDE DEF k
<1>3. \A x \in {k.app, k.role, k.to.user, k.to.org} \cap Ids : Here(x)
  BY DEF Exists, k
<1>4. Here(k.app) /\ Belongs(k.role, k.app)
  BY <1>1, <1>2, <1>3, KnownHere DEF Ids
<1>5. Exists({k.to.user, k.to.org})
  BY <1>3 DEF Exists
<1> QED
  BY <1>0, <1>4, <1>5 DEF k

LEMMA StepAddRoleTo ==
  ASSUME KInv, NEW r \in Reqs, NEW k \in ApiRoleKinds, AddRoleTo(r, k) PROVE KInv'
<1>1. k \notin StageKinds \cup {"add_members"}
  BY DEF ApiRoleKinds, StageKinds, AppMakers
<1> DEFINE s == IF req[r].role \notin req[r].changeable THEN "refused"
                ELSE IF assign[ItsRow(req[r])] > 0 THEN "ok" ELSE "second"
<1>2. CASE Reading(r, k, "change", [req[r] EXCEPT !.st = s])
  <2>1. At(r, k, "change") /\ req' = [req EXCEPT ![r].st = s] /\ UNCHANGED <<tables, scene>>
    BY <1>2 DEF Reading
  <2>2. s \in Stages
    BY DEF Stages, Final
  <2> HIDE DEF s
  <2> QED
    BY <1>1, <2>1, <2>2, MovedOn DEF At, Final
<1>3. CASE Ended(r, k, "second", "failed")
  BY <1>3, EndedKeeps DEF Final
<1> DEFINE x == ItsRow(req[r])
           rows == [assign EXCEPT ![x] = @ + 1]
<1>4. CASE /\ At(r, k, "second") /\ Exists({x.app, x.role, x.to.user, x.to.org})
           /\ SetAssign(r, rows, "ok")
  <2>1. x \in Assignable /\ Here(x.app) /\ Belongs(x.role, x.app)
        /\ Exists({x.to.user, x.to.org})
    BY <1>4, ItsRowFits DEF At
  <2> HIDE DEF x
  <2>2. assign \in [Assignable -> Nat]
    BY DEF KInv, TablesOK, TablesType
  <2>3. /\ rows \in [Assignable -> Nat]
        /\ \A y \in Assignable : rows[y] > 0 => assign[y] > 0 \/ y = x
    BY <2>1, <2>2, SetCount
  <2> HIDE DEF rows
  <2> QED
    BY <1>1, <1>4, <2>1, <2>3, StepAssign DEF At, Final
<1> QED
  BY <1>2, <1>3, <1>4 DEF AddRoleTo

LEMMA StepRemoveRoleFrom ==
  ASSUME KInv, NEW r \in Reqs, NEW k \in ApiRoleKinds, RemoveRoleFrom(r, k) PROVE KInv'
<1>1. CASE Ended(r, k, "change", "refused")
  BY <1>1, EndedKeeps DEF Final
<1>2. CASE ~Ended(r, k, "change", "refused")
  <2> DEFINE x == ItsRow(req[r])
             rows == [assign EXCEPT ![x] = 0]
             s == IF assign[x] > 0 THEN "ok" ELSE "missing"
  <2>1. At(r, k, "change") /\ SetAssign(r, rows, s)
    BY <1>2 DEF RemoveRoleFrom
  <2> HIDE DEF x
  <2>2. assign \in [Assignable -> Nat]
    BY DEF KInv, TablesOK, TablesType
  <2>3. rows \in [Assignable -> Nat] /\ \A y \in Assignable : rows[y] > 0 => assign[y] > 0
    BY <2>2, SetCount
  <2>4. s \in {"ok", "missing"}
    OBVIOUS
  <2> HIDE DEF rows, s
  <2> QED
    BY <2>1, <2>3, <2>4, StepAssign DEF At, Final
<1> QED
  BY <1>1, <1>2

LEMMA StepRole == ASSUME KInv, NEW r \in Reqs, RoleStep(r) PROVE KInv'
<1>1. ASSUME CreateRole(r) \/ CreatePermission(r) \/ ApiCreateRole(r) \/ ApiCreatePermission(r)
      PROVE  KInv'
  BY <1>1, StepCreate DEF CreateRole, CreatePermission, ApiCreateRole, ApiCreatePermission,
     RoleMakers, PermMakers
<1>2. ASSUME EditRole(r) \/ EditPermission(r) \/ ApiUpdateRole(r) \/ ApiUpdatePermission(r)
      PROVE  KInv'
  BY <1>2, StepEdit DEF EditRole, EditPermission, ApiUpdateRole, ApiUpdatePermission
<1>3. ASSUME NEW k \in AssignApiKinds, SearchChangeableRoles(r, k) PROVE KInv'
  <2>1. k \notin StageKinds \cup Makers
    BY DEF AssignApiKinds, ApiAssignKinds, StageKinds, AppMakers, Makers, RoleMakers,
       PermMakers, AgentMakers, ProxyMakers
  <2> QED
    BY <1>3, <2>1, StepSearchChangeable
<1>4. ASSUME AuthorizeUsers(r) \/ AuthorizeOrganizations(r) PROVE KInv'
  <2>1. PICK k \in FormKinds :
           CreateAssignments(r, k) \/ \E kind \in {{h \in Holders : h.org = None},
                                       {h \in Holders : h.user = None}} :
                                         DestroyAssignments(r, k, kind)
    BY <1>4 DEF AuthorizeUsers, AuthorizeOrganizations, FormKinds
  <2> QED
    BY <2>1, StepCreateAssignments, StepDestroyAssignments
<1>5. ASSUME UserAddRole(r) \/ UserRemoveRole(r) \/ OrgAddRole(r) \/ OrgRemoveRole(r)
      PROVE  KInv'
  BY <1>5, StepAddRoleTo, StepRemoveRoleFrom DEF UserAddRole, UserRemoveRole, OrgAddRole,
     OrgRemoveRole, ApiRoleKinds
<1> QED
  BY <1>1, <1>2, <1>3, <1>4, <1>5, StepDeleteRows, StepGrants, StepApiGrants DEF RoleStep

-----------------------------------------------------------------------------
(* Decisions. *)

LEMMA DecisionReads ==
  ASSUME KInv, NEW r \in Reqs, NEW k \in DecisionKinds, NEW st,
         NEW q \in ReqType, SameParams(req[r], q), Reading(r, k, st, q)
  PROVE  KInv'
<1>1. req[r].kind = k /\ req' = [req EXCEPT ![r] = q] /\ UNCHANGED <<tables, scene>>
  BY DEF Reading, At
<1>2. q.kind \notin StageKinds \cup {"add_members"} /\ q.kind \notin Makers
  BY <1>1 DEF SameParams, DecisionKinds, StageKinds, AppMakers, Makers, RoleMakers, PermMakers,
     AgentMakers, ProxyMakers
<1> QED
  BY <1>1, <1>2, StageOther, ReadStep DEF Making

LEMMA StepDecision == ASSUME KInv, NEW r \in Reqs, DecisionStep(r) PROVE KInv'
<1> DEFINE a == req[r]
<1>1. a \in ReqType /\ TablesType
  BY DEF KInv, TablesOK
<1>2. ASSUME NEW s \in Stages PROVE [a EXCEPT !.st = s] \in ReqType
                                    /\ SameParams(a, [a EXCEPT !.st = s])
  BY <1>1, NewStage
<1>3. CASE TrustedApplications(r)
  <2> DEFINE as == {t[2] : t \in {t \in trust : t[1] = req[r].who}}
             p == [a EXCEPT !.st = "member"]
             q == [p EXCEPT !.apps = as]
  <2>1. Reading(r, "resource_request", "load", q)
    BY <1>3 DEF TrustedApplications
  <2>2. as \in SUBSET Apps
    BY <1>1 DEF TablesType
  <2> HIDE DEF as
  <2>3. p \in ReqType /\ SameParams(a, p)
    BY <1>2 DEF Stages
  <2> HIDE DEF p
  <2>4. q \in ReqType /\ SameParams(a, q)
    BY <2>2, <2>3, NewApps, SameTwice
  <2> HIDE DEF q
  <2> QED
    BY <2>1, <2>4, DecisionReads DEF DecisionKinds
<1>4. CASE SearchOrganizations(r)
  <2> DEFINE mem == Memberships(req[r].by)
             p == [a EXCEPT !.st = "held"]
             q == [p EXCEPT !.mem = mem]
  <2>1. Reading(r, "resource_request", "member", q) \/ Reading(r, "access_token_info", "load", q)
    BY <1>4 DEF SearchOrganizations
  <2>2. mem \in SUBSET (Orgs \X MemberRoles)
    BY <1>1 DEF Memberships, TablesType, MemberRow
  <2> HIDE DEF mem
  <2>3. p \in ReqType /\ SameParams(a, p)
    BY <1>2 DEF Stages
  <2> HIDE DEF p
  <2>4. q \in ReqType /\ SameParams(a, q)
    BY <2>2, <2>3, NewMem, SameTwice
  <2> HIDE DEF q
  <2> QED
    BY <2>1, <2>4, DecisionReads DEF DecisionKinds
<1>5. CASE UserRoles(r) \/ InfoToken(r)
  <2> DEFINE held == HeldBy(req[r]) \ Internal
             s == IF InfoToken(r) THEN (IF HeldBy(req[r]) = {} THEN "refused" ELSE "ok")
                  ELSE "can"
             p == [a EXCEPT !.st = s]
             q == [p EXCEPT !.held = held]
  <2>1. Reading(r, "resource_request", "held", q) \/ Reading(r, "access_token_info", "held", q)
    <3>1. CASE InfoToken(r)
      <4>1. s = IF HeldBy(req[r]) = {} THEN "refused" ELSE "ok"
        BY <3>1
      <4> HIDE DEF s
      <4> QED
        BY <3>1, <4>1 DEF InfoToken
    <3>2. CASE ~InfoToken(r)
      <4>1. s = "can"
        BY <3>2
      <4> HIDE DEF s
      <4> QED
        BY <1>5, <3>2, <4>1 DEF UserRoles
    <3> QED
      BY <3>1, <3>2
  <2>2. held \in SUBSET AllRoles
    BY DEF HeldBy, RolesAt
  <2>3. s \in Stages
    BY DEF Stages, Final
  <2> HIDE DEF held, s
  <2>4. p \in ReqType /\ SameParams(a, p)
    BY <1>2, <2>3
  <2> HIDE DEF p
  <2>5. q \in ReqType /\ SameParams(a, q)
    BY <2>2, <2>4, NewHeld, SameTwice
  <2> HIDE DEF q
  <2> QED
    BY <2>1, <2>5, DecisionReads DEF DecisionKinds
<1>6. CASE UserPermissions(r)
  <2> DEFINE can == UNION {PermsOf(x) : x \in req[r].held}
             p == [a EXCEPT !.st = "go"]
             q == [p EXCEPT !.can = can]
  <2>1. Reading(r, "resource_request", "can", q)
    BY <1>6 DEF UserPermissions
  <2>2. can \in SUBSET AllPerms
    BY DEF PermsOf, AllPerms
  <2> HIDE DEF can
  <2>3. p \in ReqType /\ SameParams(a, p)
    BY <1>2 DEF Stages
  <2> HIDE DEF p
  <2>4. q \in ReqType /\ SameParams(a, q)
    BY <2>2, <2>3, NewCan, SameTwice
  <2> HIDE DEF q
  <2> QED
    BY <2>1, <2>4, DecisionReads DEF DecisionKinds
<1>7. CASE SearchUserInfo(r)
  <2> DEFINE s == IF Foreign(req[r]) THEN "refused"
                  ELSE IF Match(req[r]) # {} THEN "permit" ELSE "deny"
             q == [a EXCEPT !.st = s]
  <2>1. Reading(r, "resource_request", "go", q)
    BY <1>7 DEF SearchUserInfo
  <2>2. s \in Stages
    BY DEF Stages, Final
  <2> HIDE DEF s
  <2>3. q \in ReqType /\ SameParams(a, q)
    BY <1>2, <2>2
  <2> HIDE DEF q
  <2> QED
    BY <2>1, <2>3, DecisionReads DEF DecisionKinds
<1> QED
  BY <1>3, <1>4, <1>5, <1>6, <1>7 DEF DecisionStep

LEMMA StepDeleteAccount == ASSUME KInv, NEW u \in Users, DeleteAccount(u) PROVE KInv'
<1>1. /\ Delete({u}) /\ UNCHANGED scene
      /\ req' = [s \in Reqs |-> [req[s] EXCEPT !.quiet = FALSE]]
  BY DEF DeleteAccount
<1>2. {u} \in SUBSET Ids
  BY DEF Ids
<1>3. TablesOK' /\ Advance /\ \A x \in Ids : row[x] = "free" => row'[x] = "free"
  BY <1>1, <1>2, DeleteKeeps DEF KInv
<1>4. \A s \in Reqs : /\ req'[s] \in ReqType /\ req'[s].st = req[s].st
                      /\ SameParams(req[s], req'[s]) /\ SameRest(req[s], req'[s])
  <2> SUFFICES ASSUME NEW s \in Reqs
               PROVE  /\ [req[s] EXCEPT !.quiet = FALSE] \in ReqType
                      /\ [req[s] EXCEPT !.quiet = FALSE].st = req[s].st
                      /\ SameParams(req[s], [req[s] EXCEPT !.quiet = FALSE])
                      /\ SameRest(req[s], [req[s] EXCEPT !.quiet = FALSE])
    BY <1>1
  <2>1. req[s] \in ReqType
    BY DEF KInv
  <2> QED
    BY <2>1, Disturbed
<1>5. req' \in [Reqs -> ReqType]
  BY <1>1, <1>4
<1>6. ReqsOK'
  <2> SUFFICES ASSUME NEW s \in Reqs
               PROVE  ParamsOK(req'[s], row', of') /\ StageOK(req'[s], row', of')
    BY <1>4 DEF ReqsOK
  <2>1. ParamsOK(req'[s], row, of) /\ StageOK(req'[s], row, of)
    BY <1>4, ParamsSame, StageSame DEF KInv, ReqsOK
  <2> QED
    BY <1>3, <2>1, ParamsStay, StageStays
<1>7. CreatorsOK'
  <2>1. ASSUME NEW s \in Reqs, Making(req'[s]) PROVE row'[req'[s].who] = "free"
    <3>1. Making(req[s])
      BY <1>4, <2>1 DEF Making, SameParams
    <3>2. req[s].who \in Owned /\ row[req[s].who] = "free" /\ req'[s].who = req[s].who
      BY <1>4, <3>1 DEF KInv, CreatorsOK, ReqsOK, ParamsOK, Making, Makers, Owned, SameParams
    <3> QED
      BY <1>3, <3>2 DEF Owned, Ids
  <2> QED
    BY <1>4, <2>1 DEF KInv, CreatorsOK, SameParams
<1> QED
  BY <1>1, <1>3, <1>5, <1>6, <1>7 DEF KInv

LEMMA StepKInv == KInv /\ [Next]_vars => KInv'
<1> SUFFICES ASSUME KInv, [Next]_vars PROVE KInv'
  OBVIOUS
<1>1. ASSUME NEW r \in Reqs, NewRequest(r) PROVE KInv'
  BY <1>1, StepNewRequest
<1>2. ASSUME NEW r \in Reqs, Handle(r) PROVE KInv'
  BY <1>2, StepCheck, StepOrganization, StepApplication, StepRole, StepDecision DEF Handle
<1>3. ASSUME NEW u \in Users, DeleteAccount(u) PROVE KInv'
  BY <1>3, StepDeleteAccount
<1>4. CASE UNCHANGED vars
  BY <1>4 DEF vars, tables, KInv, TablesOK, TablesType, OfFits, MemberFits, AssignFits,
     GrantFits, TrustFits, AdminFits, Here, Belongs, Exists, ReqsOK, CreatorsOK
<1> QED
  BY <1>1, <1>2, <1>3, <1>4 DEF Next

LEMMA KInvAlways == Spec => []KInv
  BY InitKInv, StepKInv, PTL DEF Spec

LEMMA KInvFits == KInv => RowsFit
<1> SUFFICES ASSUME KInv PROVE RowsFit
  OBVIOUS
<1>1. TypeOK
  BY DEF KInv, TablesOK, TablesType, TypeOK
<1>2. \A x \in DOMAIN of : Here(x) => Here(of[x])
  BY DEF KInv, TablesOK, TablesType, OfFits
<1> QED
  BY <1>1, <1>2 DEF RowsFit, KInv, TablesOK, MemberFits, AssignFits, GrantFits, TrustFits,
     AdminFits, AllHere, Exists, Belongs

\* However the handlers of any number of requests and the deletions of accounts
\* interleave, whatever ids the forms name, every row of a table that links two
\* others finds both, and nobody has a role in an application but one of its own
\* or an internal one (the foreign keys, and what the assigning handlers check
\* of the roles they are given, models.js and controllers).
THEOREM RowsAlwaysFit == Spec => []RowsFit
  BY KInvAlways, KInvFits, PTL

=============================================================================
