---------------------------- MODULE Pages_proofs -----------------------------
(***************************************************************************)
(* Theorems of RolesPage, AccountsPage and Lists, for every number of      *)
(* rows, of clicks on them and of answers, in any order.                   *)
(*                                                                         *)
(* RInv says what the page of roles holds until the history variable rash  *)
(* is set: once the roles, or the policies, are answered its copies of the *)
(* rows are those of the server (PermitsOK, UsesOK) but for the choices,   *)
(* each listed once; before, nothing can be shown or clicked (NotYet).     *)
(* PInv and GInv are those of the page of accounts, LInv that of the       *)
(* lists.                                                                  *)
(***************************************************************************)
EXTENDS RolesPage, AccountsPage, Lists, Positions_proofs

At(f, r) == IF r \in DOMAIN f THEN f[r] ELSE <<>>
OfRole(S, r, X) == {x \in X : <<r, x>> \in S}
permits == application.role_permission_assign
uses == application.role_policy_assign

Rights == {"roles", "permissions", "policies", "assigned", "used"}
Globals == {"id", "roles", "permissions", "role_permission_assign", "role_policy_assign"}

RolesTypes ==
    /\ DOMAIN db = Rights /\ db = [f \in Rights |-> db[f]]
    /\ DOMAIN application = Globals /\ application = [f \in Globals |-> application[f]]
    /\ db.roles \subseteq Ids /\ db.permissions \subseteq Perms
    /\ db.policies \subseteq Policies
    /\ db.assigned \subseteq (db.roles \ {Provider}) \X db.permissions
    /\ db.used \subseteq (db.roles \ {Provider}) \X db.policies
    /\ chosen \subseteq db.roles \X (db.permissions \cup db.policies)
    /\ DOMAIN permits \subseteq db.roles /\ DOMAIN uses \subseteq db.roles
    /\ awaited \subseteq {"roles", "policies"}
NotYet ==
    "roles" \in awaited =>
        /\ application.roles = {} /\ application.permissions = {} /\ permits = <<>>
        /\ application.id = "" /\ visible = {} /\ forms = {} /\ shown = None
        /\ saved = "no" => chosen = db.assigned \cup db.used
PermitsOK ==
    "roles" \notin awaited =>
        /\ application.roles = db.roles /\ application.permissions = db.permissions
        /\ \A r \in Ids : EachOnce(At(permits, r), OfRole(chosen, r, Perms))
        /\ saved = "no" => \A y \in db.assigned : y[1] \in DOMAIN permits
UsesOK ==
    /\ "policies" \in awaited =>
        /\ policies = {} /\ uses = <<>>
        /\ \A r \in Ids : OfRole(chosen, r, Policies) = OfRole(db.used, r, Policies)
    /\ "policies" \notin awaited =>
        /\ policies = db.policies
        /\ \A r \in Ids : EachOnce(At(uses, r), OfRole(chosen, r, Policies))
        /\ saved = "no" => \A y \in db.used : y[1] \in DOMAIN uses
ShownOK ==
    shown # None =>
        /\ shown \in db.roles
        /\ marked = ToSet(At(permits, shown)) \cup ToSet(At(uses, shown))

RenderedOK ==
    /\ rendered = application.roles \cup application.permissions \cup policies
    /\ marked \subseteq application.permissions \cup policies
ReadOK ==
    /\ read = [a \in {"roles", "policies"} |-> read[a]]
    /\ saved = "no" =>
        /\ "roles" \in awaited /\ read.roles # None => read.roles = SentRoles
        /\ "policies" \in awaited /\ read.policies # None => read.policies = SentPolicies

RInv == RolesTypes /\ NotYet /\ PermitsOK /\ UsesOK /\ ShownOK /\ SavedAsChosen
          /\ RenderedOK /\ ReadOK

-----------------------------------------------------------------------------
(* The lists of the roles. *)

LEMMA NothingListed == ToSet(<<>>) = {} /\ DOMAIN <<>> = {}
BY DEF ToSet

LEMMA ListedIs ==
    ASSUME NEW f, NEW r, NEW T, EachOnce(At(f, r), T)
    PROVE  Listed(f, r) = T /\ (r \notin DOMAIN f => T = {})
BY NothingListed DEF At, Listed, EachOnce

LEMMA AtByRole ==
    ASSUME NEW A, NEW X, IsFiniteSet(X), NEW rows \in SUBSET (A \X X), NEW r
    PROVE  /\ DOMAIN ByRole(rows) = {x[1] : x \in rows}
           /\ EachOnce(At(ByRole(rows), r), OfRole(rows, r, X))
<1> DEFINE T == OfRole(rows, r, X)
           D == {x[1] : x \in rows}
           f == ByRole(rows)
<1>1. DOMAIN f = D
  BY DEF ByRole
<1>2. CASE r \in D
  <2>1. {x[2] : x \in {y \in rows : y[1] = r}} = T
    BY DEF OfRole
  <2>2. At(f, r) = SetToSeq(T)
    BY <1>2, <2>1 DEF ByRole, At
  <2>3. IsFiniteSet(T)
    BY FS_Subset DEF OfRole
  <2> HIDE DEF T, f
  <2> QED BY <2>2, <2>3, <1>1, EachOnceSetToSeq DEF f, T
<1>3. CASE r \notin D
  <2>1. T = {}
    <3> SUFFICES ASSUME NEW x \in X, <<r, x>> \in rows PROVE FALSE
      BY DEF OfRole
    <3>1. <<r, x>>[1] = r
      OBVIOUS
    <3> QED BY <3>1, <1>3
  <2>2. At(f, r) = <<>>
    BY <1>1, <1>3 DEF At
  <2> QED BY <1>1, <2>1, <2>2, EachOnceEmpty
<1> QED BY <1>1, <1>2, <1>3

LEMMA AtToggled ==
    ASSUME NEW f, NEW r, NEW x, NEW T, EachOnce(At(f, r), T),
           x \in marked <=> x \in T
    PROVE  /\ DOMAIN Toggled(f, r, x) = DOMAIN f \cup {r}
           /\ \A s : s # r => At(Toggled(f, r, x), s) = At(f, s)
           /\ EachOnce(At(Toggled(f, r, x), r), IF x \in marked THEN T \ {x} ELSE T \cup {x})
<1> DEFINE l == IF r \in DOMAIN f THEN f[r] ELSE <<>>
           new == IF x \notin marked THEN Append(l, x)
                  ELSE IF x \in ToSet(l) THEN RemoveFirst(l, x) ELSE l
           U == IF x \in marked THEN T \ {x} ELSE T \cup {x}
<1>1. EachOnce(l, T) /\ ToSet(l) = T
  BY DEF At, EachOnce
<1>2. EachOnce(new, U)
  <2> HIDE DEF l
  <2>1. CASE x \notin marked
    BY <2>1, <1>1, EachOnceAppend
  <2>2. CASE x \in marked
    BY <2>2, <1>1, EachOnceRemoveFirst
  <2> QED BY <2>1, <2>2
<1> HIDE DEF U
<1>3. Toggled(f, r, x) = [s \in DOMAIN f \cup {r} |-> IF s = r THEN new ELSE f[s]]
  BY DEF Toggled
<1>4. At(Toggled(f, r, x), r) = new
  <2> HIDE DEF new
  <2> QED BY <1>3 DEF At
<1>5. \A s : s # r => At(Toggled(f, r, x), s) = At(f, s)
  <2> HIDE DEF new
  <2> QED BY <1>3 DEF At
<1> HIDE DEF new
<1> QED BY <1>2, <1>3, <1>4, <1>5 DEF U

\* The rows of those roles that can be posted.
RowsFor(R, xs, X) == {y \in (R \ {Provider}) \X xs : y[2] \in OfRole(chosen, y[1], X)}

LEMMA ReplacedIs ==
    ASSUME NEW X, NEW xs, NEW rows, NEW f,
           rows \subseteq (db.roles \ {Provider}) \X xs, DOMAIN f \subseteq db.roles,
           \A r \in db.roles : EachOnce(At(f, r), OfRole(chosen, r, X)),
           \A r \in db.roles : OfRole(chosen, r, X) \subseteq xs,
           \A y \in rows : y[1] \in DOMAIN f
    PROVE  Accepted(f, xs) /\ Replaced(rows, f, xs) = RowsFor(db.roles, xs, X)
<1> DEFINE R == db.roles
           S == chosen
           D == DOMAIN f \ {Provider}
           left == {y \in rows : y[1] \notin D}
           g == Restrict(f, D)
           new == Pairs(g)
           Z == {y \in (R \ {Provider}) \X xs : y[2] \in OfRole(S, y[1], X)}
<1>1. left = {}
  OBVIOUS
<1>2. DOMAIN g = D /\ \A r \in D : Listed(g, r) = OfRole(S, r, X)
  <2>1. g = [r \in D |-> f[r]]
    BY DEF Restrict
  <2>2. ASSUME NEW r \in D PROVE Listed(g, r) = OfRole(S, r, X)
    <3>1. r \in R
      OBVIOUS
    <3>2. Listed(f, r) = OfRole(S, r, X)
      BY <3>1, ListedIs
    <3>3. Listed(g, r) = Listed(f, r)
      BY <2>1 DEF Listed
    <3> QED BY <3>2, <3>3
  <2> QED BY <2>1, <2>2
<1>3. \A r \in R \ D : r # Provider => OfRole(S, r, X) = {}
  BY ListedIs
<1>4. new = UNION {{r} \X OfRole(S, r, X) : r \in D}
  <2> HIDE DEF D, g
  <2> QED BY <1>2 DEF Pairs
<1>5. new = Z
  <2> HIDE DEF new
  <2>1. ASSUME NEW y \in new PROVE y \in Z
    BY <1>4
  <2>2. ASSUME NEW y \in Z PROVE y \in new
    <3>1. PICK r \in R \ {Provider}, x \in xs : y = <<r, x>>
      OBVIOUS
    <3>2. x \in OfRole(S, r, X)
      BY <3>1
    <3>3. r \in D
      BY <3>2, <1>3
    <3> QED BY <3>1, <3>2, <3>3, <1>4
  <2> QED BY <2>1, <2>2
<1>6. Z \subseteq R \X xs
  OBVIOUS
<1>7. Accepted(f, xs)
  <2> HIDE DEF Z
  <2> QED BY <1>5, <1>6 DEF Accepted, Posted
<1>8. Replaced(rows, f, xs) = left \cup new
  BY <1>7 DEF Replaced, Posted
<1>9. Z = RowsFor(db.roles, xs, X)
  BY DEF RowsFor
<1> HIDE DEF new, left, Z
<1> QED BY <1>1, <1>5, <1>7, <1>8, <1>9

\* What has not been answered is not posted, and stays.
LEMMA NothingPosted ==
    ASSUME NEW X, NEW xs \in SUBSET X, NEW rows, db.roles \subseteq Ids,
           rows \subseteq (db.roles \ {Provider}) \X xs,
           \A r \in Ids : OfRole(chosen, r, X) = OfRole(rows, r, X)
    PROVE  Accepted(<<>>, xs) /\ Replaced(rows, <<>>, xs) = RowsFor(db.roles, xs, X)
<1> DEFINE R == db.roles
           us == RowsFor(R, xs, X)
<1>1. DOMAIN <<>> = {}
  BY NothingListed
<1>2. Posted(<<>>) = {}
  <2>1. DOMAIN Restrict(<<>>, DOMAIN <<>> \ {Provider}) = {}
    BY <1>1 DEF Restrict
  <2> QED BY <2>1 DEF Posted, Pairs
<1>3. Accepted(<<>>, xs) /\ Replaced(rows, <<>>, xs) = rows
  BY <1>1, <1>2 DEF Accepted, Replaced
<1>4. ASSUME NEW y \in rows PROVE y \in us
  <2>1. PICK r \in R \ {Provider}, q \in xs : y = <<r, q>>
    OBVIOUS
  <2>2. q \in OfRole(rows, r, X)
    BY <2>1 DEF OfRole
  <2> QED BY <2>1, <2>2 DEF RowsFor
<1>5. ASSUME NEW y \in us PROVE y \in rows
  <2>1. PICK r \in R \ {Provider}, q \in xs : y = <<r, q>>
    BY DEF RowsFor
  <2>2. q \in OfRole(rows, r, X)
    BY <2>1 DEF RowsFor
  <2> QED BY <2>1, <2>2 DEF OfRole
<1> HIDE DEF us
<1>6. rows = us
  BY <1>4, <1>5
<1> QED BY <1>3, <1>6 DEF us

-----------------------------------------------------------------------------
(* The steps.  A step that sets rash says nothing. *)

seen == <<db, read, application, policies, rendered, awaited, visible, shown, saved,
          chosen, marked>>

LEMMA Unseen ==
    ASSUME RInv, ~rash, UNCHANGED seen, forms' = {} \/ "roles" \notin awaited
    PROVE  RInv'
<1>1. RolesTypes'
  BY DEF RInv, RolesTypes, seen, permits, uses
<1>2. NotYet'
  BY DEF RInv, NotYet, seen, permits
<1>3. PermitsOK'
  BY DEF RInv, PermitsOK, seen, permits
<1>4. UsesOK'
  BY DEF RInv, UsesOK, seen, uses
<1>5. ShownOK'
  BY DEF RInv, ShownOK, seen, permits, uses
<1>6. SavedAsChosen'
  BY DEF RInv, SavedAsChosen, seen
<1>7. RenderedOK' /\ ReadOK'
  BY DEF RInv, RenderedOK, ReadOK, SentRoles, SentPolicies, seen
<1> QED BY <1>1, <1>2, <1>3, <1>4, <1>5, <1>6, <1>7 DEF RInv

LEMMA InitRInv == ASSUME RolesAssumption, RolesInit PROVE RInv
<1>1. PICK rs \in SUBSET Own, ps \in SUBSET Perms, qs \in SUBSET Policies :
        \E as \in SUBSET (rs \X ps), us \in SUBSET (rs \X qs) :
           db = [roles |-> rs \cup {Provider}, permissions |-> ps, policies |-> qs,
                 assigned |-> as, used |-> us]
  BY DEF RolesInit
<1>2. PICK as \in SUBSET (rs \X ps), us \in SUBSET (rs \X qs) :
           db = [roles |-> rs \cup {Provider}, permissions |-> ps, policies |-> qs,
                 assigned |-> as, used |-> us]
  BY <1>1
<1>3. application = [id |-> "", roles |-> {}, permissions |-> {},
                      role_permission_assign |-> <<>>, role_policy_assign |-> <<>>]
  BY DEF RolesInit
<1>4. /\ awaited = {"roles", "policies"} /\ policies = {} /\ forms = {} /\ visible = {}
      /\ saved = "no" /\ shown = None /\ chosen = db.assigned \cup db.used
      /\ rendered = {} /\ marked = {} /\ read = [roles |-> None, policies |-> None]
  BY DEF RolesInit
<1>5. RolesTypes
  <2>1. DOMAIN db = Rights /\ db = [f \in Rights |-> db[f]]
    BY <1>2 DEF Rights
  <2>2. DOMAIN application = Globals /\ application = [f \in Globals |-> application[f]]
    BY <1>3 DEF Globals
  <2>3. /\ db.roles \subseteq Ids /\ db.permissions \subseteq Perms
        /\ db.policies \subseteq Policies /\ db.roles \ {Provider} = rs
    BY <1>2 DEF Own, RolesAssumption
  <2>4. db.assigned \subseteq rs \X db.permissions /\ db.used \subseteq rs \X db.policies
    BY <1>2
  <2>5. chosen \subseteq db.roles \X (db.permissions \cup db.policies)
    BY <2>4, <1>2, <1>4
  <2>6. DOMAIN permits = {} /\ DOMAIN uses = {}
    BY <1>3, NothingListed DEF permits, uses
  <2> QED BY <2>1, <2>2, <2>3, <2>4, <2>5, <2>6, <1>4 DEF RolesTypes
<1>6. NotYet /\ PermitsOK /\ ShownOK /\ SavedAsChosen /\ RenderedOK /\ ReadOK
  BY <1>3, <1>4 DEF NotYet, PermitsOK, ShownOK, SavedAsChosen, permits, RenderedOK, ReadOK
<1>7. UsesOK
  <2>1. ASSUME NEW r, NEW x \in Policies, <<r, x>> \in db.assigned PROVE FALSE
    <3>1. x \in ps
      BY <2>1, <1>2
    <3> QED BY <3>1 DEF RolesAssumption
  <2>2. \A r \in Ids : OfRole(chosen, r, Policies) = OfRole(db.used, r, Policies)
    BY <2>1, <1>4 DEF OfRole
  <2> QED BY <2>2, <1>3, <1>4 DEF UsesOK, uses
<1> QED BY <1>5, <1>6, <1>7 DEF RInv

LEMMA Apart ==
    ASSUME RolesAssumption, RolesTypes, NEW r
    PROVE  /\ OfRole(db.assigned \cup db.used, r, Perms) = OfRole(db.assigned, r, Perms)
           /\ OfRole(db.assigned \cup db.used, r, Policies) = OfRole(db.used, r, Policies)
<1>1. ASSUME NEW x \in Policies, <<r, x>> \in db.assigned PROVE FALSE
  BY <1>1 DEF RolesAssumption, RolesTypes
<1>2. ASSUME NEW x \in Perms, <<r, x>> \in db.used PROVE FALSE
  BY <1>2 DEF RolesAssumption, RolesTypes
<1> QED BY <1>1, <1>2 DEF OfRole

\* What has a row, of each kind.
LEMMA RenderedIs ==
    ASSUME RolesAssumption, RInv
    PROVE  /\ rendered \cap Ids = application.roles
           /\ rendered \cap Perms = application.permissions
           /\ rendered \cap Policies = policies
<1>1. /\ application.roles \subseteq Ids /\ application.permissions \subseteq Perms
      /\ policies \subseteq Policies
  BY DEF RInv, NotYet, PermitsOK, UsesOK, RolesTypes
<1>2. rendered = application.roles \cup application.permissions \cup policies
  BY DEF RInv, RenderedOK
<1> QED BY <1>1, <1>2 DEF RolesAssumption

\* The server reads what the page has not changed.
LEMMA StepReads ==
    ASSUME RolesAssumption, RInv, ~rash, ReadRoles \/ ReadPolicies
    PROVE  RInv'
<1>1. UNCHANGED <<db, awaited, application, policies, rendered, forms, visible, marked,
                  saved, shown, chosen>>
  BY DEF ReadRoles, ReadPolicies
<1>2. \/ read' = [read EXCEPT !.roles = SentRoles]
      \/ read' = [read EXCEPT !.policies = SentPolicies]
  BY DEF ReadRoles, ReadPolicies
<1>3. RolesTypes' /\ NotYet'
  BY <1>1 DEF RInv, RolesTypes, NotYet, permits, uses
<1>4. PermitsOK' /\ UsesOK'
  BY <1>1 DEF RInv, PermitsOK, UsesOK, permits, uses
<1>5. ShownOK' /\ SavedAsChosen' /\ RenderedOK'
  BY <1>1 DEF RInv, ShownOK, SavedAsChosen, RenderedOK, permits, uses
<1>6. ReadOK'
  <2>1. SentRoles' = SentRoles /\ SentPolicies' = SentPolicies
    BY <1>1 DEF SentRoles, SentPolicies
  <2> HIDE DEF SentRoles, SentPolicies
  <2> QED BY <1>1, <1>2, <2>1 DEF RInv, ReadOK
<1> QED BY <1>3, <1>4, <1>5, <1>6 DEF RInv

LEMMA StepManageRoles ==
    ASSUME RolesAssumption, RInv, ~rash, ~rash', ManageRoles
    PROVE  RInv'
<1> DEFINE f == ByRole(db.assigned)
<1>1. /\ saved = "no" /\ "roles" \in awaited /\ "policies" \in awaited
      /\ awaited' = awaited \ {"roles"} /\ read.roles # None
      /\ read' = [read EXCEPT !.roles = None]
      /\ rendered' = rendered \cup read.roles.roles \cup read.roles.permissions
      /\ UNCHANGED <<db, policies, forms, visible, marked, saved, shown, chosen>>
  BY DEF ManageRoles, OnPage
<1>r. read.roles = SentRoles
  BY <1>1 DEF RInv, ReadOK
<1>2. application' = [id |-> "application", roles |-> db.roles,
                      permissions |-> db.permissions,
                      role_permission_assign |-> f, role_policy_assign |-> <<>>]
  BY <1>r DEF ManageRoles, SentRoles
<1>3. permits' = f /\ uses' = <<>> /\ uses = <<>>
  BY <1>1, <1>2 DEF permits, uses, RInv, UsesOK
<1>4. /\ DOMAIN f = {x[1] : x \in db.assigned}
      /\ \A r : EachOnce(At(f, r), OfRole(db.assigned, r, Perms))
  <2>1. db.assigned \in SUBSET (Ids \X Perms) /\ IsFiniteSet(Perms)
    BY DEF RInv, RolesTypes, RolesAssumption
  <2> HIDE DEF f
  <2> QED BY <2>1, AtByRole DEF f
<1> HIDE DEF f
<1>5. RolesTypes'
  <2>1. DOMAIN application' = Globals
        /\ application' = [x \in Globals |-> application'[x]]
    BY <1>2 DEF Globals
  <2>2. DOMAIN f \subseteq db.roles /\ DOMAIN uses' = {}
    BY <1>3, <1>4, NothingListed DEF RInv, RolesTypes
  <2> QED BY <1>1, <1>3, <2>1, <2>2 DEF RInv, RolesTypes
<1>6. NotYet' /\ ShownOK' /\ SavedAsChosen'
  BY <1>1 DEF RInv, NotYet, ShownOK, SavedAsChosen
<1>7. PermitsOK'
  <2>1. chosen = db.assigned \cup db.used
    BY <1>1 DEF RInv, NotYet
  <2>2. \A r \in Ids : EachOnce(At(f, r), OfRole(chosen, r, Perms))
    BY <2>1, <1>4, Apart DEF RInv
  <2> QED BY <1>1, <1>2, <1>3, <1>4, <2>2 DEF PermitsOK
<1>8. UsesOK'
  BY <1>1, <1>3 DEF RInv, UsesOK
<1>9. RenderedOK'
  <2>1. rendered = {} /\ marked = {} /\ policies = {}
    BY <1>1 DEF RInv, RenderedOK, NotYet, UsesOK
  <2>2. read.roles.roles = db.roles /\ read.roles.permissions = db.permissions
    BY <1>r DEF SentRoles
  <2> QED BY <1>1, <1>2, <2>1, <2>2 DEF RenderedOK
<1>10. ReadOK'
  BY <1>1 DEF RInv, ReadOK, SentPolicies
<1> QED BY <1>5, <1>6, <1>7, <1>8, <1>9, <1>10 DEF RInv

LEMMA StepUsagePolicies ==
    ASSUME RolesAssumption, RInv, ~rash, ~rash', UsagePolicies
    PROVE  RInv'
<1> DEFINE f == ByRole(db.used)
<1>1. /\ saved = "no" /\ "policies" \in awaited /\ shown = None
      /\ awaited' = awaited \ {"policies"} /\ read.policies # None
      /\ read' = [read EXCEPT !.policies = None]
      /\ UNCHANGED <<db, forms, visible, marked, saved, shown, chosen>>
  BY DEF UsagePolicies, OnPage
<1>r. read.policies = SentPolicies
  BY <1>1 DEF RInv, ReadOK
<1>p. policies' = db.policies /\ rendered' = rendered \cup db.policies
  BY <1>r DEF UsagePolicies, SentPolicies
<1>2. application' = [application EXCEPT !.role_policy_assign = f]
  BY <1>r DEF UsagePolicies, SentPolicies
<1>3. /\ application'.roles = application.roles
      /\ application'.permissions = application.permissions
      /\ application'.id = application.id
      /\ permits' = permits /\ uses' = f
      /\ DOMAIN application' = Globals
      /\ application' = [x \in Globals |-> application'[x]]
  BY <1>2 DEF RInv, RolesTypes, permits, uses, Globals
<1>4. /\ DOMAIN f = {x[1] : x \in db.used}
      /\ \A r : EachOnce(At(f, r), OfRole(db.used, r, Policies))
  <2>1. db.used \in SUBSET (Ids \X Policies) /\ IsFiniteSet(Policies)
    BY DEF RInv, RolesTypes, RolesAssumption
  <2> HIDE DEF f
  <2> QED BY <2>1, AtByRole DEF f
<1> HIDE DEF f
<1>5. RolesTypes'
  <2>1. DOMAIN f \subseteq db.roles
    BY <1>4 DEF RInv, RolesTypes
  <2> QED BY <1>1, <1>3, <2>1 DEF RInv, RolesTypes
<1>6. NotYet' /\ ShownOK' /\ SavedAsChosen'
  BY <1>1, <1>3 DEF RInv, NotYet, ShownOK, SavedAsChosen
<1>7. PermitsOK'
  BY <1>1, <1>3 DEF RInv, PermitsOK
<1>8. UsesOK'
  <2>1. \A r \in Ids : EachOnce(At(f, r), OfRole(chosen, r, Policies))
    BY <1>1, <1>4 DEF RInv, UsesOK
  <2> QED BY <1>1, <1>p, <1>3, <1>4, <2>1 DEF UsesOK
<1>9. RenderedOK'
  BY <1>1, <1>p, <1>3 DEF RInv, RenderedOK, UsesOK
<1>10. ReadOK'
  BY <1>1 DEF RInv, ReadOK, SentRoles
<1> QED BY <1>5, <1>6, <1>7, <1>8, <1>9, <1>10 DEF RInv

\* What is listed for a role, and that it is on the page.
LEMMA RowsListed ==
    ASSUME RolesAssumption, RInv, "roles" \notin awaited, NEW r \in Ids
    PROVE  /\ Listed(application.role_permission_assign, r) = OfRole(chosen, r, Perms)
           /\ OfRole(chosen, r, Perms) \subseteq application.permissions
           /\ OfRole(chosen, r, Perms) = ToSet(At(permits, r))
           /\ Listed(application.role_policy_assign, r) \subseteq policies
           /\ Listed(application.role_policy_assign, r) = ToSet(At(uses, r))
<1>1. EachOnce(At(permits, r), OfRole(chosen, r, Perms))
  BY DEF RInv, PermitsOK
<1>2. Listed(permits, r) = OfRole(chosen, r, Perms)
  BY <1>1, ListedIs
<1>3. OfRole(chosen, r, Perms) \subseteq db.permissions
  BY DEF OfRole, RInv, RolesTypes, RolesAssumption
<1>4. Listed(uses, r) = ToSet(At(uses, r))
  BY NothingListed DEF Listed, At
<1>5. Listed(uses, r) \subseteq policies
  <2>1. CASE "policies" \in awaited
    BY <2>1, NothingListed DEF RInv, UsesOK, Listed
  <2>2. CASE "policies" \notin awaited
    <3>1. EachOnce(At(uses, r), OfRole(chosen, r, Policies))
      BY <2>2 DEF RInv, UsesOK
    <3>2. Listed(uses, r) = OfRole(chosen, r, Policies)
      BY <3>1, ListedIs
    <3>3. OfRole(chosen, r, Policies) \subseteq db.policies
      BY DEF OfRole, RInv, RolesTypes, RolesAssumption
    <3> QED BY <2>2, <3>2, <3>3 DEF RInv, UsesOK
  <2> QED BY <2>1, <2>2
<1> QED BY <1>1, <1>2, <1>3, <1>4, <1>5 DEF permits, uses, EachOnce, RInv, PermitsOK

LEMMA StepShow ==
    ASSUME RolesAssumption, RInv, ~rash, NEW r \in Ids, r \in Rows, saved = "no", Show(r),
           UNCHANGED <<db, read, application, policies, rendered, awaited, saved, chosen>>
    PROVE  RInv'
<1>1. "roles" \notin awaited /\ r \in db.roles
  <2>1. r \in application.roles
    BY RenderedIs DEF Rows
  <2> QED BY <2>1 DEF RInv, NotYet, PermitsOK
<1>2. marked' = Marks(r) /\ shown' = r
  BY DEF Show
<1>a. marked \ (application.permissions \cup policies) = {}
  BY DEF RInv, RenderedOK
<1>b. marked' \subseteq application.permissions \cup policies
  BY <1>2, <1>a DEF Marks
<1>3. marked' = ToSet(At(permits, r)) \cup ToSet(At(uses, r))
  BY <1>1, <1>2, <1>a, RowsListed DEF Marks
<1>4. RolesTypes'
  BY DEF RInv, RolesTypes, permits, uses
<1>5. NotYet' /\ SavedAsChosen'
  BY <1>1 DEF RInv, NotYet, SavedAsChosen
<1>6. PermitsOK'
  BY DEF RInv, PermitsOK, permits
<1>7. UsesOK'
  BY DEF RInv, UsesOK, uses
<1>8. ShownOK'
  BY <1>1, <1>2, <1>3 DEF ShownOK, permits, uses
<1>9. RenderedOK' /\ ReadOK'
  BY <1>b DEF RInv, RenderedOK, ReadOK, SentRoles, SentPolicies
<1> QED BY <1>4, <1>5, <1>6, <1>7, <1>8, <1>9 DEF RInv

\* What was chosen for the other roles, and of the other kind, stays.
LEMMA ChosenIs ==
    ASSUME NEW r, NEW x, NEW new,
           \/ x \in marked /\ new = chosen \ {<<r, x>>}
           \/ x \notin marked /\ new = chosen \cup {<<r, x>>}
    PROVE  /\ \A s, X : s # r \/ x \notin X => OfRole(new, s, X) = OfRole(chosen, s, X)
           /\ \A X : x \in X => OfRole(new, r, X) = IF x \in marked THEN OfRole(chosen, r, X) \ {x}
                                                    ELSE OfRole(chosen, r, X) \cup {x}
<1>1. ASSUME NEW s, NEW X, s # r \/ x \notin X
      PROVE  OfRole(new, s, X) = OfRole(chosen, s, X)
  BY <1>1 DEF OfRole
<1>2. ASSUME NEW X, x \in X
      PROVE  OfRole(new, r, X) = IF x \in marked THEN OfRole(chosen, r, X) \ {x}
                                 ELSE OfRole(chosen, r, X) \cup {x}
  BY <1>2 DEF OfRole
<1> QED BY <1>1, <1>2

\* What every click on a mark has in common.
LEMMA ClickFacts ==
    ASSUME RolesAssumption, RInv, ~rash', NEW x, Chose(x), visible # {},
           x \in db.permissions \cup db.policies
    PROVE  /\ "roles" \notin awaited /\ shown \in db.roles /\ shown \in Ids
           /\ shown # None /\ active = shown
           /\ marked = ToSet(At(permits, shown)) \cup ToSet(At(uses, shown))
           /\ ToSet(At(permits, shown)) = OfRole(chosen, shown, Perms)
           /\ marked' = IF x \in marked THEN marked \ {x} ELSE marked \cup {x}
           /\ chosen' \subseteq db.roles \X (db.permissions \cup db.policies)
           /\ \A s, X : s # shown \/ x \notin X => OfRole(chosen', s, X) = OfRole(chosen, s, X)
           /\ \A X : x \in X => OfRole(chosen', shown, X) =
                        IF x \in marked THEN OfRole(chosen, shown, X) \ {x}
                        ELSE OfRole(chosen, shown, X) \cup {x}
<1>1. shown # None /\ active = shown
  BY DEF Chose
<1>2. "roles" \notin awaited
  BY DEF RInv, NotYet
<1>3. /\ shown \in db.roles /\ shown \in Ids
      /\ marked = ToSet(At(permits, shown)) \cup ToSet(At(uses, shown))
  BY <1>1 DEF RInv, ShownOK, RolesTypes
<1>4. ToSet(At(permits, shown)) = OfRole(chosen, shown, Perms)
  BY <1>2, <1>3, RowsListed
<1>5. \/ x \in marked /\ chosen' = chosen \ {<<shown, x>>}
      \/ x \notin marked /\ chosen' = chosen \cup {<<shown, x>>}
  BY DEF Chose
<1>6. chosen' \subseteq db.roles \X (db.permissions \cup db.policies)
  BY <1>3, <1>5 DEF RInv, RolesTypes
<1>7. marked' = IF x \in marked THEN marked \ {x} ELSE marked \cup {x}
  BY DEF Chose
<1> HIDE DEF RInv
<1> QED BY <1>1, <1>2, <1>3, <1>4, <1>5, <1>6, <1>7, ChosenIs

LEMMA StepClickPermission ==
    ASSUME RolesAssumption, RInv, ~rash, ~rash', NEW p \in Perms, ClickPermission(p)
    PROVE  RInv'
<1> DEFINE f == Toggled(permits, active, p)
           T == OfRole(chosen, shown, Perms)
<1>1. /\ saved = "no" /\ "permissions" \in visible /\ p \in application.permissions
      /\ Chose(p) /\ visible # {}
      /\ UNCHANGED <<db, read, awaited, policies, rendered, forms, visible, saved, shown>>
  BY RenderedIs DEF ClickPermission, OnPage, Chose
<1>2. application' = [application EXCEPT !.role_permission_assign = f]
  BY DEF ClickPermission, permits
<1>3. p \in db.permissions
  BY <1>1 DEF RInv, NotYet, PermitsOK
<1>4. /\ "roles" \notin awaited /\ shown \in db.roles /\ shown \in Ids
      /\ shown # None /\ active = shown
      /\ marked = ToSet(At(permits, shown)) \cup ToSet(At(uses, shown))
      /\ ToSet(At(permits, shown)) = T
      /\ marked' = (IF p \in marked THEN marked \ {p} ELSE marked \cup {p})
      /\ chosen' \subseteq db.roles \X (db.permissions \cup db.policies)
      /\ \A s, X : s # shown \/ p \notin X => OfRole(chosen', s, X) = OfRole(chosen, s, X)
      /\ OfRole(chosen', shown, Perms) = (IF p \in marked THEN T \ {p} ELSE T \cup {p})
  BY <1>1, <1>3, ClickFacts
<1>5. p \notin ToSet(At(uses, shown))
  <2>1. ToSet(At(uses, shown)) \subseteq policies
    BY <1>4, RowsListed
  <2>2. policies \subseteq Policies
    BY DEF RInv, UsesOK, RolesTypes
  <2> QED BY <2>1, <2>2 DEF RolesAssumption
<1>6. p \in marked <=> p \in T
  BY <1>4, <1>5
<1>7. /\ DOMAIN f = DOMAIN permits \cup {shown}
      /\ \A s : s # shown => At(f, s) = At(permits, s)
      /\ EachOnce(At(f, shown), OfRole(chosen', shown, Perms))
  <2>1. EachOnce(At(permits, active), T)
    BY <1>4 DEF RInv, PermitsOK
  <2> HIDE DEF T
  <2>2. /\ DOMAIN f = DOMAIN permits \cup {active}
        /\ \A s : s # active => At(f, s) = At(permits, s)
        /\ EachOnce(At(f, active), IF p \in marked THEN T \ {p} ELSE T \cup {p})
    BY <1>6, <2>1, AtToggled
  <2> HIDE DEF f
  <2> QED BY <1>4, <2>2
<1> HIDE DEF f, T
<1>8. /\ application'.roles = application.roles
      /\ application'.permissions = application.permissions
      /\ permits' = f /\ uses' = uses
      /\ DOMAIN application' = Globals
      /\ application' = [x \in Globals |-> application'[x]]
  BY <1>2 DEF RInv, RolesTypes, permits, uses, Globals
<1>r. RenderedOK' /\ ReadOK'
  BY <1>1, <1>4, <1>8 DEF RInv, RenderedOK, ReadOK, SentRoles, SentPolicies
<1>9. RolesTypes'
  BY <1>1, <1>4, <1>7, <1>8 DEF RInv, RolesTypes
<1>10. NotYet' /\ SavedAsChosen'
  BY <1>1, <1>4 DEF NotYet, SavedAsChosen
<1>11. PermitsOK'
  <2>1. \A s \in Ids : EachOnce(At(f, s), OfRole(chosen', s, Perms))
    BY <1>4, <1>7 DEF RInv, PermitsOK
  <2> QED BY <1>1, <1>4, <1>7, <1>8, <2>1 DEF RInv, PermitsOK
<1>12. UsesOK'
  <2>1. p \notin Policies
    BY DEF RolesAssumption
  <2>2. \A s : OfRole(chosen', s, Policies) = OfRole(chosen, s, Policies)
    BY <1>4, <2>1
  <2> QED BY <1>1, <1>8, <2>2 DEF RInv, UsesOK
<1>13. ShownOK'
  <2>1. ToSet(At(f, shown)) = OfRole(chosen', shown, Perms)
    BY <1>7 DEF EachOnce
  <2>2. marked' = ToSet(At(f, shown)) \cup ToSet(At(uses, shown))
    BY <1>4, <1>5, <2>1
  <2> QED BY <1>1, <1>4, <1>8, <2>2 DEF ShownOK
<1> QED BY <1>r, <1>9, <1>10, <1>11, <1>12, <1>13 DEF RInv

LEMMA StepClickPolicy ==
    ASSUME RolesAssumption, RInv, ~rash, ~rash', NEW q \in Policies, ClickPolicy(q)
    PROVE  RInv'
<1> DEFINE f == Toggled(uses, active, q)
           T == OfRole(chosen, shown, Policies)
<1>1. /\ saved = "no" /\ "policies" \in visible /\ q \in policies
      /\ Chose(q) /\ visible # {}
      /\ UNCHANGED <<db, read, awaited, policies, rendered, forms, visible, saved, shown>>
  BY RenderedIs DEF ClickPolicy, OnPage, Chose
<1>2. application' = [application EXCEPT !.role_policy_assign = f]
  BY DEF ClickPolicy, uses
<1>3. "policies" \notin awaited /\ q \in db.policies
  BY <1>1 DEF RInv, UsesOK
<1>4. /\ "roles" \notin awaited /\ shown \in db.roles /\ shown \in Ids
      /\ shown # None /\ active = shown
      /\ marked = ToSet(At(permits, shown)) \cup ToSet(At(uses, shown))
      /\ ToSet(At(permits, shown)) = OfRole(chosen, shown, Perms)
      /\ marked' = (IF q \in marked THEN marked \ {q} ELSE marked \cup {q})
      /\ chosen' \subseteq db.roles \X (db.permissions \cup db.policies)
      /\ \A s, X : s # shown \/ q \notin X => OfRole(chosen', s, X) = OfRole(chosen, s, X)
      /\ OfRole(chosen', shown, Policies) = (IF q \in marked THEN T \ {q} ELSE T \cup {q})
  BY <1>1, <1>3, ClickFacts
<1>5. EachOnce(At(uses, shown), T) /\ ToSet(At(uses, shown)) = T
  BY <1>3, <1>4 DEF RInv, UsesOK, EachOnce
<1>6. q \in marked <=> q \in T
  BY <1>4, <1>5 DEF RolesAssumption, OfRole
<1>7. /\ DOMAIN f = DOMAIN uses \cup {shown}
      /\ \A s : s # shown => At(f, s) = At(uses, s)
      /\ EachOnce(At(f, shown), OfRole(chosen', shown, Policies))
  <2>1. EachOnce(At(uses, active), T)
    BY <1>4, <1>5
  <2> HIDE DEF T
  <2>2. /\ DOMAIN f = DOMAIN uses \cup {active}
        /\ \A s : s # active => At(f, s) = At(uses, s)
        /\ EachOnce(At(f, active), IF q \in marked THEN T \ {q} ELSE T \cup {q})
    BY <1>6, <2>1, AtToggled
  <2> HIDE DEF f
  <2> QED BY <1>4, <2>2
<1> HIDE DEF f, T
<1>8. /\ application'.roles = application.roles
      /\ application'.permissions = application.permissions
      /\ uses' = f /\ permits' = permits
      /\ DOMAIN application' = Globals
      /\ application' = [x \in Globals |-> application'[x]]
  BY <1>2 DEF RInv, RolesTypes, permits, uses, Globals
<1>r. RenderedOK' /\ ReadOK'
  BY <1>1, <1>4, <1>8 DEF RInv, RenderedOK, ReadOK, SentRoles, SentPolicies
<1>9. RolesTypes'
  BY <1>1, <1>4, <1>7, <1>8 DEF RInv, RolesTypes
<1>10. NotYet' /\ SavedAsChosen'
  BY <1>1, <1>4 DEF NotYet, SavedAsChosen
<1>11. PermitsOK'
  <2>1. q \notin Perms
    BY DEF RolesAssumption
  <2>2. \A s : OfRole(chosen', s, Perms) = OfRole(chosen, s, Perms)
    BY <1>4, <2>1
  <2> QED BY <1>1, <1>8, <2>2 DEF RInv, PermitsOK
<1>12. UsesOK'
  <2>1. \A s \in Ids : EachOnce(At(f, s), OfRole(chosen', s, Policies))
    BY <1>3, <1>4, <1>7 DEF RInv, UsesOK
  <2> QED BY <1>1, <1>3, <1>7, <1>8, <2>1 DEF RInv, UsesOK
<1>13. ShownOK'
  <2>1. ToSet(At(f, shown)) = OfRole(chosen', shown, Policies)
    BY <1>7 DEF EachOnce
  <2>2. q \notin ToSet(At(permits, shown))
    BY <1>4 DEF RolesAssumption, OfRole
  <2>3. marked' = ToSet(At(permits, shown)) \cup ToSet(At(f, shown))
    BY <1>4, <1>5, <2>1, <2>2
  <2> QED BY <1>1, <1>4, <1>8, <2>3 DEF ShownOK
<1> QED BY <1>r, <1>9, <1>10, <1>11, <1>12, <1>13 DEF RInv

\* What is new belongs to nobody.
LEMMA StepCreate ==
    ASSUME RInv, ~rash, saved = "no",
           NEW rs \in SUBSET Ids, NEW ps \in SUBSET Perms, NEW qs \in SUBSET Policies,
           "roles" \in awaited => rs = {} /\ ps = {}, "policies" \in awaited => qs = {},
           db'.roles = db.roles \cup rs, db'.permissions = db.permissions \cup ps,
           db'.policies = db.policies \cup qs,
           db'.assigned = db.assigned, db'.used = db.used,
           DOMAIN db' = Rights, db' = [f \in Rights |-> db'[f]],
           application'.roles = application.roles \cup rs,
           application'.permissions = application.permissions \cup ps,
           permits' = permits, uses' = uses, application'.id = application.id,
           DOMAIN application' = Globals, application' = [f \in Globals |-> application'[f]],
           policies' = policies \cup qs, rendered' = rendered \cup rs \cup ps \cup qs,
           UNCHANGED <<awaited, read, visible, forms, saved, shown, chosen, marked>>
    PROVE  RInv'
<1>1. RolesTypes'
  <2>1. /\ db'.roles \subseteq Ids /\ db'.permissions \subseteq Perms
        /\ db'.policies \subseteq Policies /\ awaited' \subseteq {"roles", "policies"}
        /\ DOMAIN permits' \subseteq db'.roles /\ DOMAIN uses' \subseteq db'.roles
    BY DEF RInv, RolesTypes
  <2>2. db'.assigned \subseteq (db'.roles \ {Provider}) \X db'.permissions
    BY DEF RInv, RolesTypes
  <2>3. db'.used \subseteq (db'.roles \ {Provider}) \X db'.policies
    BY DEF RInv, RolesTypes
  <2>4. chosen' \subseteq db'.roles \X (db'.permissions \cup db'.policies)
    BY DEF RInv, RolesTypes
  <2> QED BY <2>1, <2>2, <2>3, <2>4 DEF RolesTypes
<1>2. NotYet' /\ SavedAsChosen'
  BY DEF RInv, NotYet, SavedAsChosen
<1>3. PermitsOK'
  BY DEF RInv, PermitsOK
<1>4. UsesOK'
  BY DEF RInv, UsesOK
<1>5. ShownOK' /\ RenderedOK'
  BY DEF RInv, ShownOK, RenderedOK
<1>6. ReadOK'
  <2>1. "roles" \in awaited => SentRoles' = SentRoles
    BY DEF SentRoles
  <2>2. "policies" \in awaited => SentPolicies' = SentPolicies
    BY DEF SentPolicies
  <2> HIDE DEF SentRoles, SentPolicies
  <2> QED BY <2>1, <2>2 DEF RInv, ReadOK
<1> QED BY <1>1, <1>2, <1>3, <1>4, <1>5, <1>6 DEF RInv

LEMMA StepCreates ==
    ASSUME RInv, ~rash, ~rash',
           \/ \E r \in Ids : CreateRole(r)
           \/ \E p \in Perms : CreatePermission(p)
           \/ \E q \in Policies : CreatePolicy(q)
    PROVE  RInv'
<1>1. /\ DOMAIN db = Rights /\ db = [f \in Rights |-> db[f]]
      /\ DOMAIN application = Globals /\ application = [f \in Globals |-> application[f]]
      /\ "roles" \in awaited => application.id = ""
  BY DEF RInv, RolesTypes, NotYet
<1> HIDE DEF RInv
<1>2. ASSUME NEW r \in Ids, CreateRole(r) PROVE RInv'
  <2>1. /\ saved = "no" /\ policies' = policies \cup {}
        /\ "roles" \notin awaited /\ rendered' = rendered \cup {r} \cup {} \cup {}
        /\ UNCHANGED <<awaited, read, visible, forms, saved, shown, chosen, marked>>
        /\ db' = [db EXCEPT !.roles = @ \cup {r}]
        /\ application' = [application EXCEPT !.roles = @ \cup {r}]
    BY <1>2 DEF CreateRole, OnPage
  <2>2. /\ db'.roles = db.roles \cup {r} /\ db'.permissions = db.permissions \cup {}
        /\ db'.policies = db.policies \cup {}
        /\ db'.assigned = db.assigned /\ db'.used = db.used
        /\ DOMAIN db' = Rights /\ db' = [f \in Rights |-> db'[f]]
    BY <1>1, <2>1 DEF Rights
  <2>3. /\ application'.roles = application.roles \cup {r}
        /\ application'.permissions = application.permissions \cup {}
        /\ permits' = permits /\ uses' = uses /\ application'.id = application.id
        /\ DOMAIN application' = Globals
        /\ application' = [f \in Globals |-> application'[f]]
    BY <1>1, <2>1 DEF Globals, permits, uses
  <2>4. {r} \in SUBSET Ids /\ {} \in SUBSET Perms /\ {} \in SUBSET Policies
    OBVIOUS
  <2> QED BY <2>1, <2>2, <2>3, <2>4, StepCreate
<1>3. ASSUME NEW p \in Perms, CreatePermission(p) PROVE RInv'
  <2>1. /\ saved = "no" /\ policies' = policies \cup {}
        /\ "roles" \notin awaited /\ rendered' = rendered \cup {} \cup {p} \cup {}
        /\ UNCHANGED <<awaited, read, visible, forms, saved, shown, chosen, marked>>
        /\ db' = [db EXCEPT !.permissions = @ \cup {p}]
        /\ application' = [application EXCEPT !.permissions = @ \cup {p}]
    BY <1>1, <1>3 DEF CreatePermission, OnPage
  <2>2. /\ db'.roles = db.roles \cup {} /\ db'.permissions = db.permissions \cup {p}
        /\ db'.policies = db.policies \cup {}
        /\ db'.assigned = db.assigned /\ db'.used = db.used
        /\ DOMAIN db' = Rights /\ db' = [f \in Rights |-> db'[f]]
    BY <1>1, <2>1 DEF Rights
  <2>3. /\ application'.roles = application.roles \cup {}
        /\ application'.permissions = application.permissions \cup {p}
        /\ permits' = permits /\ uses' = uses /\ application'.id = application.id
        /\ DOMAIN application' = Globals
        /\ application' = [f \in Globals |-> application'[f]]
    BY <1>1, <2>1 DEF Globals, permits, uses
  <2>4. {} \in SUBSET Ids /\ {p} \in SUBSET Perms /\ {} \in SUBSET Policies
    OBVIOUS
  <2> QED BY <2>1, <2>2, <2>3, <2>4, StepCreate
<1>4. ASSUME NEW q \in Policies, CreatePolicy(q) PROVE RInv'
  <2>1. /\ saved = "no" /\ policies' = policies \cup {q}
        /\ "policies" \notin awaited /\ rendered' = rendered \cup {} \cup {} \cup {q}
        /\ UNCHANGED <<awaited, read, visible, forms, saved, shown, chosen, marked>>
        /\ db' = [db EXCEPT !.policies = @ \cup {q}]
        /\ application' = application
    BY <1>4 DEF CreatePolicy, OnPage
  <2>2. /\ db'.roles = db.roles \cup {} /\ db'.permissions = db.permissions \cup {}
        /\ db'.policies = db.policies \cup {q}
        /\ db'.assigned = db.assigned /\ db'.used = db.used
        /\ DOMAIN db' = Rights /\ db' = [f \in Rights |-> db'[f]]
    BY <1>1, <2>1 DEF Rights
  <2>3. /\ application'.roles = application.roles \cup {}
        /\ application'.permissions = application.permissions \cup {}
        /\ permits' = permits /\ uses' = uses /\ application'.id = application.id
        /\ DOMAIN application' = Globals
        /\ application' = [f \in Globals |-> application'[f]]
    BY <1>1, <2>1 DEF Globals, permits, uses
  <2>4. {} \in SUBSET Ids /\ {} \in SUBSET Perms /\ {q} \in SUBSET Policies
    OBVIOUS
  <2> QED BY <2>1, <2>2, <2>3, <2>4, StepCreate
<1> QED BY <1>2, <1>3, <1>4

LEMMA DroppedRole ==
    ASSUME RolesAssumption, NEW rows, NEW r \in Ids
    PROVE  /\ \A s \in Ids : s # r =>
                 /\ OfRole(Dropped(rows, r), s, Perms) = OfRole(rows, s, Perms)
                 /\ OfRole(Dropped(rows, r), s, Policies) = OfRole(rows, s, Policies)
           /\ OfRole(Dropped(rows, r), r, Perms) = {}
           /\ OfRole(Dropped(rows, r), r, Policies) = {}
<1>1. Dropped(rows, r) = {y \in rows : r # y[1] /\ r # y[2]}
  BY DEF Dropped
<1>2. r \notin Perms /\ r \notin Policies
  BY DEF RolesAssumption
<1> QED BY <1>1, <1>2 DEF OfRole

LEMMA StepDeleteRole ==
    ASSUME RolesAssumption, RInv, ~rash, ~rash', NEW r \in Ids, DeleteRole(r)
    PROVE  RInv'
<1> DEFINE f == Restrict(permits, DOMAIN permits \ {r})
<1>1. /\ saved = "no" /\ r \in Rows \ {Provider} /\ r \notin DOMAIN uses
      /\ "policies" \notin awaited /\ application.id # ""
      /\ marked' = Marks(r) /\ rendered' = rendered \ {r}
      /\ shown' = None /\ visible' = {"policies"} /\ chosen' = Dropped(chosen, r)
      /\ UNCHANGED <<awaited, read, policies, forms, saved>>
  BY DEF DeleteRole, OnPage, uses
<1>2. db' = [db EXCEPT !.roles = @ \ {r}, !.assigned = Dropped(@, r), !.used = Dropped(@, r)]
  BY DEF DeleteRole
<1>3. application' = [application EXCEPT !.roles = @ \ {r}, !.role_permission_assign = f]
  BY DEF DeleteRole, permits, RInv, RolesTypes, Globals
<1>4. "roles" \notin awaited
  BY <1>1 DEF RInv, NotYet
<1>5. /\ db'.roles = db.roles \ {r} /\ db'.permissions = db.permissions
      /\ db'.policies = db.policies
      /\ db'.assigned = Dropped(db.assigned, r) /\ db'.used = Dropped(db.used, r)
      /\ DOMAIN db' = Rights /\ db' = [x \in Rights |-> db'[x]]
  BY <1>2 DEF RInv, RolesTypes, Rights
<1>6. /\ DOMAIN f = DOMAIN permits \ {r}
      /\ \A s : At(f, s) = IF s = r THEN <<>> ELSE At(permits, s)
  BY DEF Restrict, At
<1> HIDE DEF f
<1>7. /\ application'.roles = application.roles \ {r}
      /\ application'.permissions = application.permissions
      /\ permits' = f /\ uses' = uses
      /\ DOMAIN application' = Globals
      /\ application' = [x \in Globals |-> application'[x]]
  BY <1>3 DEF RInv, RolesTypes, Globals, permits, uses
<1>8. /\ Dropped(db.assigned, r) \subseteq ((db.roles \ {Provider}) \ {r}) \X db.permissions
      /\ Dropped(db.assigned, r) \subseteq db.assigned
  BY DEF Dropped, RInv, RolesTypes
<1>9. /\ Dropped(db.used, r) \subseteq ((db.roles \ {Provider}) \ {r}) \X db.policies
      /\ Dropped(db.used, r) \subseteq db.used
      /\ \A s \in Ids : s # r => OfRole(Dropped(db.used, r), s, Policies) = OfRole(db.used, s, Policies)
      /\ OfRole(Dropped(db.used, r), r, Policies) = {}
  <2>1. /\ Dropped(db.used, r) \subseteq ((db.roles \ {Provider}) \ {r}) \X db.policies
        /\ Dropped(db.used, r) \subseteq db.used
    BY DEF Dropped, RInv, RolesTypes
  <2> QED BY <2>1, DroppedRole
<1>10. /\ chosen' \subseteq (db.roles \ {r}) \X (db.permissions \cup db.policies)
       /\ \A s \in Ids : s # r => /\ OfRole(chosen', s, Perms) = OfRole(chosen, s, Perms)
                                  /\ OfRole(chosen', s, Policies) = OfRole(chosen, s, Policies)
       /\ OfRole(chosen', r, Perms) = {} /\ OfRole(chosen', r, Policies) = {}
  <2>1. chosen' \subseteq (db.roles \ {r}) \X (db.permissions \cup db.policies)
    BY <1>1 DEF Dropped, RInv, RolesTypes
  <2>2. chosen' = Dropped(chosen, r)
    BY <1>1
  <2> QED BY ONLY RolesAssumption, <2>1, <2>2, DroppedRole, r \in Ids
<1>11. RolesTypes'
  BY <1>1, <1>5, <1>6, <1>7, <1>8, <1>9, <1>10 DEF RInv, RolesTypes
<1>12. NotYet' /\ SavedAsChosen' /\ ShownOK'
  BY <1>1, <1>4 DEF NotYet, SavedAsChosen, ShownOK
<1>13. PermitsOK'
  <2>1. ASSUME NEW s \in Ids PROVE EachOnce(At(f, s), OfRole(chosen', s, Perms))
    BY <1>4, <1>6, <1>10, EachOnceEmpty DEF RInv, PermitsOK
  <2>2. ASSUME NEW y \in db'.assigned PROVE y[1] \in DOMAIN f
    <3>1. \A z \in db.assigned : z[1] \in DOMAIN permits
      BY <1>1, <1>4 DEF RInv, PermitsOK
    <3>2. y \in db.assigned /\ y[1] # r
      BY <1>5, <1>8
    <3> QED BY <3>1, <3>2, <1>6
  <2> QED BY <1>1, <1>4, <1>5, <1>7, <2>1, <2>2 DEF RInv, PermitsOK
<1>14. UsesOK'
  <2>1. ASSUME NEW s \in Ids PROVE EachOnce(At(uses, s), OfRole(chosen', s, Policies))
    <3>1. At(uses, r) = <<>>
      BY <1>1 DEF At
    <3> QED BY <3>1, <1>1, <1>10, EachOnceEmpty DEF RInv, UsesOK
  <2>2. \A y \in db'.used : y[1] \in DOMAIN uses
    BY <1>1, <1>5, <1>9 DEF RInv, UsesOK
  <2> QED BY <2>1, <2>2, <1>1, <1>5, <1>7 DEF RInv, UsesOK
<1>15. RenderedOK'
  <2>1. marked \ (application.permissions \cup policies) = {}
    BY DEF RInv, RenderedOK
  <2>2. marked' \subseteq application.permissions \cup policies
    BY <1>1, <2>1 DEF Marks
  <2>3. r \notin application.permissions \cup policies
    BY RenderedIs DEF RolesAssumption
  <2>4. rendered' = application'.roles \cup application'.permissions \cup policies'
    BY <1>1, <1>7, <2>3 DEF RInv, RenderedOK
  <2> QED BY <2>2, <2>4, <1>1, <1>7 DEF RenderedOK
<1>16. ReadOK'
  BY <1>1, <1>4 DEF RInv, ReadOK
<1> QED BY <1>11, <1>12, <1>13, <1>14, <1>15, <1>16 DEF RInv

LEMMA StepDeletePermission ==
    ASSUME RolesAssumption, RInv, ~rash, NEW p \in Perms, DeletePermission(p)
    PROVE  RInv'
<1> DEFINE f == [r \in DOMAIN permits |-> Omit(permits[r], {p})]
<1>1. /\ saved = "no" /\ "permissions" \in visible /\ p \in application.permissions
      /\ marked' = marked \ {p} /\ visible' = visible \ {"permissions"}
      /\ chosen' = Dropped(chosen, p) /\ rendered' = rendered \ {p}
      /\ UNCHANGED <<awaited, read, policies, forms, saved, shown>>
  BY RenderedIs DEF DeletePermission, OnPage
<1>2. db' = [db EXCEPT !.permissions = @ \ {p}, !.assigned = Dropped(@, p)]
  BY DEF DeletePermission
<1>3. application' = [application EXCEPT !.permissions = @ \ {p}, !.role_permission_assign = f]
  BY DEF DeletePermission, permits, RInv, RolesTypes, Globals
<1>4. "roles" \notin awaited /\ p \notin Ids /\ p \notin Policies
  BY <1>1 DEF RInv, NotYet, RolesAssumption
<1>5. /\ db'.roles = db.roles /\ db'.permissions = db.permissions \ {p}
      /\ db'.policies = db.policies
      /\ db'.assigned = Dropped(db.assigned, p) /\ db'.used = db.used
      /\ DOMAIN db' = Rights /\ db' = [x \in Rights |-> db'[x]]
  BY <1>2 DEF RInv, RolesTypes, Rights
<1>6. Dropped(db.assigned, p) \subseteq (db.roles \ {Provider}) \X (db.permissions \ {p})
      /\ Dropped(db.assigned, p) \subseteq db.assigned
  BY DEF Dropped, RInv, RolesTypes
<1>7. /\ chosen' \subseteq db.roles \X ((db.permissions \ {p}) \cup db.policies)
      /\ \A s \in Ids : /\ OfRole(chosen', s, Perms) = OfRole(chosen, s, Perms) \ {p}
                        /\ OfRole(chosen', s, Policies) = OfRole(chosen, s, Policies)
  <2>1. chosen' = {y \in chosen : p # y[1] /\ p # y[2]}
    BY <1>1 DEF Dropped
  <2>2. chosen' \subseteq db.roles \X ((db.permissions \ {p}) \cup db.policies)
    BY <2>1 DEF RInv, RolesTypes
  <2>3. ASSUME NEW s \in Ids
        PROVE  /\ OfRole(chosen', s, Perms) = OfRole(chosen, s, Perms) \ {p}
               /\ OfRole(chosen', s, Policies) = OfRole(chosen, s, Policies)
    BY <2>1, <1>4 DEF OfRole
  <2> QED BY <2>2, <2>3
<1>8. /\ DOMAIN f = DOMAIN permits
      /\ \A s \in Ids : EachOnce(At(f, s), OfRole(chosen', s, Perms))
  <2>1. ASSUME NEW s \in Ids PROVE EachOnce(At(f, s), OfRole(chosen, s, Perms) \ {p})
    <3> DEFINE T == OfRole(chosen, s, Perms)
    <3>1. EachOnce(At(permits, s), T)
      BY <1>4 DEF RInv, PermitsOK
    <3>2. CASE s \in DOMAIN permits
      <4>1. At(f, s) = Omit(permits[s], {p}) /\ At(permits, s) = permits[s]
        BY <3>2 DEF At
      <4> HIDE DEF T, f
      <4> QED BY <3>1, <4>1, EachOnceOmit DEF T
    <3>3. CASE s \notin DOMAIN permits
      <4>1. At(f, s) = <<>> /\ T = {}
        BY <3>1, <3>3, ListedIs DEF At
      <4> HIDE DEF f
      <4> QED BY <4>1, EachOnceEmpty
    <3> QED BY <3>2, <3>3
  <2> HIDE DEF f
  <2>2. DOMAIN f = DOMAIN permits
    BY DEF f
  <2> QED BY <2>1, <2>2, <1>7
<1> HIDE DEF f
<1>9. /\ application'.roles = application.roles
      /\ application'.permissions = application.permissions \ {p}
      /\ permits' = f /\ uses' = uses
      /\ DOMAIN application' = Globals
      /\ application' = [x \in Globals |-> application'[x]]
  BY <1>3 DEF RInv, RolesTypes, Globals, permits, uses
<1>10. RolesTypes'
  BY <1>1, <1>5, <1>6, <1>7, <1>8, <1>9 DEF RInv, RolesTypes
<1>11. NotYet' /\ SavedAsChosen'
  BY <1>1, <1>4 DEF NotYet, SavedAsChosen
<1>12. PermitsOK'
  <2>1. \A y \in db'.assigned : y[1] \in DOMAIN f
    BY <1>1, <1>4, <1>5, <1>6, <1>8 DEF RInv, PermitsOK
  <2> QED BY <2>1, <1>1, <1>4, <1>5, <1>8, <1>9 DEF RInv, PermitsOK
<1>13. UsesOK'
  BY <1>1, <1>5, <1>7, <1>9 DEF RInv, UsesOK
<1>14. ShownOK'
  <2> SUFFICES ASSUME shown # None PROVE ShownOK'
    BY <1>1 DEF ShownOK
  <2>1. /\ shown \in db.roles /\ shown \in Ids
        /\ marked = ToSet(At(permits, shown)) \cup ToSet(At(uses, shown))
    BY DEF RInv, ShownOK, RolesTypes
  <2>2. ToSet(At(f, shown)) = ToSet(At(permits, shown)) \ {p}
    BY <2>1, <1>4, <1>7, <1>8, RowsListed DEF EachOnce
  <2>3. p \notin ToSet(At(uses, shown))
    <3>1. ToSet(At(uses, shown)) \subseteq policies
      BY <2>1, <1>4, RowsListed
    <3>2. policies \subseteq Policies
      BY DEF RInv, UsesOK, RolesTypes
    <3> QED BY <3>1, <3>2, <1>4
  <2>4. marked' = ToSet(At(f, shown)) \cup ToSet(At(uses, shown))
    BY <1>1, <2>1, <2>2, <2>3
  <2> QED BY <2>1, <2>4, <1>1, <1>5, <1>9 DEF ShownOK
<1>15. RenderedOK'
  <2>1. p \notin application.roles /\ p \notin policies
    BY <1>4, RenderedIs
  <2> QED BY <1>1, <1>9, <2>1 DEF RInv, RenderedOK
<1>16. ReadOK'
  <2>1. SentPolicies' = SentPolicies
    BY <1>5 DEF SentPolicies
  <2> HIDE DEF SentPolicies
  <2> QED BY <1>1, <1>4, <2>1 DEF RInv, ReadOK
<1> QED BY <1>10, <1>11, <1>12, <1>13, <1>14, <1>15, <1>16 DEF RInv

\* Every role that has rows is posted, so none of the old rows is left.
LEMMA StepSave ==
    ASSUME RolesAssumption, RInv, ~rash, Save
    PROVE  RInv'
<1> DEFINE R == db.roles
           as == RowsFor(R, db.permissions, Perms)
           us == RowsFor(R, db.policies, Policies)
<1>1. /\ saved = "no"
      /\ db' = [db EXCEPT !.assigned = UpdateAccessControl, !.used = UpdateUsageControl]
      /\ saved' = IF Accepted(permits, db.permissions) /\ Accepted(uses, db.policies)
                  THEN "saved" ELSE "error"
      /\ UNCHANGED <<awaited, read, application, policies, rendered, forms, visible, marked,
                     shown, chosen>>
  BY DEF Save, OnPage, permits, uses
<1>2. /\ R \in SUBSET Ids /\ DOMAIN permits \subseteq R /\ DOMAIN uses \subseteq R
      /\ db.assigned \subseteq (R \ {Provider}) \X db.permissions
      /\ db.used \subseteq (R \ {Provider}) \X db.policies
      /\ chosen \subseteq R \X (db.permissions \cup db.policies)
      /\ db.permissions \subseteq Perms /\ db.policies \subseteq Policies
  BY DEF RInv, RolesTypes
<1>3. \A r \in R : /\ OfRole(chosen, r, Perms) \subseteq db.permissions
                   /\ OfRole(chosen, r, Policies) \subseteq db.policies
  BY <1>2 DEF OfRole, RolesAssumption
<1>4. Accepted(permits, db.permissions) /\ UpdateAccessControl = as
  <2>1. UpdateAccessControl = Replaced(db.assigned, permits, db.permissions)
    BY DEF UpdateAccessControl, permits
  <2>2. CASE "roles" \notin awaited
    <3>1. /\ \A r \in R : EachOnce(At(permits, r), OfRole(chosen, r, Perms))
          /\ \A y \in db.assigned : y[1] \in DOMAIN permits
      BY <2>2, <1>1, <1>2 DEF RInv, PermitsOK
    <3> QED BY <1>2, <1>3, <2>1, <3>1, ReplacedIs
  <2>3. CASE "roles" \in awaited
    <3>1. permits = <<>> /\ chosen = db.assigned \cup db.used
      BY <2>3, <1>1 DEF RInv, NotYet
    <3>2. \A r \in Ids : OfRole(chosen, r, Perms) = OfRole(db.assigned, r, Perms)
      BY <3>1, Apart DEF RInv
    <3> QED BY <1>2, <2>1, <3>1, <3>2, NothingPosted
  <2> QED BY <2>2, <2>3
<1>5. Accepted(uses, db.policies) /\ UpdateUsageControl = us
  <2>1. UpdateUsageControl = Replaced(db.used, uses, db.policies)
    BY DEF UpdateUsageControl, uses
  <2>2. CASE "policies" \notin awaited
    <3>1. /\ \A r \in R : EachOnce(At(uses, r), OfRole(chosen, r, Policies))
          /\ \A y \in db.used : y[1] \in DOMAIN uses
      BY <2>2, <1>1, <1>2 DEF RInv, UsesOK
    <3> QED BY <1>2, <1>3, <2>1, <3>1, ReplacedIs
  <2>3. CASE "policies" \in awaited
    <3>1. /\ uses = <<>>
          /\ \A r \in Ids : OfRole(chosen, r, Policies) = OfRole(db.used, r, Policies)
      BY <2>3 DEF RInv, UsesOK
    <3> QED BY <1>2, <2>1, <3>1, NothingPosted
  <2> QED BY <2>2, <2>3
<1>6. \A y \in as \cup us \cup chosen : y[1] \in Own => (y \in as \cup us <=> y \in chosen)
  <2>1. ASSUME NEW y \in as \cup us PROVE y \in chosen
    BY DEF OfRole, RowsFor
  <2>2. ASSUME NEW y \in chosen, y[1] \in Own PROVE y \in as \cup us
    <3>1. PICK r \in R, x \in db.permissions \cup db.policies : y = <<r, x>>
      BY <1>2
    <3>2. r # Provider
      BY <2>2, <3>1 DEF Own
    <3> QED BY <3>1, <3>2, <1>2 DEF OfRole, RowsFor
  <2> QED BY <2>1, <2>2
<1>7. as \subseteq (R \ {Provider}) \X db.permissions /\ us \subseteq (R \ {Provider}) \X db.policies
  BY DEF RowsFor
<1> HIDE DEF as, us
<1>8. /\ db'.roles = db.roles /\ db'.permissions = db.permissions
      /\ db'.policies = db.policies /\ db'.assigned = as /\ db'.used = us
      /\ DOMAIN db' = Rights /\ db' = [x \in Rights |-> db'[x]]
      /\ saved' = "saved"
  BY <1>1, <1>4, <1>5 DEF RInv, RolesTypes, Rights
<1>9. RolesTypes'
  BY <1>1, <1>7, <1>8 DEF RInv, RolesTypes, permits, uses
<1>10. NotYet' /\ ShownOK'
  BY <1>1, <1>8 DEF RInv, NotYet, ShownOK, permits, uses
<1>11. PermitsOK'
  BY <1>1, <1>8 DEF RInv, PermitsOK, permits
<1>12. UsesOK'
  <2>1. ASSUME NEW r \in Ids, "policies" \in awaited
        PROVE  OfRole(chosen, r, Policies) = OfRole(us, r, Policies)
    <3>1. ASSUME NEW q \in Policies, <<r, q>> \in chosen PROVE <<r, q>> \in us
      <4>1. <<r, q>> \in db.used
        BY <2>1, <3>1 DEF RInv, UsesOK, OfRole
      <4>2. r \in R \ {Provider} /\ q \in db.policies
        BY <4>1, <1>2
      <4> QED BY <4>2, <3>1 DEF us, OfRole, RowsFor
    <3>2. ASSUME NEW q \in Policies, <<r, q>> \in us PROVE <<r, q>> \in chosen
      BY <3>2 DEF us, OfRole, RowsFor
    <3> QED BY <3>1, <3>2 DEF OfRole
  <2> QED BY <2>1, <1>1, <1>8 DEF RInv, UsesOK, uses
<1>13. SavedAsChosen'
  BY <1>1, <1>6, <1>8 DEF SavedAsChosen
<1>14. RenderedOK' /\ ReadOK'
  BY <1>1, <1>8 DEF RInv, RenderedOK, ReadOK
<1> QED BY <1>9, <1>10, <1>11, <1>12, <1>13, <1>14 DEF RInv

LEMMA StepRInv ==
    ASSUME RolesAssumption, rash \/ RInv, [RolesNext]_rolesVars
    PROVE  (rash \/ RInv)'
<1>1. rash => rash'
  BY DEF RolesNext, rolesVars, ReadRoles, ReadPolicies, ManageRoles, UsagePolicies, NoAnswer,
         Save, ClickRole,
         EditName, CancelName, SubmitName, CreateRole, DeleteRole, NameAnswered,
         ClickPermission, CreatePermission, DeletePermission, ClickPolicy, CreatePolicy, Chose
<1> SUFFICES ASSUME ~rash' PROVE RInv'
  OBVIOUS
<1>2. RInv /\ ~rash
  BY <1>1
<1>3. CASE UNCHANGED rolesVars
  BY <1>2, <1>3, Unseen DEF rolesVars, seen, RInv, NotYet
<1>r. CASE ReadRoles \/ ReadPolicies
  BY <1>2, <1>r, StepReads
<1>4. CASE ManageRoles
  BY <1>2, <1>4, StepManageRoles
<1>5. CASE UsagePolicies
  BY <1>2, <1>5, StepUsagePolicies
<1>6. ~NoAnswer
  BY DEF NoAnswer
<1>7. CASE Save
  BY <1>2, <1>7, StepSave
<1>8. ASSUME NEW r \in Ids, ClickRole(r) \/ EditName(r) PROVE RInv'
  <2>1. /\ r \in Rows /\ saved = "no" /\ Show(r)
        /\ UNCHANGED <<db, read, application, policies, rendered, awaited, saved, chosen>>
    BY <1>8 DEF ClickRole, EditName, OnPage
  <2> QED BY <2>1, <1>2, StepShow
<1>9. ASSUME NEW r \in Ids, \/ CancelName(r) \/ SubmitName(r)
                            \/ \E ok \in BOOLEAN : NameAnswered(r, ok)
      PROVE  RInv'
  <2>1. UNCHANGED seen /\ (forms' = {} \/ forms # {})
    BY <1>9 DEF CancelName, SubmitName, NameAnswered, seen
  <2>2. forms # {} => "roles" \notin awaited
    BY <1>2 DEF RInv, NotYet
  <2> QED BY <2>1, <2>2, <1>2, Unseen
<1>10. ASSUME NEW r \in Ids, DeleteRole(r) PROVE RInv'
  BY <1>2, <1>10, StepDeleteRole
<1>11. ASSUME NEW p \in Perms, ClickPermission(p) PROVE RInv'
  BY <1>2, <1>11, StepClickPermission
<1>12. ASSUME NEW p \in Perms, DeletePermission(p) PROVE RInv'
  BY <1>2, <1>12, StepDeletePermission
<1>13. ASSUME NEW q \in Policies, ClickPolicy(q) PROVE RInv'
  BY <1>2, <1>13, StepClickPolicy
<1>14. ASSUME \/ \E r \in Ids : CreateRole(r)
              \/ \E p \in Perms : CreatePermission(p)
              \/ \E q \in Policies : CreatePolicy(q)
       PROVE  RInv'
  BY <1>2, <1>14, StepCreates
<1> HIDE DEF RInv
<1> QED BY <1>3, <1>r, <1>4, <1>5, <1>6, <1>7, <1>8, <1>9, <1>10, <1>11, <1>12, <1>13,
           <1>14
        DEF RolesNext

LEMMA RInvAlways == ASSUME RolesAssumption PROVE RolesSpec => [](rash \/ RInv)
<1>1. RolesInit => rash \/ RInv
  BY InitRInv
<1>2. (rash \/ RInv) /\ [RolesNext]_rolesVars => (rash \/ RInv)'
  BY StepRInv
<1> QED BY <1>1, <1>2, PTL DEF RolesSpec

\* What is stored after the roles page is saved is what the person chose, for
\* any roles, permissions and policies and any number of clicks, creations and
\* deletions in between (handle_roles.js, handle_permissions.js,
\* handle_usage_policies.js and role_permissions_assign of controllers/web/roles.js).
THEOREM PageSavesTheChoices ==
  ASSUME RolesAssumption PROVE RolesSpec => []SavedAsChosen
<1>1. rash \/ RInv => SavedAsChosen
  BY DEF RInv, SavedAsChosen
<1> QED BY <1>1, RInvAlways, PTL

\* The marks of the role that is shown are what will be posted for it, each
\* once, so that a click on a mark does what it shows (the click handlers of
\* handle_permissions.js and handle_usage_policies.js go by the mark alone).
THEOREM MarksSayWhatAClickDoes ==
  ASSUME RolesAssumption PROVE RolesSpec => []MarksAgree
<1>1. ASSUME rash \/ RInv PROVE MarksAgree
  <2> SUFFICES ASSUME shown \in Own, ~rash, RInv
               PROVE  /\ marked = ToSet(At(permits, shown) \o At(uses, shown))
                      /\ IsInjective(At(permits, shown) \o At(uses, shown))
    BY <1>1 DEF MarksAgree, At, permits, uses
  <2> DEFINE P == OfRole(chosen, shown, Perms)
             U == IF "policies" \in awaited THEN {} ELSE OfRole(chosen, shown, Policies)
             a == At(permits, shown)
             u == At(uses, shown)
  <2>1. shown \in Ids /\ shown # None
    BY DEF Own, RolesAssumption
  <2>2. marked = ToSet(a) \cup ToSet(u) /\ "roles" \notin awaited
    BY <2>1 DEF RInv, ShownOK, NotYet
  <2>3. EachOnce(a, P)
    BY <2>1, <2>2 DEF RInv, PermitsOK
  <2>4. EachOnce(u, U)
    BY <2>1, NothingListed, EachOnceEmpty DEF RInv, UsesOK, At
  <2>5. P \cap U = {}
    BY DEF OfRole, RolesAssumption
  <2> HIDE DEF P, U, a, u
  <2>6. EachOnce(a \o u, P \cup U)
    BY <2>3, <2>4, <2>5, EachOnceConcat
  <2>7. marked = ToSet(a \o u) /\ IsInjective(a \o u)
    BY <2>2, <2>3, <2>4, <2>6 DEF EachOnce
  <2> QED BY <2>7 DEF a, u
<1>2. rash \/ RInv => MarksAgree
  BY <1>1
<1> QED BY <1>2, RInvAlways, PTL

-----------------------------------------------------------------------------
(* AccountsPage: what the selection and the rows do to sequences. *)

LEMMA SelectsEach ==
    ASSUME NEW s, NEW T, EachOnce(s, T), NEW xs, IsSeq(xs)
    PROVE  EachOnce(SelectEach(s, xs), T \cup ToSet(xs))
<1> DEFINE at == {i \in DOMAIN xs : xs[i] \notin T /\ \A j \in 1..(i - 1) : xs[j] # xs[i]}
           U == ToSet(xs)
           new == SelectPositions(xs, at)
<1>1. EachOnce(new, U \ T)
  BY EachOnceFirsts
<1>2. ToSet(s) = T
  BY DEF EachOnce
<1>3. SelectEach(s, xs) = s \o new
  BY <1>2 DEF SelectEach
<1> HIDE DEF new, U
<1>4. EachOnce(s \o new, T \cup (U \ T))
  <2>1. T \cap (U \ T) = {}
    OBVIOUS
  <2> DEFINE V == U \ T
  <2> HIDE DEF V
  <2> QED BY <1>1, <2>1, EachOnceConcat DEF V
<1>5. T \cup (U \ T) = T \cup U
  OBVIOUS
<1> QED BY <1>3, <1>4, <1>5 DEF U

LEMMA UnselectsEach ==
    ASSUME NEW s, NEW T, EachOnce(s, T), NEW xs, IsSeq(xs)
    PROVE  EachOnce(UnselectEach(s, xs), T \ ToSet(xs))
<1> DEFINE times(x) == Cardinality({k \in DOMAIN xs : xs[k] = x})
           before(i) == Cardinality({j \in 1..(i - 1) : s[j] = s[i]})
           at == {i \in DOMAIN s : before(i) >= times(s[i])}
           left == {i \in DOMAIN s : s[i] \notin ToSet(xs)}
<1>1. /\ Len(s) \in Nat /\ DOMAIN s = 1..Len(s)
      /\ \A i, j \in 1..Len(s) : s[i] = s[j] => i = j
  BY EachOnceGives
<1>2. DOMAIN xs = 1..Len(xs) /\ Len(xs) \in Nat
  BY DEF IsSeq
<1>3. ASSUME NEW i \in DOMAIN s PROVE before(i) = 0
  <2>1. {j \in 1..(i - 1) : s[j] = s[i]} = {}
    BY <1>1
  <2> QED BY <2>1, FS_EmptySet
<1>4. ASSUME NEW x PROVE times(x) \in Nat /\ (times(x) = 0 <=> x \notin ToSet(xs))
  <2> DEFINE K == {k \in DOMAIN xs : xs[k] = x}
  <2>1. IsFiniteSet(K)
    <3>1. IsFiniteSet(1..Len(xs))
      BY <1>2, FS_Interval
    <3> QED BY <3>1, <1>2, FS_Subset
  <2>2. K = {} <=> x \notin ToSet(xs)
    BY DEF ToSet
  <2> HIDE DEF K
  <2>3. Cardinality(K) \in Nat /\ (Cardinality(K) = 0 <=> K = {})
    BY <2>1, FS_CardinalityType, FS_EmptySet
  <2> QED BY <2>2, <2>3 DEF K
<1>5. UnselectEach(s, xs) = SelectPositions(s, at)
  BY DEF UnselectEach
<1> HIDE DEF times, before
<1>6. \A i \in DOMAIN s : before(i) >= times(s[i]) <=> s[i] \notin ToSet(xs)
  BY <1>3, <1>4
<1>7. at = left
  BY <1>6
<1>8. UnselectEach(s, xs) = Omit(s, ToSet(xs))
  <2> HIDE DEF at
  <2> QED BY <1>5, <1>7 DEF Omit
<1> QED BY <1>8, EachOnceOmit

LEMMA Sliced ==
    ASSUME NEW s, IsSeq(s), NEW n \in Int, n >= 1, NEW size \in Nat, size >= 1
    PROVE  IsSeq(Slice(s, n, size)) /\ ToSet(Slice(s, n, size)) \subseteq ToSet(s)
<1> DEFINE a == size * (n - 1) + 1
           b == IF size * n < Len(s) THEN size * n ELSE Len(s)
           r == SubSeq(s, a, b)
           T == ToSet(s)
<1>1. s \in Seq(T) /\ Len(s) \in Nat
  BY DEF IsSeq
<1>2. a \in Nat /\ a >= 1 /\ b \in Int /\ b <= Len(s)
  <2>1. \A m \in Nat : size * m \in Nat
    OBVIOUS
  <2>2. size * (n - 1) \in Nat /\ size * n \in Nat
    BY <2>1
  <2> QED BY <2>2, <1>1
<1> HIDE DEF T, a, b
<1>3. r \in Seq(T)
  BY <1>1, <1>2
<1>4. IsSeq(r) /\ ToSet(r) \subseteq T
  <2> HIDE DEF r
  <2> QED BY <1>3, IsSeqIs
<1> QED BY <1>4 DEF Slice, T, r, a, b

LEMMA OneMore ==
    ASSUME NEW s, IsSeq(s), NEW x
    PROVE  IsSeq(Append(s, x)) /\ ToSet(Append(s, x)) = ToSet(s) \cup {x}
<1> DEFINE T == ToSet(s) \cup {x}
           r == Append(s, x)
<1>1. s \in Seq(T) /\ Len(s) \in Nat /\ DOMAIN s = 1..Len(s)
  <2>1. s \in Seq(ToSet(s))
    BY DEF IsSeq
  <2> QED BY <2>1
<1>2. r \in Seq(T) /\ Len(r) = Len(s) + 1 /\ DOMAIN r = 1..(Len(s) + 1)
      /\ r[Len(s) + 1] = x /\ \A i \in 1..Len(s) : r[i] = s[i]
  <2> HIDE DEF T
  <2>1. x \in T
    BY DEF T
  <2> QED BY <1>1, <2>1
<1> HIDE DEF r
<1>3. ToSet(r) = T
  <2>1. \A i \in 1..Len(s) : s[i] \in T
    BY <1>1 DEF ToSet
  <2>2. ASSUME NEW y \in ToSet(s) PROVE y \in ToSet(r)
    <3>1. PICK i \in 1..Len(s) : s[i] = y
      BY <1>1 DEF ToSet
    <3>2. i \in DOMAIN r /\ r[i] = y
      BY <3>1, <1>1, <1>2
    <3> QED BY <3>2 DEF ToSet
  <2>3. x \in ToSet(r)
    <3>1. Len(s) + 1 \in DOMAIN r
      BY <1>1, <1>2
    <3> QED BY <3>1, <1>2 DEF ToSet
  <2>4. ToSet(r) \subseteq T
    <3> HIDE DEF T
    <3> QED BY <1>2, IsSeqIs
  <2> QED BY <2>2, <2>3, <2>4
<1> QED BY <1>2, <1>3 DEF IsSeq, r

-----------------------------------------------------------------------------
(* AccountsPage: what is ticked is what is selected.  The rows are of users  *)
(* (RowsOK), so that nobody else can be selected, until a deletion leaves    *)
(* the row of an account that is gone.                                       *)

RowsOK ==
    /\ IsSeq(users) /\ IsSeq(users_filter) /\ IsSeq(table)
    /\ ToSet(users_filter) \subseteq ToSet(users) /\ ToSet(table) \subseteq ToSet(users)
    /\ users_per_page \in Nat /\ users_per_page >= 1
SelectionOK ==
    /\ checked = ToSet(table) \cap ToSet(users_selected)
    /\ EachOnce(users_selected, ToSet(users_selected))
    /\ ToSet(users_selected) \subseteq ToSet(users)
PInv == RowsOK /\ SelectionOK

LEMMA InitPInv == ASSUME AccountsPageAssumption, AccountsInit PROVE PInv
<1>1. /\ users = SetToSeq(DOMAIN accounts) /\ users_filter = <<>> /\ users_selected = <<>>
      /\ table = Slice(users, 1, users_per_page) /\ checked = {}
      /\ users_per_page \in Sizes
  BY DEF AccountsInit
<1>2. PICK U \in SUBSET Users : accounts \in [U -> [name : Names \ Refused, enabled : {TRUE}]]
  BY DEF AccountsInit
<1>3. IsFiniteSet(DOMAIN accounts)
  BY <1>2, FS_Subset DEF AccountsPageAssumption
<1>4. EachOnce(users, DOMAIN accounts)
  BY <1>1, <1>3, EachOnceSetToSeq
<1>5. IsSeq(users)
  BY <1>4 DEF EachOnce, IsSeq
<1>6. users_per_page \in Nat /\ users_per_page >= 1
  BY <1>1 DEF AccountsPageAssumption
<1>7. IsSeq(table) /\ ToSet(table) \subseteq ToSet(users)
  BY <1>1, <1>5, <1>6, Sliced
<1>8. EachOnce(<<>>, {}) /\ ToSet(<<>>) = {} /\ IsSeq(<<>>)
  BY EachOnceEmpty, NothingListed DEF IsSeq, EachOnce
<1> QED BY <1>1, <1>5, <1>6, <1>7, <1>8 DEF PInv, RowsOK, SelectionOK

\* The rows are drawn again, of users that may be more.
LEMMA RowsDrawn ==
    ASSUME PInv, IsSeq(users'), ToSet(users) \subseteq ToSet(users'),
           IsSeq(users_filter'), ToSet(users_filter') \subseteq ToSet(users'),
           users_per_page' \in Nat, users_per_page' >= 1,
           IsSeq(table'), ToSet(table') \subseteq ToSet(users'),
           users_selected' = users_selected,
           checked' = ToSet(table') \cap ToSet(users_selected)
    PROVE  PInv'
<1>1. RowsOK'
  BY DEF RowsOK
<1>2. SelectionOK'
  BY DEF PInv, SelectionOK
<1> QED BY <1>1, <1>2 DEF PInv

LEMMA PageSliced ==
    ASSUME NEW us, NEW fs, IsSeq(us), IsSeq(fs), ToSet(fs) \subseteq ToSet(us),
           NEW n \in Int, n >= 1, NEW size \in Nat, size >= 1
    PROVE  /\ IsSeq(Slice(UsersListed(us, fs), n, size))
           /\ ToSet(Slice(UsersListed(us, fs), n, size)) \subseteq ToSet(us)
<1>1. IsSeq(UsersListed(us, fs)) /\ ToSet(UsersListed(us, fs)) \subseteq ToSet(us)
  BY DEF UsersListed
<1> QED BY <1>1, Sliced

LEMMA PInvDrawing ==
    ASSUME AccountsPageAssumption, PInv,
           \/ ChangeEntries \/ FilterUsers
           \/ \E n \in 1..Cardinality(Users) : TurnTable(n)
           \/ \E f \in Filters : FilterTyped(f)
    PROVE  PInv'
<1>1. CASE ChangeEntries
  <2>1. /\ users_per_page' \in Sizes /\ table' = Slice(users, 1, users_per_page')
        /\ checked' = ToSet(table') \cap ToSet(users_selected)
        /\ UNCHANGED <<users, users_filter, users_selected, tired>>
    BY <1>1 DEF ChangeEntries, RenderRows, historyVars
  <2>2. users_per_page' \in Nat /\ users_per_page' >= 1
    BY <2>1 DEF AccountsPageAssumption
  <2>3. IsSeq(table') /\ ToSet(table') \subseteq ToSet(users)
    BY <2>1, <2>2, Sliced DEF PInv, RowsOK
  <2> QED BY <2>1, <2>2, <2>3, RowsDrawn DEF PInv, RowsOK
<1>2. CASE FilterUsers
  <2> DEFINE at == {i \in DOMAIN users : Passes(entry[users[i]].name, filter)}
             new == SelectPositions(users, at)
  <2>1. /\ users_filter' = users_filter \o new
        /\ table' = Slice(users_filter', 1, users_per_page)
        /\ checked' = ToSet(table') \cap ToSet(users_selected)
        /\ UNCHANGED <<users, users_per_page, users_selected, tired>>
    BY <1>2 DEF FilterUsers, RenderRows, historyVars
  <2>2. IsSeq(new) /\ ToSet(new) \subseteq ToSet(users)
    <3> HIDE DEF at
    <3> QED BY SelectsSome DEF PInv, RowsOK
  <2> HIDE DEF new
  <2>3. IsSeq(users_filter') /\ ToSet(users_filter') \subseteq ToSet(users)
    BY <2>1, <2>2, ToSetConcat DEF PInv, RowsOK
  <2>4. IsSeq(table') /\ ToSet(table') \subseteq ToSet(users_filter')
    BY <2>1, <2>3, Sliced DEF PInv, RowsOK
  <2> QED BY <2>1, <2>3, <2>4, RowsDrawn DEF PInv, RowsOK
<1>3. ASSUME NEW n \in 1..Cardinality(Users), TurnTable(n) PROVE PInv'
  <2>1. /\ table' = Slice(UsersListed(users, users_filter), n, users_per_page)
        /\ checked' = ToSet(table') \cap ToSet(users_selected)
        /\ UNCHANGED <<users, users_filter, users_per_page, users_selected, tired>>
    BY <1>3 DEF TurnTable, historyVars, pageVars
  <2>2. n \in Int /\ n >= 1
    BY FS_CardinalityType DEF AccountsPageAssumption
  <2>3. IsSeq(table') /\ ToSet(table') \subseteq ToSet(users)
    BY <2>1, <2>2, PageSliced DEF PInv, RowsOK
  <2> QED BY <2>1, <2>3, RowsDrawn DEF PInv, RowsOK
<1>4. ASSUME NEW f \in Filters, FilterTyped(f) PROVE PInv'
  <2>1. /\ users_filter' = <<>>
        /\ UNCHANGED <<users, users_per_page, users_selected, table, checked, tired>>
    BY <1>4 DEF FilterTyped, historyVars, tableVars
  <2>2. IsSeq(<<>>) /\ ToSet(<<>>) = {}
    BY NothingListed DEF IsSeq
  <2> QED BY <2>1, <2>2 DEF PInv, RowsOK, SelectionOK
<1> QED BY <1>1, <1>2, <1>3, <1>4

LEMMA PInvChoosing ==
    ASSUME AccountsPageAssumption, PInv, ChangeCheckAll \/ \E u \in Users : ChangeCheck(u)
    PROVE  PInv'
<1> DEFINE T == ToSet(users_selected)
<1>1. UNCHANGED <<users, users_filter, users_per_page, table>>
  BY DEF ChangeCheckAll, ChangeCheck
<1>2. RowsOK'
  BY <1>1 DEF PInv, RowsOK
<1> SUFFICES SelectionOK'
  BY <1>2 DEF PInv
<1>3. EachOnce(users_selected, T) /\ T \subseteq ToSet(users) /\ checked = ToSet(table) \cap T
  BY DEF PInv, SelectionOK
<1>4. ToSet(table) \subseteq ToSet(users) /\ IsSeq(table)
  BY DEF PInv, RowsOK
<1>5. ASSUME ChangeCheckAll PROVE SelectionOK'
  <2>1. \/ /\ users_selected' = SelectEach(users_selected, table)
           /\ checked' = IF ToSet(table) \cap T # ToSet(table) THEN ToSet(table) ELSE checked
        \/ /\ users_selected' = UnselectEach(users_selected, table)
           /\ checked' = IF ToSet(table) \cap T # {} THEN {} ELSE checked
    BY <1>5 DEF ChangeCheckAll
  <2>2. EachOnce(SelectEach(users_selected, table), T \cup ToSet(table))
    BY <1>3, <1>4, SelectsEach
  <2>3. EachOnce(UnselectEach(users_selected, table), T \ ToSet(table))
    BY <1>3, <1>4, UnselectsEach
  <2> HIDE DEF T
  <2>4. CASE /\ users_selected' = SelectEach(users_selected, table)
             /\ checked' = IF ToSet(table) \cap T # ToSet(table) THEN ToSet(table) ELSE checked
    <3>1. ToSet(users_selected') = T \cup ToSet(table)
      BY <2>2, <2>4 DEF EachOnce
    <3> QED BY <1>1, <1>3, <1>4, <2>2, <2>4, <3>1 DEF SelectionOK
  <2>5. CASE /\ users_selected' = UnselectEach(users_selected, table)
             /\ checked' = IF ToSet(table) \cap T # {} THEN {} ELSE checked
    <3>1. ToSet(users_selected') = T \ ToSet(table)
      BY <2>3, <2>5 DEF EachOnce
    <3> QED BY <1>1, <1>3, <1>4, <2>3, <2>5, <3>1 DEF SelectionOK
  <2> QED BY <2>1, <2>4, <2>5
<1>6. ASSUME NEW u \in Users, ChangeCheck(u) PROVE SelectionOK'
  <2>1. u \in ToSet(table)
    BY <1>6 DEF ChangeCheck
  <2>2. CASE u \in checked
    <3>1. u \in T /\ checked' = checked \ {u} /\ users_selected' = RemoveFirst(users_selected, u)
      BY <1>3, <1>6, <2>2 DEF ChangeCheck, Unselect
    <3> HIDE DEF T
    <3>2. EachOnce(users_selected', T \ {u})
      BY <3>1, <1>3, EachOnceRemoveFirst
    <3>3. ToSet(users_selected') = T \ {u}
      BY <3>2 DEF EachOnce
    <3> QED BY <1>1, <1>3, <3>1, <3>2, <3>3 DEF SelectionOK
  <2>3. CASE u \notin checked
    <3>1. u \notin T /\ checked' = checked \cup {u} /\ users_selected' = Append(users_selected, u)
      BY <1>3, <1>6, <2>1, <2>3 DEF ChangeCheck
    <3> HIDE DEF T
    <3>2. EachOnce(users_selected', T \cup {u})
      BY <3>1, <1>3, EachOnceAppend
    <3>3. ToSet(users_selected') = T \cup {u}
      BY <3>2 DEF EachOnce
    <3> QED BY <1>1, <1>3, <1>4, <2>1, <3>1, <3>2, <3>3 DEF SelectionOK
  <2> QED BY <2>2, <2>3
<1> QED BY <1>5, <1>6

\* The users of a new account are one more, and those selected go with a deletion.
LEMMA PInvAnswers ==
    ASSUME AccountsPageAssumption, PInv, NEW q,
           CreateDone(q) \/ DeleteDone(q) \/ DeleteFailed(q)
    PROVE  tired' \/ PInv'
<1>1. CASE CreateDone(q)
  <2>1. /\ users' = Append(users, q.who)
        /\ users_filter' = IF filter # Everyone /\ Passes(q.name, filter)
                           THEN Append(users_filter, q.who) ELSE users_filter
        /\ table' = Slice(UsersListed(users', users_filter'), 1, users_per_page)
        /\ checked' = ToSet(table') \cap ToSet(users_selected)
        /\ UNCHANGED <<users_per_page, users_selected, tired>>
    BY <1>1 DEF CreateDone, RenderRows, historyVars
  <2>2. IsSeq(users') /\ ToSet(users') = ToSet(users) \cup {q.who}
    BY <2>1, OneMore DEF PInv, RowsOK
  <2>3. /\ IsSeq(Append(users_filter, q.who))
        /\ ToSet(Append(users_filter, q.who)) = ToSet(users_filter) \cup {q.who}
    BY OneMore DEF PInv, RowsOK
  <2>4. IsSeq(users_filter') /\ ToSet(users_filter') \subseteq ToSet(users')
    BY <2>1, <2>2, <2>3 DEF PInv, RowsOK
  <2>5. IsSeq(table') /\ ToSet(table') \subseteq ToSet(users')
    BY <2>1, <2>2, <2>4, PageSliced DEF PInv, RowsOK
  <2> QED BY <2>1, <2>2, <2>4, <2>5, RowsDrawn DEF PInv, RowsOK
<1>2. CASE DeleteDone(q)
  <2> DEFINE gone == ToSet(users) \cap ToSet(users_selected)
             T == ToSet(users_selected)
  <2> SUFFICES ASSUME ~ tired' PROVE PInv'
    OBVIOUS
  <2>1. /\ users' = Omit(users, gone)
        /\ users_filter' = UnselectEach(users_filter, SetToSeq(gone))
        /\ ToSet(users_filter') \cap gone = {}
        /\ users_selected' = UnselectEach(users_selected, SetToSeq(gone))
        /\ table' = Slice(UsersListed(users', users_filter'), 1, users_per_page)
        /\ checked' = {}
        /\ UNCHANGED users_per_page
    BY <1>2 DEF DeleteDone
  <2>2. IsFiniteSet(gone)
    <3>1. IsFiniteSet(ToSet(users))
      BY ListedFinite DEF PInv, RowsOK
    <3> QED BY <3>1, FS_Subset
  <2>3. /\ IsSeq(users') /\ IsSeq(users_filter')
        /\ ToSet(users') = ToSet(users) \ gone
        /\ ToSet(users_filter') \subseteq ToSet(users_filter) \ gone
    <3> HIDE DEF gone
    <3>1. IsSeq(users') /\ ToSet(users') = ToSet(users) \ gone
      BY <2>1, OmitsAll DEF PInv, RowsOK
    <3>2. IsSeq(users_filter') /\ ToSet(users_filter') \subseteq ToSet(users_filter)
      BY <2>1, SelectsSome DEF PInv, RowsOK, UnselectEach
    <3> QED BY <2>1, <3>1, <3>2
  <2>4. ToSet(users_filter') \subseteq ToSet(users')
    BY <2>3 DEF PInv, RowsOK
  <2>5. IsSeq(table') /\ ToSet(table') \subseteq ToSet(users')
    <3>1. users_per_page \in Nat /\ users_per_page >= 1 /\ 1 \in Int /\ 1 >= 1
      BY DEF PInv, RowsOK
    <3>2. IsSeq(users') /\ IsSeq(users_filter')
      BY <2>3
    <3> DEFINE us == users'
               fs == users_filter'
    <3> HIDE DEF us, fs
    <3>3. /\ IsSeq(Slice(UsersListed(us, fs), 1, users_per_page))
          /\ ToSet(Slice(UsersListed(us, fs), 1, users_per_page)) \subseteq ToSet(us)
      BY ONLY <2>4, <3>1, <3>2, PageSliced DEF us, fs
    <3> QED BY <2>1, <3>3 DEF us, fs
  <2>6. RowsOK'
    BY <2>1, <2>3, <2>4, <2>5 DEF PInv, RowsOK
  <2>7. SelectionOK'
    <3>1. EachOnce(users_selected, T) /\ gone = T
      BY DEF PInv, SelectionOK
    <3>2. EachOnce(SetToSeq(gone), gone)
      BY <2>2, EachOnceSetToSeq
    <3> HIDE DEF T, gone
    <3>3. IsSeq(SetToSeq(gone)) /\ ToSet(SetToSeq(gone)) = gone
      BY <3>2 DEF EachOnce, IsSeq
    <3>4. EachOnce(users_selected', T \ gone)
      BY <2>1, <3>1, <3>3, UnselectsEach
    <3>5. EachOnce(users_selected', {}) /\ ToSet(users_selected') = {}
      BY <3>1, <3>4 DEF EachOnce
    <3> QED BY <2>1, <3>5 DEF SelectionOK
  <2> QED BY <2>1, <2>6, <2>7 DEF PInv
<1>3. CASE DeleteFailed(q)
  BY <1>3 DEF DeleteFailed
<1> QED BY <1>1, <1>2, <1>3

LEMMA HistoryStays ==
    ASSUME [AccountsNext]_accountsVars
    PROVE  /\ careless => careless'
           /\ repeated => repeated'
           /\ tired => tired'
<1> USE DEF historyVars, ChangeEntries, FilterUsers, ChangeCheckAll, OpenCreate, OpenDelete,
        CloseDialog, SubmitPassword, SubmitDelete, TurnTable, FilterTyped, ChangeCheck,
        SubmitEnable, OpenUser, SubmitCreate, SubmitEdit, Repeats, Serve, EditDone,
        PasswordDone, EnableDone, CreateDone, DeleteDone, DeleteFailed, Failed, RefusedDone
<1>1. careless => careless'
  BY Zenon DEF AccountsNext, accountsVars
<1>2. repeated => repeated'
  BY Zenon DEF AccountsNext, accountsVars
<1>3. tired => tired'
  BY Zenon DEF AccountsNext, accountsVars
<1> QED BY <1>1, <1>2, <1>3

LEMMA StepPInv ==
    ASSUME AccountsPageAssumption, careless \/ tired \/ PInv, [AccountsNext]_accountsVars
    PROVE  careless' \/ tired' \/ PInv'
<1>a. (careless => careless') /\ (tired => tired')
  BY HistoryStays
<1> SUFFICES ASSUME PInv PROVE careless' \/ tired' \/ PInv'
  BY <1>a
<1>1. CASE UNCHANGED accountsVars
  BY <1>1 DEF accountsVars, PInv, RowsOK, SelectionOK
<1>2. CASE \/ ChangeEntries \/ FilterUsers
           \/ \E n \in 1..Cardinality(Users) : TurnTable(n)
           \/ \E f \in Filters : FilterTyped(f)
  BY <1>2, PInvDrawing
<1>5. CASE ChangeCheckAll \/ \E u \in Users : ChangeCheck(u)
  BY <1>5, PInvChoosing
<1>6. ASSUME NEW q, CreateDone(q) \/ DeleteDone(q) \/ DeleteFailed(q)
      PROVE  tired' \/ PInv'
  BY <1>6, PInvAnswers
<1>7. ASSUME UNCHANGED <<pageVars, tableVars>> PROVE PInv'
  BY <1>7 DEF pageVars, tableVars, PInv, RowsOK, SelectionOK
<1>8. CASE OpenCreate \/ OpenDelete \/ CloseDialog \/ SubmitPassword \/ SubmitDelete
  BY <1>7, <1>8 DEF OpenCreate, OpenDelete, CloseDialog, SubmitPassword, SubmitDelete
<1>9. ASSUME NEW u \in Users,
             \/ SubmitEnable(u)
             \/ \E k \in {"edit", "password"} : OpenUser(k, u)
             \/ \E n \in Names, on \in BOOLEAN : SubmitCreate(u, n, on)
      PROVE  PInv'
  BY <1>7, <1>9 DEF SubmitEnable, OpenUser, SubmitCreate
<1>10. ASSUME NEW n \in Names, SubmitEdit(n) PROVE PInv'
  BY <1>7, <1>10 DEF SubmitEdit
<1>11. ASSUME NEW q \in flight,
              \/ Serve(q) \/ EditDone(q) \/ PasswordDone(q) \/ EnableDone(q)
              \/ Failed(q) \/ RefusedDone(q)
       PROVE  careless' \/ PInv'
  <2>1. CASE Serve(q) \/ PasswordDone(q) \/ Failed(q)
    BY <1>7, <2>1 DEF Serve, PasswordDone, Failed
  <2>2. CASE EditDone(q) \/ EnableDone(q)
    <3>1. /\ UNCHANGED <<users, users_filter, users_selected, users_per_page, table,
                         checked>>
      BY <2>2 DEF EditDone, EnableDone, tableVars
    <3> QED BY <3>1 DEF PInv, RowsOK, SelectionOK
  <2>3. CASE RefusedDone(q)
    BY <2>3 DEF RefusedDone
  <2> QED BY <1>11, <2>1, <2>2, <2>3
<1>12. CASE AccountsNext
  BY <1>2, <1>5, <1>6, <1>8, <1>9, <1>10, <1>11, <1>12 DEF AccountsNext
<1> QED BY <1>1, <1>12

LEMMA PInvAlways ==
    ASSUME AccountsPageAssumption PROVE AccountsPageSpec => [](careless \/ tired \/ PInv)
<1>1. AccountsInit => careless \/ tired \/ PInv
  BY InitPInv
<1>2. (careless \/ tired \/ PInv) /\ [AccountsNext]_accountsVars => (careless \/ tired \/ PInv)'
  BY StepPInv
<1> QED BY <1>1, <1>2, PTL DEF AccountsPageSpec

\* However the administrator filters, turns the pages, ticks, creates and
\* deletes, and whatever is answered in between, the rows that are ticked
\* are those of the users that a deletion will take, and nobody is selected
\* twice or who is not in the page.
THEOREM TicksAreTheSelection ==
    ASSUME AccountsPageAssumption PROVE AccountsPageSpec => []TicksAgree
<1>1. careless \/ tired \/ PInv => TicksAgree
  BY DEF PInv, SelectionOK, EachOnce, TicksAgree
<1> QED BY <1>1, PInvAlways, PTL

-----------------------------------------------------------------------------
(* AccountsPage: the page and the server agree.  Until something is sent a   *)
(* second time, a request of a dialog is on its way only while the dialog is *)
(* open (DialogOK), nothing else is asked of an account that is being        *)
(* created (AloneOK), and where page and server differ it is by what a       *)
(* request that was done says (SameUsers, SameRecords).                      *)

Fields == {"kind", "who", "name", "enabled", "all", "answer", "nr"}
OfDialog == {"create", "edit", "delete"}
WasTold(q, kind) == q.kind = kind /\ q.answer \in {"done", "refused"}

AloneOK ==
    /\ \A q \in flight : DOMAIN q = Fields
    /\ \A q, r \in flight : q.kind = r.kind /\ q.kind \in OfDialog => q = r
    /\ \A q, r \in flight : q.kind = "enable" /\ r.kind = "enable" /\ q.who = r.who => q = r
    /\ \A q, r \in flight : q.kind = "create" /\ q.who = r.who => q = r
    /\ \A q \in flight : q.kind = "create" =>
          /\ q.who \in Users /\ q.who \notin ToSet(users)
          /\ q.answer = None => q.who \notin DOMAIN accounts
DialogOK ==
    /\ \A q \in flight : q.kind \in OfDialog => dialog # None /\ dialog.kind = q.kind
    /\ dialog # None /\ dialog.kind = "edit" => id_user_selected = dialog.who
    /\ \A q \in flight : q.kind = "edit" => q.who = dialog.who
    /\ \A q \in flight : q.kind = "delete" => q.all = ToSet(users_selected)
RecordsOf(f) ==
    /\ f = [u \in DOMAIN f |-> f[u]]
    /\ \A u \in DOMAIN f : f[u] = [name |-> f[u].name, enabled |-> f[u].enabled]
SameUsers ==
    /\ EachOnce(users, ToSet(users)) /\ ToSet(users) \subseteq Users
    /\ DOMAIN entry = ToSet(users) /\ DOMAIN accounts \subseteq Users
    /\ RecordsOf(entry) /\ RecordsOf(accounts)
    /\ \A u \in Users : u \in DOMAIN accounts <=>
          \/ u \in ToSet(users) /\ \A q \in flight : WasTold(q, "delete") => u \notin q.all
          \/ \E q \in flight : WasTold(q, "create") /\ q.who = u
SameRecords ==
    /\ \A q \in flight : WasTold(q, "create") =>
          accounts[q.who] = [name |-> q.name, enabled |-> q.enabled]
    /\ \A u \in DOMAIN accounts \cap ToSet(users) :
          /\ \A q \in flight : WasTold(q, "edit") /\ q.who = u => accounts[u].name = q.name
          /\ (\A q \in flight : WasTold(q, "edit") => q.who # u) => accounts[u].name = entry[u].name
          /\ \A q \in flight : WasTold(q, "enable") /\ q.who = u => accounts[u].enabled = q.enabled
          /\ (\A q \in flight : WasTold(q, "enable") => q.who # u) => accounts[u].enabled = entry[u].enabled
GInv == AloneOK /\ DialogOK /\ SameUsers /\ SameRecords

LEMMA InitGInv == ASSUME AccountsPageAssumption, AccountsInit PROVE GInv
<1>1. /\ users = SetToSeq(DOMAIN accounts) /\ users_selected = <<>> /\ entry = accounts
      /\ dialog = None /\ flight = {}
  BY DEF AccountsInit
<1>2. PICK U \in SUBSET Users : accounts \in [U -> [name : Names \ Refused, enabled : {TRUE}]]
  BY DEF AccountsInit
<1>3. IsFiniteSet(DOMAIN accounts)
  BY <1>2, FS_Subset DEF AccountsPageAssumption
<1>4. EachOnce(users, DOMAIN accounts)
  BY <1>1, <1>3, EachOnceSetToSeq
<1>5. ToSet(users) = DOMAIN accounts /\ DOMAIN accounts \subseteq Users
  BY <1>2, <1>4 DEF EachOnce
<1>6. RecordsOf(accounts)
  BY <1>2 DEF RecordsOf
<1>7. AloneOK /\ DialogOK
  BY <1>1 DEF AloneOK, DialogOK
<1>8. SameUsers
  BY <1>1, <1>4, <1>5, <1>6 DEF SameUsers
<1>9. SameRecords
  BY <1>1 DEF SameRecords
<1> QED BY <1>7, <1>8, <1>9 DEF GInv

\* What is still agreed on when no request that was done comes or goes.
LEMMA NothingDone ==
    ASSUME SameUsers, SameRecords, UNCHANGED <<accounts, users, entry>>,
           \A q \in flight' : q \in flight \/ q.answer \notin {"done", "refused"},
           \A q \in flight : q \in flight' \/ q.answer \notin {"done", "refused"}
                             \/ q.kind = "password"
    PROVE  SameUsers' /\ SameRecords'
<1>1. \A q : q \in flight' /\ q.answer \in {"done", "refused"} => q \in flight
  OBVIOUS
<1>2. ASSUME NEW q \in flight, q.answer \in {"done", "refused"},
             q.kind \in {"create", "delete", "edit", "enable"}
      PROVE  q \in flight'
  <2>1. q.kind # "password"
    BY <1>2
  <2> QED BY <1>2, <2>1
<1>3. \A q : \A k \in {"create", "delete", "edit", "enable"} :
        (q \in flight /\ WasTold(q, k)) <=> (q \in flight' /\ WasTold(q, k))
  BY <1>1, <1>2 DEF WasTold
<1>4. SameUsers'
  <2>1. \A u : (\A q \in flight : WasTold(q, "delete") => u \notin q.all)
               <=> (\A q \in flight' : WasTold(q, "delete") => u \notin q.all)
    BY <1>3
  <2>2. \A u : (\E q \in flight : WasTold(q, "create") /\ q.who = u)
               <=> (\E q \in flight' : WasTold(q, "create") /\ q.who = u)
    BY <1>3
  <2> QED BY <2>1, <2>2 DEF SameUsers, RecordsOf
<1>5. SameRecords'
  BY <1>3 DEF SameRecords
<1> QED BY <1>4, <1>5

LEMMA OneMoreAsked ==
    ASSUME AccountsPageAssumption, GInv, NEW q, flight' = flight \cup {q},
           DOMAIN q = Fields, q.answer = None,
           UNCHANGED <<accounts, users, entry, users_selected, dialog, id_user_selected>>,
           q.kind \in OfDialog =>
              dialog # None /\ dialog.kind = q.kind /\ \A r \in flight : r.kind # q.kind,
           q.kind = "enable" => \A r \in flight : r.kind = "enable" => r.who # q.who,
           q.kind = "create" => /\ q.who \in Users /\ q.who \notin ToSet(users)
                                /\ q.who \notin DOMAIN accounts
                                /\ \A r \in flight : r.who # q.who,
           \A r \in flight : r.kind = "create" => r.who # q.who,
           q.kind = "edit" => q.who = dialog.who,
           q.kind = "delete" => q.all = ToSet(users_selected)
    PROVE  GInv'
<1>1. SameUsers' /\ SameRecords'
  <2>1. \A r \in flight' : r \in flight \/ r.answer \notin {"done", "refused"}
    BY DEF AccountsPageAssumption
  <2>2. \A r \in flight : r \in flight'
    OBVIOUS
  <2> QED BY <2>1, <2>2, NothingDone DEF GInv
<1>2. AloneOK'
  <2>1. \A r \in flight' : DOMAIN r = Fields
    BY DEF GInv, AloneOK
  <2>2. \A r, s \in flight' : r.kind = s.kind /\ r.kind \in OfDialog => r = s
    BY DEF GInv, AloneOK
  <2>3. \A r, s \in flight' : r.kind = "enable" /\ s.kind = "enable" /\ r.who = s.who => r = s
    BY DEF GInv, AloneOK
  <2>4. \A r, s \in flight' : r.kind = "create" /\ r.who = s.who => r = s
    BY DEF GInv, AloneOK
  <2>5. \A r \in flight' : r.kind = "create" =>
          /\ r.who \in Users /\ r.who \notin ToSet(users')
          /\ r.answer = None => r.who \notin DOMAIN accounts'
    BY DEF GInv, AloneOK
  <2> QED BY <2>1, <2>2, <2>3, <2>4, <2>5 DEF AloneOK
<1>3. DialogOK'
  BY DEF GInv, DialogOK
<1> QED BY <1>1, <1>2, <1>3 DEF GInv

LEMMA GInvAsks ==
    ASSUME AccountsPageAssumption, GInv,
           \/ SubmitPassword \/ SubmitDelete
           \/ \E n \in Names : SubmitEdit(n)
           \/ \E u \in Users : \/ SubmitEnable(u)
                               \/ \E n \in Names, on \in BOOLEAN : SubmitCreate(u, n, on)
    PROVE  repeated' \/ GInv'
<1> SUFFICES ASSUME ~ repeated' PROVE GInv'
  OBVIOUS
<1> USE DEF Sent, Fields
<1>a. UNCHANGED <<accounts, users, entry, users_selected, dialog, id_user_selected>>
  BY DEF SubmitPassword, SubmitDelete, SubmitEdit, SubmitEnable, SubmitCreate, pageVars
<1>b. \A r \in flight : r.kind = "create" => dialog # None /\ dialog.kind = "create"
  BY DEF GInv, DialogOK, OfDialog
<1>c. \A r \in flight : r.kind = "create" => r.who \in Users /\ r.who \notin ToSet(users)
  BY DEF GInv, AloneOK
<1>1. CASE SubmitPassword
  <2> DEFINE q == Sent("password", dialog.who)
  <2>1. flight' = flight \cup {q} /\ dialog # None /\ dialog.kind = "password"
    BY <1>1 DEF SubmitPassword, Request
  <2>2. q.kind = "password" /\ DOMAIN q = Fields /\ q.answer = None
    OBVIOUS
  <2> HIDE DEF q, Fields
  <2> QED BY <1>a, <1>b, <2>1, <2>2, OneMoreAsked DEF OfDialog
<1>2. CASE SubmitDelete
  <2> DEFINE q == [Sent("delete", None) EXCEPT !.all = ToSet(users_selected)]
  <2>1. /\ flight' = flight \cup {q} /\ dialog # None /\ dialog.kind = "delete"
        /\ \A r \in flight : r.kind # "delete"
    BY <1>2 DEF SubmitDelete, Request, Repeats, Again
  <2>2. /\ q.kind = "delete" /\ DOMAIN q = Fields /\ q.answer = None
        /\ q.all = ToSet(users_selected)
    OBVIOUS
  <2> HIDE DEF q, Fields
  <2> QED BY <1>a, <1>b, <2>1, <2>2, OneMoreAsked DEF OfDialog
<1>3. ASSUME NEW n \in Names, SubmitEdit(n) PROVE GInv'
  <2> DEFINE q == [Sent("edit", dialog.who) EXCEPT !.name = n]
  <2>1. /\ flight' = flight \cup {q} /\ dialog # None /\ dialog.kind = "edit"
        /\ \A r \in flight : r.kind # "edit"
    BY <1>3 DEF SubmitEdit, Request, Repeats, Again
  <2>2. q.kind = "edit" /\ q.who = dialog.who /\ DOMAIN q = Fields /\ q.answer = None
    OBVIOUS
  <2> HIDE DEF q, Fields
  <2> QED BY <1>a, <1>b, <2>1, <2>2, OneMoreAsked DEF OfDialog
<1>4. ASSUME NEW u \in Users, SubmitEnable(u) PROVE GInv'
  <2>1. PICK on : Request([Sent("enable", u) EXCEPT !.enabled = on])
    BY <1>4, Zenon DEF SubmitEnable
  <2> DEFINE q == [Sent("enable", u) EXCEPT !.enabled = on]
  <2>2. /\ flight' = flight \cup {q} /\ u \in ToSet(users)
        /\ \A r \in flight : r.kind # "enable" \/ r.who # u
    BY <1>4, <2>1 DEF SubmitEnable, Request, Repeats, Again
  <2>3. q.kind = "enable" /\ q.who = u /\ DOMAIN q = Fields /\ q.answer = None
    OBVIOUS
  <2> HIDE DEF q, Fields
  <2> QED BY <1>a, <1>c, <2>2, <2>3, OneMoreAsked DEF OfDialog
<1>5. ASSUME NEW u \in Users, NEW n \in Names, NEW on \in BOOLEAN, SubmitCreate(u, n, on)
      PROVE  GInv'
  <2> DEFINE q == [Sent("create", u) EXCEPT !.name = n, !.enabled = on]
  <2>1. /\ flight' = flight \cup {q} /\ dialog # None /\ dialog.kind = "create"
        /\ u \notin DOMAIN accounts /\ u \notin ToSet(users)
        /\ \A r \in flight : r.kind # "create" /\ r.who # u
    BY <1>5 DEF SubmitCreate, Request, Repeats, Again
  <2>2. q.kind = "create" /\ q.who = u /\ DOMAIN q = Fields /\ q.answer = None
    OBVIOUS
  <2> HIDE DEF q, Fields
  <2> QED BY <1>a, <2>1, <2>2, OneMoreAsked DEF OfDialog
<1> QED BY <1>1, <1>2, <1>3, <1>4, <1>5

\* The rows, the selection and the dialogs, while no dialog has a request on its way.
LEMMA GInvPage ==
    ASSUME AccountsPageAssumption, GInv, UNCHANGED <<accounts, users, entry, flight>>,
           \A q \in flight : q.kind \notin OfDialog,
           dialog' # None /\ dialog'.kind = "edit" => id_user_selected' = dialog'.who
    PROVE  GInv'
<1>1. SameUsers' /\ SameRecords'
  BY NothingDone DEF GInv
<1>2. AloneOK'
  BY DEF GInv, AloneOK
<1>3. DialogOK'
  BY DEF DialogOK, OfDialog
<1> QED BY <1>1, <1>2, <1>3 DEF GInv

LEMMA GInvChoices ==
    ASSUME AccountsPageAssumption, GInv,
           \/ ChangeEntries \/ FilterUsers \/ ChangeCheckAll
           \/ OpenCreate \/ OpenDelete \/ CloseDialog
           \/ \E n \in 1..Cardinality(Users) : TurnTable(n)
           \/ \E f \in Filters : FilterTyped(f)
           \/ \E u \in Users : \/ ChangeCheck(u)
                               \/ \E k \in {"edit", "password"} : OpenUser(k, u)
    PROVE  careless' \/ GInv'
<1>1. \A q \in flight : q.kind \in OfDialog => dialog # None /\ dialog.kind = q.kind
  BY DEF GInv, DialogOK
<1>2. dialog # None /\ dialog.kind = "edit" => id_user_selected = dialog.who
  BY DEF GInv, DialogOK
<1>3. CASE dialog = None /\ UNCHANGED <<accounts, users, entry, flight, dialog, id_user_selected>>
  BY <1>1, <1>3, GInvPage
<1>4. CASE ChangeEntries \/ ChangeCheckAll
  BY <1>3, <1>4 DEF ChangeEntries, ChangeCheckAll
<1>5. CASE FilterUsers
  <2>1. UNCHANGED <<accounts, users, entry, flight, users_selected, dialog, id_user_selected>>
    BY <1>5 DEF FilterUsers
  <2> QED BY <2>1 DEF GInv, AloneOK, DialogOK, SameUsers, SameRecords, RecordsOf
<1>6. ASSUME NEW n \in 1..Cardinality(Users), TurnTable(n) PROVE careless' \/ GInv'
  BY <1>3, <1>6 DEF TurnTable, pageVars
<1>7. ASSUME NEW f \in Filters, FilterTyped(f) PROVE careless' \/ GInv'
  BY <1>3, <1>7 DEF FilterTyped
<1>8. ASSUME NEW u \in Users, ChangeCheck(u) PROVE careless' \/ GInv'
  BY <1>3, <1>8 DEF ChangeCheck
<1>9. CASE OpenCreate \/ OpenDelete
  <2>1. /\ UNCHANGED <<accounts, users, entry, flight>> /\ dialog = None
        /\ dialog'.kind # "edit"
    BY <1>9 DEF OpenCreate, OpenDelete, pageVars
  <2> QED BY <1>1, <2>1, GInvPage
<1>10. ASSUME NEW u \in Users, NEW k \in {"edit", "password"}, OpenUser(k, u) PROVE GInv'
  <2>1. /\ UNCHANGED <<accounts, users, entry, flight>> /\ dialog = None
        /\ dialog'.who = u /\ id_user_selected' = u
    BY <1>10 DEF OpenUser, pageVars
  <2> QED BY <1>1, <2>1, GInvPage
<1>11. CASE CloseDialog
  <2>1. /\ UNCHANGED <<accounts, users, entry, flight>> /\ dialog' = None
        /\ careless' \/ \A q \in flight : q.kind # dialog.kind
    BY <1>11 DEF CloseDialog, Closed, pageVars
  <2> QED BY <1>1, <2>1, GInvPage
<1> QED BY <1>4, <1>5, <1>6, <1>7, <1>8, <1>9, <1>10, <1>11

\* An answer r for the request q.
Answers(r, q, a) ==
    /\ DOMAIN r = Fields /\ r.kind = q.kind /\ r.who = q.who /\ r.name = q.name
    /\ r.enabled = q.enabled /\ r.all = q.all /\ r.answer = a

LEMMA AnswerIs ==
    ASSUME NEW q \in flight, AloneOK, NEW a, Answer(q, a)
    PROVE  \E r : Answers(r, q, a) /\ flight' = (flight \ {q}) \cup {r}
<1> DEFINE r == [q EXCEPT !.answer = a]
<1>1. DOMAIN q = Fields
  BY DEF AloneOK
<1>2. Answers(r, q, a)
  BY <1>1 DEF Answers, Fields
<1> QED BY <1>2 DEF Answer

LEMMA AnsweredAlone ==
    ASSUME AccountsPageAssumption, AloneOK, DialogOK,
           NEW q \in flight, NEW a, a # None, NEW r, Answers(r, q, a),
           flight' = (flight \ {q}) \cup {r},
           UNCHANGED <<users, users_selected, dialog, id_user_selected>>,
           DOMAIN accounts' \subseteq DOMAIN accounts \cup {q.who}
    PROVE  AloneOK' /\ DialogOK'
<1>a. /\ DOMAIN r = Fields /\ r.kind = q.kind /\ r.who = q.who
      /\ r.all = q.all /\ r.answer # None
  BY DEF Answers
<1>1. \A s \in flight' : DOMAIN s = Fields
  BY <1>a DEF AloneOK
<1>2. \A s, t \in flight' : s.kind = t.kind /\ s.kind \in OfDialog => s = t
  BY <1>a DEF AloneOK
<1>3. \A s, t \in flight' : s.kind = "enable" /\ t.kind = "enable" /\ s.who = t.who => s = t
  BY <1>a DEF AloneOK
<1>4. \A s, t \in flight' : s.kind = "create" /\ s.who = t.who => s = t
  BY <1>a DEF AloneOK
<1>5. ASSUME NEW s \in flight', s.kind = "create"
      PROVE  /\ s.who \in Users /\ s.who \notin ToSet(users')
             /\ s.answer = None => s.who \notin DOMAIN accounts'
  <2>1. CASE s = r
    BY <1>5, <1>a, <2>1 DEF AloneOK
  <2>2. CASE s \in flight /\ s # q
    <3>1. s.who # q.who
      BY <1>5, <2>2 DEF AloneOK
    <3> QED BY <1>5, <2>2, <3>1 DEF AloneOK
  <2> QED BY <2>1, <2>2
<1>6. AloneOK'
  BY <1>1, <1>2, <1>3, <1>4, <1>5 DEF AloneOK
<1>7. DialogOK'
  BY <1>a DEF DialogOK
<1> QED BY <1>6, <1>7

\* The accounts when a request is served, and what the page still says of them.
LEMMA GInvCreated ==
    ASSUME AccountsPageAssumption, GInv, NEW q \in flight, q.answer = None,
           CreateUser(q), UNCHANGED <<users, entry, users_selected, dialog, id_user_selected>>
    PROVE  GInv'
<1>1. q.kind = "create" /\ Answer(q, Told(q)) /\ Told(q) \in {"done", "refused"}
  BY DEF CreateUser, Told
<1>2. PICK r : Answers(r, q, Told(q)) /\ flight' = (flight \ {q}) \cup {r}
  BY <1>1, AnswerIs DEF GInv
<1> DEFINE a == [name |-> q.name, enabled |-> q.enabled]
           D == DOMAIN accounts
<1>3. accounts' = [u \in D \cup {q.who} |-> IF u = q.who THEN a ELSE accounts[u]]
  BY DEF CreateUser, WithRecord
<1> HIDE DEF a
<1>4. /\ DOMAIN accounts' = D \cup {q.who} /\ accounts'[q.who] = a
      /\ \A u \in D : u # q.who => accounts'[u] = accounts[u]
  BY <1>3
<1>5. AloneOK' /\ DialogOK'
  BY <1>1, <1>2, <1>4, AnsweredAlone DEF GInv, AccountsPageAssumption
<1>a. /\ q.who \in Users /\ q.who \notin ToSet(users)
      /\ \A s \in flight : s.kind = "create" => s = q
      /\ \A s \in flight : s.kind # "delete"
  BY <1>1 DEF GInv, AloneOK, DialogOK, OfDialog
<1>b. /\ r.kind = "create" /\ r.who = q.who /\ r.name = q.name /\ r.enabled = q.enabled
      /\ WasTold(r, "create")
  BY <1>1, <1>2 DEF Answers, WasTold
<1>c. ~ WasTold(q, "create")
  BY DEF WasTold, AccountsPageAssumption
<1>d. D \subseteq ToSet(users) /\ ToSet(users) \subseteq D /\ D \subseteq Users
  BY <1>a, <1>c DEF GInv, SameUsers, WasTold
<1>6. SameUsers'
  <2>1. RecordsOf(accounts)'
    <3>1. RecordsOf(accounts)
      BY DEF GInv, SameUsers
    <3>2. accounts' = [u \in DOMAIN accounts' |-> accounts'[u]]
      BY <1>3
    <3>3. a = [name |-> a.name, enabled |-> a.enabled]
      BY DEF a
    <3> QED BY <1>4, <3>1, <3>2, <3>3 DEF RecordsOf
  <2>2. \A u \in Users : u \in DOMAIN accounts' <=>
          \/ u \in ToSet(users') /\ \A s \in flight' : WasTold(s, "delete") => u \notin s.all
          \/ \E s \in flight' : WasTold(s, "create") /\ s.who = u
    <3>1. \A s \in flight' : ~ WasTold(s, "delete")
      BY <1>2, <1>a, <1>b DEF WasTold
    <3>2. \A s \in flight' : WasTold(s, "create") => s.who = q.who
      BY <1>2, <1>a, <1>b DEF WasTold
    <3>3. \E s \in flight' : WasTold(s, "create") /\ s.who = q.who
      BY <1>2, <1>b
    <3> QED BY <1>4, <1>d, <3>1, <3>2, <3>3
  <2> QED BY <1>4, <1>a, <1>d, <2>1, <2>2 DEF GInv, SameUsers, RecordsOf
<1>7. SameRecords'
  <2>1. ASSUME NEW s \in flight', WasTold(s, "create")
        PROVE  accounts'[s.who] = [name |-> s.name, enabled |-> s.enabled]
    <3>1. s = r
      BY <2>1, <1>2, <1>a DEF WasTold
    <3> QED BY <3>1, <1>4, <1>b DEF a
  <2>2. ASSUME NEW u \in DOMAIN accounts' \cap ToSet(users')
        PROVE  /\ accounts'[u] = accounts[u] /\ u \in DOMAIN accounts \cap ToSet(users)
    BY <1>4, <1>a
  <2>3. \A s : \A k \in {"edit", "enable"} :
          s \in flight' /\ WasTold(s, k) <=> s \in flight /\ WasTold(s, k)
    BY <1>1, <1>2, <1>b DEF WasTold
  <2> QED BY <2>1, <2>2, <2>3 DEF GInv, SameRecords
<1> QED BY <1>5, <1>6, <1>7 DEF GInv

\* An entry of which the name, or whether it is enabled, is written.
Renamed(f, w, n) == [f EXCEPT ![w].name = n]
Switched(f, w, e) == [f EXCEPT ![w].enabled = e]

LEMMA NameWritten ==
    ASSUME NEW f, RecordsOf(f), NEW w \in DOMAIN f, NEW n, NEW g, g = Renamed(f, w, n)
    PROVE  /\ RecordsOf(g) /\ DOMAIN g = DOMAIN f
           /\ \A u \in DOMAIN f : g[u].name = (IF u = w THEN n ELSE f[u].name)
           /\ \A u \in DOMAIN f : g[u].enabled = f[u].enabled
           /\ \A u \in DOMAIN f : u # w => g[u] = f[u]
<1> DEFINE r == [name |-> n, enabled |-> f[w].enabled]
<1>1. f[w] = [name |-> f[w].name, enabled |-> f[w].enabled]
  BY DEF RecordsOf
<1>2. [f[w] EXCEPT !.name = n] = r
  BY <1>1
<1>3. g = [f EXCEPT ![w] = r]
  BY <1>2 DEF Renamed
<1>4. r.name = n /\ r.enabled = f[w].enabled /\ r = [name |-> r.name, enabled |-> r.enabled]
  OBVIOUS
<1> HIDE DEF r
<1>5. DOMAIN g = DOMAIN f /\ g[w] = r /\ \A u \in DOMAIN f : u # w => g[u] = f[u]
  BY <1>3
<1>6. RecordsOf(g)
  BY <1>3, <1>4, <1>5 DEF RecordsOf
<1> QED BY <1>4, <1>5, <1>6

LEMMA EnabledWritten ==
    ASSUME NEW f, RecordsOf(f), NEW w \in DOMAIN f, NEW e, NEW g, g = Switched(f, w, e)
    PROVE  /\ RecordsOf(g) /\ DOMAIN g = DOMAIN f
           /\ \A u \in DOMAIN f : g[u].enabled = (IF u = w THEN e ELSE f[u].enabled)
           /\ \A u \in DOMAIN f : g[u].name = f[u].name
           /\ \A u \in DOMAIN f : u # w => g[u] = f[u]
<1> DEFINE r == [name |-> f[w].name, enabled |-> e]
<1>1. f[w] = [name |-> f[w].name, enabled |-> f[w].enabled]
  BY DEF RecordsOf
<1>2. [f[w] EXCEPT !.enabled = e] = r
  BY <1>1
<1>3. g = [f EXCEPT ![w] = r]
  BY <1>2 DEF Switched
<1>4. r.enabled = e /\ r.name = f[w].name /\ r = [name |-> r.name, enabled |-> r.enabled]
  OBVIOUS
<1> HIDE DEF r
<1>5. DOMAIN g = DOMAIN f /\ g[w] = r /\ \A u \in DOMAIN f : u # w => g[u] = f[u]
  BY <1>3
<1>6. RecordsOf(g)
  BY <1>3, <1>4, <1>5 DEF RecordsOf
<1> QED BY <1>4, <1>5, <1>6

\* The users do not change while names and the rest of accounts and entries do.
LEMMA UsersStay ==
    ASSUME SameUsers, UNCHANGED users,
           DOMAIN accounts' = DOMAIN accounts, RecordsOf(accounts)',
           DOMAIN entry' = DOMAIN entry, RecordsOf(entry)',
           \A q : \A k \in {"create", "delete"} :
              q \in flight' /\ WasTold(q, k) <=> q \in flight /\ WasTold(q, k)
    PROVE  SameUsers'
<1>1. \A u : (\A q \in flight : WasTold(q, "delete") => u \notin q.all)
             <=> (\A q \in flight' : WasTold(q, "delete") => u \notin q.all)
  OBVIOUS
<1>2. \A u : (\E q \in flight : WasTold(q, "create") /\ q.who = u)
             <=> (\E q \in flight' : WasTold(q, "create") /\ q.who = u)
  OBVIOUS
<1> QED BY <1>1, <1>2 DEF SameUsers

LEMMA CreatedThere ==
    ASSUME SameUsers, AloneOK, NEW s \in flight, WasTold(s, "create")
    PROVE  s.who \in DOMAIN accounts
<1>1. s.who \in Users
  BY DEF AloneOK, WasTold
<1> QED BY <1>1 DEF SameUsers

LEMMA GInvEdited ==
    ASSUME AccountsPageAssumption, GInv, NEW q \in flight, q.answer = None,
           EditInfo(q), UNCHANGED <<users, entry, users_selected, dialog, id_user_selected>>
    PROVE  GInv'
<1>1. /\ q.kind = "edit" /\ Answer(q, Told(q)) /\ Told(q) \in {"done", "refused"}
      /\ q.who \in DOMAIN accounts
  BY DEF EditInfo, Told
<1>2. PICK r : Answers(r, q, Told(q)) /\ flight' = (flight \ {q}) \cup {r}
  BY <1>1, AnswerIs DEF GInv
<1>3. /\ RecordsOf(accounts)' /\ DOMAIN accounts' = DOMAIN accounts
      /\ \A u \in DOMAIN accounts :
            accounts'[u].name = (IF u = q.who THEN q.name ELSE accounts[u].name)
      /\ \A u \in DOMAIN accounts : accounts'[u].enabled = accounts[u].enabled
      /\ \A u \in DOMAIN accounts : u # q.who => accounts'[u] = accounts[u]
  <2> DEFINE g == accounts'
  <2>1. g = Renamed(accounts, q.who, q.name)
    BY DEF EditInfo, Renamed
  <2>2. RecordsOf(accounts)
    BY DEF GInv, SameUsers
  <2> HIDE DEF g
  <2>3. /\ RecordsOf(g) /\ DOMAIN g = DOMAIN accounts
        /\ \A u \in DOMAIN accounts : g[u].name = (IF u = q.who THEN q.name ELSE accounts[u].name)
        /\ \A u \in DOMAIN accounts : g[u].enabled = accounts[u].enabled
        /\ \A u \in DOMAIN accounts : u # q.who => g[u] = accounts[u]
    BY <1>1, <2>1, <2>2, NameWritten
  <2> QED BY <2>3 DEF g, RecordsOf
<1>4. AloneOK' /\ DialogOK'
  BY <1>1, <1>2, <1>3, AnsweredAlone DEF GInv, AccountsPageAssumption
<1>a. /\ r.kind = "edit" /\ r.who = q.who /\ r.name = q.name /\ WasTold(r, "edit")
  BY <1>1, <1>2 DEF Answers, WasTold
<1>b. \A s : \A k \in {"create", "delete", "enable"} :
        s \in flight' /\ WasTold(s, k) <=> s \in flight /\ WasTold(s, k)
  BY <1>1, <1>2, <1>a DEF WasTold
<1>c. \A s \in flight' : WasTold(s, "edit") => s = r
  BY <1>1, <1>2, <1>a DEF GInv, AloneOK, WasTold, OfDialog
<1>d. ~ WasTold(q, "edit") /\ \A s \in flight : ~ WasTold(s, "edit")
  BY <1>1 DEF GInv, AloneOK, WasTold, OfDialog, AccountsPageAssumption
<1>5. SameUsers'
  <2>1. \A s : \A k \in {"create", "delete"} :
          s \in flight' /\ WasTold(s, k) <=> s \in flight /\ WasTold(s, k)
    BY <1>b
  <2>2. SameUsers /\ RecordsOf(entry)'
    BY DEF GInv, SameUsers, RecordsOf
  <2> QED BY <1>3, <2>1, <2>2, UsersStay
<1>6. SameRecords'
  <2>1. ASSUME NEW s \in flight', WasTold(s, "create")
        PROVE  accounts'[s.who] = [name |-> s.name, enabled |-> s.enabled]
    <3>1. s \in flight
      BY <2>1, <1>b
    <3>2. s.who # q.who
      BY <3>1, <2>1, <1>1 DEF GInv, AloneOK, WasTold
    <3>3. s.who \in DOMAIN accounts
      BY <3>1, <2>1, CreatedThere DEF GInv
    <3> QED BY <3>1, <3>2, <3>3, <2>1, <1>3 DEF GInv, SameRecords
  <2>2. ASSUME NEW u \in DOMAIN accounts' \cap ToSet(users')
        PROVE  /\ \A s \in flight' : WasTold(s, "edit") /\ s.who = u => accounts'[u].name = s.name
               /\ (\A s \in flight' : WasTold(s, "edit") => s.who # u)
                     => accounts'[u].name = entry'[u].name
               /\ \A s \in flight' : WasTold(s, "enable") /\ s.who = u
                     => accounts'[u].enabled = s.enabled
               /\ (\A s \in flight' : WasTold(s, "enable") => s.who # u)
                     => accounts'[u].enabled = entry'[u].enabled
    <3>1. u \in DOMAIN accounts \cap ToSet(users)
      BY <1>3
    <3>2. \A s \in flight' : WasTold(s, "edit") /\ s.who = u => accounts'[u].name = s.name
      BY <3>1, <1>3, <1>a, <1>c
    <3>3. (\A s \in flight' : WasTold(s, "edit") => s.who # u)
             => accounts'[u].name = entry'[u].name
      BY <3>1, <1>2, <1>3, <1>a, <1>d DEF GInv, SameRecords
    <3>4. \A s \in flight' : WasTold(s, "enable") /\ s.who = u
             => accounts'[u].enabled = s.enabled
      BY <3>1, <1>3, <1>b DEF GInv, SameRecords
    <3>5. (\A s \in flight' : WasTold(s, "enable") => s.who # u)
             => accounts'[u].enabled = entry'[u].enabled
      BY <3>1, <1>3, <1>b DEF GInv, SameRecords
    <3> QED BY <3>2, <3>3, <3>4, <3>5
  <2> QED BY <2>1, <2>2 DEF SameRecords
<1> QED BY <1>4, <1>5, <1>6 DEF GInv

LEMMA GInvEnabled ==
    ASSUME AccountsPageAssumption, GInv, NEW q \in flight, q.answer = None,
           Enable(q), UNCHANGED <<users, entry, users_selected, dialog, id_user_selected>>
    PROVE  GInv'
<1>1. q.kind = "enable" /\ Answer(q, "done") /\ q.who \in DOMAIN accounts
  BY DEF Enable
<1>2. PICK r : Answers(r, q, "done") /\ flight' = (flight \ {q}) \cup {r}
  BY <1>1, AnswerIs DEF GInv
<1>3. /\ RecordsOf(accounts)' /\ DOMAIN accounts' = DOMAIN accounts
      /\ \A u \in DOMAIN accounts :
            accounts'[u].enabled = (IF u = q.who THEN q.enabled ELSE accounts[u].enabled)
      /\ \A u \in DOMAIN accounts : accounts'[u].name = accounts[u].name
      /\ \A u \in DOMAIN accounts : u # q.who => accounts'[u] = accounts[u]
  <2> DEFINE g == accounts'
  <2>1. g = Switched(accounts, q.who, q.enabled)
    BY DEF Enable, Switched
  <2>2. RecordsOf(accounts)
    BY DEF GInv, SameUsers
  <2> HIDE DEF g
  <2>3. /\ RecordsOf(g) /\ DOMAIN g = DOMAIN accounts
        /\ \A u \in DOMAIN accounts :
              g[u].enabled = (IF u = q.who THEN q.enabled ELSE accounts[u].enabled)
        /\ \A u \in DOMAIN accounts : g[u].name = accounts[u].name
        /\ \A u \in DOMAIN accounts : u # q.who => g[u] = accounts[u]
    BY <1>1, <2>1, <2>2, EnabledWritten
  <2> QED BY <2>3 DEF g, RecordsOf
<1>4. AloneOK' /\ DialogOK'
  BY <1>1, <1>2, <1>3, AnsweredAlone DEF GInv, AccountsPageAssumption
<1>a. /\ r.kind = "enable" /\ r.who = q.who /\ r.enabled = q.enabled /\ WasTold(r, "enable")
  BY <1>1, <1>2 DEF Answers, WasTold
<1>b. \A s : \A k \in {"create", "delete", "edit"} :
        s \in flight' /\ WasTold(s, k) <=> s \in flight /\ WasTold(s, k)
  BY <1>1, <1>2, <1>a DEF WasTold
<1>c. \A s \in flight : s.kind = "enable" /\ s.who = q.who => s = q
  BY <1>1 DEF GInv, AloneOK
<1>d. ~ WasTold(q, "enable")
  BY DEF WasTold, AccountsPageAssumption
<1>5. SameUsers'
  <2>1. \A s : \A k \in {"create", "delete"} :
          s \in flight' /\ WasTold(s, k) <=> s \in flight /\ WasTold(s, k)
    BY <1>b
  <2>2. SameUsers /\ RecordsOf(entry)'
    BY DEF GInv, SameUsers, RecordsOf
  <2> QED BY <1>3, <2>1, <2>2, UsersStay
<1>6. SameRecords'
  <2>1. ASSUME NEW s \in flight', WasTold(s, "create")
        PROVE  accounts'[s.who] = [name |-> s.name, enabled |-> s.enabled]
    <3>1. s \in flight
      BY <2>1, <1>b
    <3>2. s.who # q.who
      BY <3>1, <2>1, <1>1 DEF GInv, AloneOK, WasTold
    <3>3. s.who \in DOMAIN accounts
      BY <3>1, <2>1, CreatedThere DEF GInv
    <3> QED BY <3>1, <3>2, <3>3, <2>1, <1>3 DEF GInv, SameRecords
  <2>2. ASSUME NEW u \in DOMAIN accounts' \cap ToSet(users')
        PROVE  /\ \A s \in flight' : WasTold(s, "edit") /\ s.who = u => accounts'[u].name = s.name
               /\ (\A s \in flight' : WasTold(s, "edit") => s.who # u)
                     => accounts'[u].name = entry'[u].name
               /\ \A s \in flight' : WasTold(s, "enable") /\ s.who = u
                     => accounts'[u].enabled = s.enabled
               /\ (\A s \in flight' : WasTold(s, "enable") => s.who # u)
                     => accounts'[u].enabled = entry'[u].enabled
    <3>1. u \in DOMAIN accounts \cap ToSet(users)
      BY <1>3
    <3>2. \A s \in flight' : WasTold(s, "edit") /\ s.who = u => accounts'[u].name = s.name
      BY <3>1, <1>3, <1>b DEF GInv, SameRecords
    <3>3. (\A s \in flight' : WasTold(s, "edit") => s.who # u)
             => accounts'[u].name = entry'[u].name
      BY <3>1, <1>3, <1>b DEF GInv, SameRecords
    <3>4. CASE u = q.who
      <4>1. \A s \in flight' : WasTold(s, "enable") /\ s.who = u => s = r
        BY <3>4, <1>2, <1>c DEF WasTold
      <4>2. \A s \in flight' : WasTold(s, "enable") /\ s.who = u
              => accounts'[u].enabled = s.enabled
        BY <3>1, <3>4, <4>1, <1>3, <1>a
      <4>3. ~ (\A s \in flight' : WasTold(s, "enable") => s.who # u)
        BY <3>4, <1>2, <1>a
      <4> QED BY <3>2, <3>3, <4>2, <4>3
    <3>5. CASE u # q.who
      <4>1. \A s : s \in flight' /\ WasTold(s, "enable") /\ s.who = u
                   <=> s \in flight /\ WasTold(s, "enable") /\ s.who = u
        BY <3>5, <1>2, <1>a
      <4>2. accounts'[u].enabled = accounts[u].enabled
        BY <3>1, <3>5, <1>3
      <4>3. /\ \A s \in flight : WasTold(s, "enable") /\ s.who = u
                  => accounts[u].enabled = s.enabled
            /\ (\A s \in flight : WasTold(s, "enable") => s.who # u)
                  => accounts[u].enabled = entry[u].enabled
        BY <3>1 DEF GInv, SameRecords
      <4> QED BY <3>2, <3>3, <4>1, <4>2, <4>3
    <3> QED BY <3>4, <3>5
  <2> QED BY <2>1, <2>2 DEF SameRecords
<1> QED BY <1>4, <1>5, <1>6 DEF GInv

LEMMA GInvDeleted ==
    ASSUME AccountsPageAssumption, GInv, NEW q \in flight, q.answer = None,
           q.kind = "delete", Answer(q, "done"),
           accounts' = Restrict(accounts, DOMAIN accounts \ q.all),
           UNCHANGED <<users, entry, users_selected, dialog, id_user_selected>>
    PROVE  GInv'
<1>1. PICK r : Answers(r, q, "done") /\ flight' = (flight \ {q}) \cup {r}
  BY AnswerIs DEF GInv
<1>2. accounts' = [u \in DOMAIN accounts \ q.all |-> accounts[u]]
  BY DEF Restrict
<1>3. DOMAIN accounts' = DOMAIN accounts \ q.all
      /\ \A u \in DOMAIN accounts' : accounts'[u] = accounts[u]
  BY <1>2
<1>4. AloneOK' /\ DialogOK'
  BY <1>1, <1>3, AnsweredAlone DEF GInv, AccountsPageAssumption
<1>a. r.kind = "delete" /\ r.all = q.all /\ WasTold(r, "delete")
  BY <1>1 DEF Answers, WasTold
<1>b. /\ \A s \in flight : s.kind = "delete" => s = q
      /\ \A s \in flight : s.kind \notin {"create", "edit"}
  BY DEF GInv, AloneOK, DialogOK, OfDialog
<1>c. ~ WasTold(q, "delete")
  BY DEF WasTold, AccountsPageAssumption
<1>5. SameUsers'
  <2>1. \A u \in Users : u \in DOMAIN accounts <=> u \in ToSet(users)
    BY <1>b, <1>c DEF GInv, SameUsers, WasTold
  <2>2. \A s \in flight' : WasTold(s, "delete") => s.all = q.all
    BY <1>1, <1>a, <1>b DEF WasTold
  <2>3. \E s \in flight' : WasTold(s, "delete") /\ s.all = q.all
    BY <1>1, <1>a
  <2>4. \A s \in flight' : ~ WasTold(s, "create")
    BY <1>1, <1>a, <1>b DEF WasTold
  <2>5. \A u \in Users : u \in DOMAIN accounts' <=>
          \/ u \in ToSet(users') /\ \A s \in flight' : WasTold(s, "delete") => u \notin s.all
          \/ \E s \in flight' : WasTold(s, "create") /\ s.who = u
    BY <1>3, <2>1, <2>2, <2>3, <2>4
  <2>6. RecordsOf(accounts)' /\ RecordsOf(entry)'
    BY <1>2, <1>3 DEF GInv, SameUsers, RecordsOf
  <2> QED BY <1>3, <2>5, <2>6 DEF GInv, SameUsers
<1>6. SameRecords'
  <2>1. \A s \in flight' : ~ WasTold(s, "create")
    BY <1>1, <1>a, <1>b DEF WasTold
  <2>2. \A s : s \in flight' /\ WasTold(s, "edit") <=> s \in flight /\ WasTold(s, "edit")
    BY <1>1, <1>a DEF WasTold
  <2>3. \A s : s \in flight' /\ WasTold(s, "enable") <=> s \in flight /\ WasTold(s, "enable")
    BY <1>1, <1>a DEF WasTold
  <2>4. ASSUME NEW u \in DOMAIN accounts' \cap ToSet(users')
        PROVE  /\ \A s \in flight' : WasTold(s, "edit") /\ s.who = u => accounts'[u].name = s.name
               /\ (\A s \in flight' : WasTold(s, "edit") => s.who # u)
                     => accounts'[u].name = entry'[u].name
               /\ \A s \in flight' : WasTold(s, "enable") /\ s.who = u
                     => accounts'[u].enabled = s.enabled
               /\ (\A s \in flight' : WasTold(s, "enable") => s.who # u)
                     => accounts'[u].enabled = entry'[u].enabled
    <3>1. u \in DOMAIN accounts \cap ToSet(users) /\ accounts'[u] = accounts[u]
      BY <1>3
    <3>2. /\ \A s \in flight : WasTold(s, "edit") /\ s.who = u => accounts[u].name = s.name
          /\ (\A s \in flight : WasTold(s, "edit") => s.who # u)
                => accounts[u].name = entry[u].name
          /\ \A s \in flight : WasTold(s, "enable") /\ s.who = u
                => accounts[u].enabled = s.enabled
          /\ (\A s \in flight : WasTold(s, "enable") => s.who # u)
                => accounts[u].enabled = entry[u].enabled
      BY <3>1 DEF GInv, SameRecords
    <3> QED BY <2>2, <2>3, <3>1, <3>2
  <2> QED BY <2>1, <2>4 DEF SameRecords
<1> QED BY <1>4, <1>5, <1>6 DEF GInv

LEMMA GInvServed ==
    ASSUME AccountsPageAssumption, GInv, NEW q \in flight, Serve(q)
    PROVE  careless' \/ GInv'
<1>1. /\ q.answer = None
      /\ UNCHANGED <<users, entry, users_selected, dialog, id_user_selected>>
  BY DEF Serve, pageVars
<1>2. CASE CreateUser(q) \/ EditInfo(q) \/ Enable(q)
  BY <1>1, <1>2, GInvCreated, GInvEdited, GInvEnabled
<1>3. CASE /\ DeleteUsers(q)
           /\ careless' = (careless \/ (q.kind = "delete"
                                        /\ [q EXCEPT !.answer = "fail"] \in flight'))
  <2>1. CASE Answer(q, "done")
    BY <1>1, <1>3, <2>1, GInvDeleted DEF DeleteUsers
  <2>2. CASE Answer(q, "fail")
    BY <1>3, <2>2 DEF DeleteUsers, Answer
  <2> QED BY <1>3, <2>1, <2>2 DEF DeleteUsers
<1>4. CASE ChangePassword(q) \/ Rejected(q)
  <2>1. \E a \in {"done", "fail"} : /\ Answer(q, a) /\ UNCHANGED accounts
                                    /\ a = "done" => q.kind = "password"
    BY <1>4 DEF ChangePassword, Rejected
  <2>2. PICK a \in {"done", "fail"} : /\ Answer(q, a) /\ UNCHANGED accounts
                                      /\ a = "done" => q.kind = "password"
    BY <2>1
  <2>3. PICK r : Answers(r, q, a) /\ flight' = (flight \ {q}) \cup {r}
    BY <2>2, AnswerIs DEF GInv
  <2>4. AloneOK' /\ DialogOK'
    BY <1>1, <2>2, <2>3, AnsweredAlone DEF GInv, AccountsPageAssumption
  <2>5. \A s : \A k \in {"create", "delete", "edit", "enable"} :
          s \in flight' /\ WasTold(s, k) <=> s \in flight /\ WasTold(s, k)
    BY <1>1, <2>2, <2>3 DEF Answers, WasTold, AccountsPageAssumption
  <2>6. SameUsers'
    <3>1. \A s : \A k \in {"create", "delete"} :
            s \in flight' /\ WasTold(s, k) <=> s \in flight /\ WasTold(s, k)
      BY <2>5
    <3>2. SameUsers /\ RecordsOf(entry)' /\ RecordsOf(accounts)'
      BY <1>1, <2>2 DEF GInv, SameUsers, RecordsOf
    <3> QED BY <1>1, <2>2, <3>1, <3>2, UsersStay
  <2>7. SameRecords'
    BY <1>1, <2>2, <2>5 DEF GInv, SameRecords
  <2> QED BY <2>4, <2>6, <2>7 DEF GInv
<1> QED BY <1>2, <1>3, <1>4 DEF Serve

\* What is left on its way when the answer to q arrives.
LEMMA OneLess ==
    ASSUME AloneOK, DialogOK, NEW q \in flight, flight' = flight \ {q}, UNCHANGED accounts,
           \A r \in flight' : r.kind = "create" => r.who \notin ToSet(users'),
           \/ UNCHANGED <<dialog, id_user_selected, users_selected>>
           \/ dialog' = None /\ q.kind \in OfDialog
           \/ dialog' = None /\ dialog.kind = "password"
    PROVE  AloneOK' /\ DialogOK'
<1>1. AloneOK'
  BY DEF AloneOK
<1>2. CASE UNCHANGED <<dialog, id_user_selected, users_selected>>
  BY <1>1, <1>2 DEF DialogOK
<1>3. CASE dialog' = None /\ \A r \in flight' : r.kind \notin OfDialog
  BY <1>1, <1>3 DEF DialogOK, OfDialog
<1>4. ASSUME q.kind \in OfDialog PROVE \A r \in flight' : r.kind \notin OfDialog
  BY <1>4 DEF AloneOK, DialogOK
<1>5. ASSUME dialog.kind = "password" PROVE \A r \in flight' : r.kind \notin OfDialog
  BY <1>5 DEF DialogOK, OfDialog
<1> QED BY <1>1, <1>2, <1>3, <1>4, <1>5

LEMMA GInvToldNothing ==
    ASSUME AccountsPageAssumption, GInv, NEW q \in flight,
           PasswordDone(q) \/ DeleteFailed(q) \/ Failed(q)
    PROVE  GInv'
<1>1. /\ flight' = flight \ {q} /\ UNCHANGED <<accounts, users, entry, users_selected>>
      /\ q.answer \notin {"done", "refused"} \/ q.kind = "password"
  BY DEF PasswordDone, DeleteFailed, Failed, Got, pageVars
<1>2. \/ UNCHANGED <<dialog, id_user_selected, users_selected>>
      \/ dialog' = None /\ dialog.kind = "password"
  BY DEF PasswordDone, DeleteFailed, Failed, Closed, pageVars
<1>3. AloneOK' /\ DialogOK'
  <2>1. \A r \in flight' : r.kind = "create" => r.who \notin ToSet(users')
    BY <1>1 DEF GInv, AloneOK
  <2> QED BY <1>1, <1>2, <2>1, OneLess DEF GInv
<1>4. SameUsers' /\ SameRecords'
  <2>1. \A r \in flight' : r \in flight \/ r.answer \notin {"done", "refused"}
    BY <1>1
  <2>2. \A r \in flight : r \in flight' \/ r.answer \notin {"done", "refused"}
                          \/ r.kind = "password"
    BY <1>1
  <2> QED BY <1>1, <2>1, <2>2, NothingDone DEF GInv
<1> QED BY <1>3, <1>4 DEF GInv

LEMMA GInvEditShown ==
    ASSUME AccountsPageAssumption, GInv, NEW q \in flight, EditDone(q)
    PROVE  GInv'
<1>1. /\ q.kind = "edit" /\ q.answer = "done" /\ flight' = flight \ {q}
      /\ UNCHANGED <<accounts, users, users_selected>>
  BY DEF EditDone, Got
<1>2. id_user_selected = q.who /\ dialog # None /\ dialog.kind = "edit"
  BY <1>1 DEF GInv, DialogOK, OfDialog
<1>3. AloneOK' /\ DialogOK'
  <2>1. \A r \in flight' : r.kind = "create" => r.who \notin ToSet(users')
    BY <1>1 DEF GInv, AloneOK
  <2>2. \/ UNCHANGED <<dialog, id_user_selected, users_selected>>
        \/ dialog' = None /\ q.kind \in OfDialog
    BY <1>1, <1>2 DEF EditDone, Closed, OfDialog
  <2> QED BY <1>1, <2>1, <2>2, OneLess DEF GInv
<1>4. /\ RecordsOf(entry)' /\ DOMAIN entry' = DOMAIN entry
      /\ \A u \in DOMAIN entry : entry'[u].name = (IF u = q.who THEN q.name ELSE entry[u].name)
      /\ \A u \in DOMAIN entry : entry'[u].enabled = entry[u].enabled
  <2>1. DOMAIN entry = ToSet(users) /\ RecordsOf(entry)
    BY DEF GInv, SameUsers
  <2>2. CASE q.who \in ToSet(users)
    <3> DEFINE g == entry'
    <3>1. g = Renamed(entry, q.who, q.name)
      BY <1>2, <2>2 DEF EditDone, Renamed
    <3> HIDE DEF g
    <3>2. /\ RecordsOf(g) /\ DOMAIN g = DOMAIN entry
          /\ \A u \in DOMAIN entry : g[u].name = (IF u = q.who THEN q.name ELSE entry[u].name)
          /\ \A u \in DOMAIN entry : g[u].enabled = entry[u].enabled
      BY <2>1, <2>2, <3>1, NameWritten
    <3> QED BY <3>2 DEF g, RecordsOf
  <2>3. CASE q.who \notin ToSet(users)
    <3>1. entry' = entry
      BY <1>2, <2>3 DEF EditDone
    <3> QED BY <2>1, <2>3, <3>1 DEF RecordsOf
  <2> QED BY <2>2, <2>3
<1>a. \A s : \A k \in {"create", "delete", "enable"} :
        s \in flight' /\ WasTold(s, k) <=> s \in flight /\ WasTold(s, k)
  BY <1>1 DEF WasTold
<1>b. WasTold(q, "edit") /\ \A s \in flight : WasTold(s, "edit") => s = q
  BY <1>1 DEF GInv, AloneOK, OfDialog, WasTold
<1>5. SameUsers'
  <2>1. \A s : \A k \in {"create", "delete"} :
          s \in flight' /\ WasTold(s, k) <=> s \in flight /\ WasTold(s, k)
    BY <1>a
  <2>2. SameUsers /\ RecordsOf(accounts)'
    BY <1>1 DEF GInv, SameUsers, RecordsOf
  <2> QED BY <1>1, <1>4, <2>1, <2>2, UsersStay
<1>6. SameRecords'
  <2>1. \A s \in flight' : WasTold(s, "create") =>
          accounts'[s.who] = [name |-> s.name, enabled |-> s.enabled]
    BY <1>1 DEF GInv, SameRecords
  <2>2. ASSUME NEW u \in DOMAIN accounts' \cap ToSet(users')
        PROVE  /\ \A s \in flight' : WasTold(s, "edit") /\ s.who = u => accounts'[u].name = s.name
               /\ (\A s \in flight' : WasTold(s, "edit") => s.who # u)
                     => accounts'[u].name = entry'[u].name
               /\ \A s \in flight' : WasTold(s, "enable") /\ s.who = u
                     => accounts'[u].enabled = s.enabled
               /\ (\A s \in flight' : WasTold(s, "enable") => s.who # u)
                     => accounts'[u].enabled = entry'[u].enabled
    <3>1. u \in DOMAIN accounts \cap ToSet(users) /\ u \in DOMAIN entry
      BY <1>1 DEF GInv, SameUsers
    <3>2. /\ \A s \in flight : WasTold(s, "edit") /\ s.who = u => accounts[u].name = s.name
          /\ (\A s \in flight : WasTold(s, "edit") => s.who # u)
                => accounts[u].name = entry[u].name
          /\ \A s \in flight : WasTold(s, "enable") /\ s.who = u
                => accounts[u].enabled = s.enabled
          /\ (\A s \in flight : WasTold(s, "enable") => s.who # u)
                => accounts[u].enabled = entry[u].enabled
      BY <3>1 DEF GInv, SameRecords
    <3>3. \A s \in flight' : ~ WasTold(s, "edit")
      BY <1>1, <1>b
    <3>4. accounts'[u].name = entry'[u].name
      BY <1>1, <1>4, <1>b, <3>1, <3>2
    <3>5. entry'[u].enabled = entry[u].enabled
      BY <1>4, <3>1
    <3>6. \A s : s \in flight' /\ WasTold(s, "enable") <=> s \in flight /\ WasTold(s, "enable")
      BY <1>a
    <3> QED BY <1>1, <3>2, <3>3, <3>4, <3>5, <3>6
  <2> QED BY <2>1, <2>2 DEF SameRecords
<1> QED BY <1>3, <1>5, <1>6 DEF GInv

LEMMA GInvEnableShown ==
    ASSUME AccountsPageAssumption, GInv, NEW q \in flight, EnableDone(q)
    PROVE  GInv'
<1>1. /\ q.kind = "enable" /\ q.answer = "done" /\ flight' = flight \ {q}
      /\ UNCHANGED <<accounts, users, users_selected, dialog, id_user_selected>>
  BY DEF EnableDone, Got
<1>3. AloneOK' /\ DialogOK'
  <2>1. \A r \in flight' : r.kind = "create" => r.who \notin ToSet(users')
    BY <1>1 DEF GInv, AloneOK
  <2> QED BY <1>1, <2>1, OneLess DEF GInv
<1>4. /\ RecordsOf(entry)' /\ DOMAIN entry' = DOMAIN entry
      /\ \A u \in DOMAIN entry :
            entry'[u].enabled = (IF u = q.who THEN q.enabled ELSE entry[u].enabled)
      /\ \A u \in DOMAIN entry : entry'[u].name = entry[u].name
  <2>1. DOMAIN entry = ToSet(users) /\ RecordsOf(entry)
    BY DEF GInv, SameUsers
  <2>2. CASE q.who \in ToSet(users)
    <3> DEFINE g == entry'
    <3>1. g = Switched(entry, q.who, q.enabled)
      BY <2>2 DEF EnableDone, Switched
    <3> HIDE DEF g
    <3>2. /\ RecordsOf(g) /\ DOMAIN g = DOMAIN entry
          /\ \A u \in DOMAIN entry :
                g[u].enabled = (IF u = q.who THEN q.enabled ELSE entry[u].enabled)
          /\ \A u \in DOMAIN entry : g[u].name = entry[u].name
      BY <2>1, <2>2, <3>1, EnabledWritten
    <3> QED BY <3>2 DEF g, RecordsOf
  <2>3. CASE q.who \notin ToSet(users)
    <3>1. entry' = entry
      BY <2>3 DEF EnableDone
    <3> QED BY <2>1, <2>3, <3>1 DEF RecordsOf
  <2> QED BY <2>2, <2>3
<1>a. \A s : \A k \in {"create", "delete", "edit"} :
        s \in flight' /\ WasTold(s, k) <=> s \in flight /\ WasTold(s, k)
  BY <1>1 DEF WasTold
<1>b. /\ WasTold(q, "enable")
      /\ \A s \in flight : WasTold(s, "enable") /\ s.who = q.who => s = q
  BY <1>1 DEF GInv, AloneOK, WasTold
<1>5. SameUsers'
  <2>1. \A s : \A k \in {"create", "delete"} :
          s \in flight' /\ WasTold(s, k) <=> s \in flight /\ WasTold(s, k)
    BY <1>a
  <2>2. SameUsers /\ RecordsOf(accounts)'
    BY <1>1 DEF GInv, SameUsers, RecordsOf
  <2> QED BY <1>1, <1>4, <2>1, <2>2, UsersStay
<1>6. SameRecords'
  <2>1. \A s \in flight' : WasTold(s, "create") =>
          accounts'[s.who] = [name |-> s.name, enabled |-> s.enabled]
    BY <1>1 DEF GInv, SameRecords
  <2>2. ASSUME NEW u \in DOMAIN accounts' \cap ToSet(users')
        PROVE  /\ \A s \in flight' : WasTold(s, "edit") /\ s.who = u => accounts'[u].name = s.name
               /\ (\A s \in flight' : WasTold(s, "edit") => s.who # u)
                     => accounts'[u].name = entry'[u].name
               /\ \A s \in flight' : WasTold(s, "enable") /\ s.who = u
                     => accounts'[u].enabled = s.enabled
               /\ (\A s \in flight' : WasTold(s, "enable") => s.who # u)
                     => accounts'[u].enabled = entry'[u].enabled
    <3>1. u \in DOMAIN accounts \cap ToSet(users) /\ u \in DOMAIN entry
      BY <1>1 DEF GInv, SameUsers
    <3>2. /\ \A s \in flight : WasTold(s, "edit") /\ s.who = u => accounts[u].name = s.name
          /\ (\A s \in flight : WasTold(s, "edit") => s.who # u)
                => accounts[u].name = entry[u].name
          /\ \A s \in flight : WasTold(s, "enable") /\ s.who = u
                => accounts[u].enabled = s.enabled
          /\ (\A s \in flight : WasTold(s, "enable") => s.who # u)
                => accounts[u].enabled = entry[u].enabled
      BY <3>1 DEF GInv, SameRecords
    <3>3. \A s : s \in flight' /\ WasTold(s, "edit") <=> s \in flight /\ WasTold(s, "edit")
      BY <1>a
    <3>4. entry'[u].name = entry[u].name
      BY <1>4, <3>1
    <3>5. CASE u = q.who
      <4>1. accounts'[u].enabled = entry'[u].enabled
        BY <1>1, <1>4, <1>b, <3>1, <3>2, <3>5
      <4>2. \A s \in flight' : WasTold(s, "enable") => s.who # u
        BY <1>1, <1>b, <3>5
      <4> QED BY <1>1, <3>2, <3>3, <3>4, <4>1, <4>2
    <3>6. CASE u # q.who
      <4>1. entry'[u].enabled = entry[u].enabled
        BY <1>4, <3>1, <3>6
      <4>2. \A s : s \in flight' /\ WasTold(s, "enable") /\ s.who = u
                   <=> s \in flight /\ WasTold(s, "enable") /\ s.who = u
        BY <1>1, <3>6
      <4> QED BY <1>1, <3>2, <3>3, <3>4, <4>1, <4>2
    <3> QED BY <3>5, <3>6
  <2> QED BY <2>1, <2>2 DEF SameRecords
<1> QED BY <1>3, <1>5, <1>6 DEF GInv

LEMMA GInvCreateShown ==
    ASSUME AccountsPageAssumption, GInv, NEW q \in flight, CreateDone(q)
    PROVE  GInv'
<1> DEFINE a == [name |-> q.name, enabled |-> q.enabled]
           T == ToSet(users)
<1>1. /\ q.kind = "create" /\ q.answer = "done" /\ flight' = flight \ {q}
      /\ users' = Append(users, q.who) /\ UNCHANGED <<accounts, users_selected>>
  BY DEF CreateDone, Got
<1>2. entry' = [u \in DOMAIN entry \cup {q.who} |-> IF u = q.who THEN a ELSE entry[u]]
  BY DEF CreateDone, WithRecord
<1>3. dialog # None /\ dialog.kind = "create"
  BY <1>1 DEF GInv, DialogOK, OfDialog
<1>a. /\ q.who \in Users /\ q.who \notin T /\ WasTold(q, "create")
      /\ \A s \in flight : s.kind = "create" => s = q
      /\ \A s \in flight : s.who = q.who => s = q
      /\ \A s \in flight : s.kind # "delete" /\ s.kind # "edit"
  BY <1>1 DEF GInv, AloneOK, DialogOK, OfDialog, WasTold
<1>4. EachOnce(users', T \cup {q.who}) /\ ToSet(users') = T \cup {q.who}
  <2>1. EachOnce(users, T)
    BY DEF GInv, SameUsers
  <2> HIDE DEF T
  <2>2. EachOnce(users', T \cup {q.who})
    BY <1>1, <1>a, <2>1, EachOnceAppend
  <2> QED BY <2>2 DEF EachOnce
<1>5. AloneOK' /\ DialogOK'
  <2>1. \A r \in flight' : r.kind = "create" => r.who \notin ToSet(users')
    BY <1>1, <1>a
  <2>2. dialog' = None /\ q.kind \in OfDialog
    BY <1>1, <1>3 DEF CreateDone, Closed, OfDialog
  <2> QED BY <1>1, <2>1, <2>2, OneLess DEF GInv
<1>b. T \subseteq Users /\ DOMAIN entry = T /\ RecordsOf(entry) /\ RecordsOf(accounts)
  BY DEF GInv, SameUsers
<1> HIDE DEF a
<1>c. /\ DOMAIN entry' = T \cup {q.who} /\ entry'[q.who] = a
      /\ \A u \in T : entry'[u] = entry[u]
  BY <1>2, <1>a, <1>b
<1>6. RecordsOf(entry)'
  <2>1. entry' = [u \in DOMAIN entry' |-> entry'[u]]
    BY <1>2
  <2>2. a = [name |-> a.name, enabled |-> a.enabled]
    BY DEF a
  <2> QED BY <1>b, <1>c, <2>1, <2>2 DEF RecordsOf
<1>7. SameUsers'
  <2>1. \A s \in flight' : ~ WasTold(s, "create") /\ ~ WasTold(s, "delete")
    BY <1>1, <1>a DEF WasTold
  <2>2. \A u \in Users : u \in DOMAIN accounts <=> u \in T \/ u = q.who
    <3>1. \A u \in Users : u \in DOMAIN accounts <=>
            \/ u \in T /\ \A s \in flight : WasTold(s, "delete") => u \notin s.all
            \/ \E s \in flight : WasTold(s, "create") /\ s.who = u
      BY DEF GInv, SameUsers
    <3> QED BY <3>1, <1>a DEF WasTold
  <2>3. \A u \in Users : u \in DOMAIN accounts' <=>
          \/ u \in ToSet(users') /\ \A s \in flight' : WasTold(s, "delete") => u \notin s.all
          \/ \E s \in flight' : WasTold(s, "create") /\ s.who = u
    BY <1>1, <1>4, <2>1, <2>2
  <2>4. DOMAIN accounts' \subseteq Users /\ RecordsOf(accounts)'
    BY <1>1 DEF GInv, SameUsers, RecordsOf
  <2>5. EachOnce(users', ToSet(users')) /\ ToSet(users') \subseteq Users
    BY <1>4, <1>a, <1>b
  <2> QED BY <1>4, <1>6, <1>c, <2>3, <2>4, <2>5 DEF SameUsers
<1>8. SameRecords'
  <2>1. \A s \in flight' : WasTold(s, "create") =>
          accounts'[s.who] = [name |-> s.name, enabled |-> s.enabled]
    BY <1>1 DEF GInv, SameRecords
  <2>2. ASSUME NEW u \in DOMAIN accounts' \cap ToSet(users')
        PROVE  /\ \A s \in flight' : WasTold(s, "edit") /\ s.who = u => accounts'[u].name = s.name
               /\ (\A s \in flight' : WasTold(s, "edit") => s.who # u)
                     => accounts'[u].name = entry'[u].name
               /\ \A s \in flight' : WasTold(s, "enable") /\ s.who = u
                     => accounts'[u].enabled = s.enabled
               /\ (\A s \in flight' : WasTold(s, "enable") => s.who # u)
                     => accounts'[u].enabled = entry'[u].enabled
    <3>1. CASE u = q.who
      <4>1. accounts'[u] = a /\ entry'[u] = a
        BY <3>1, <1>1, <1>a, <1>c DEF GInv, SameRecords, a
      <4>2. \A s \in flight' : s.who # u
        BY <3>1, <1>1, <1>a
      <4> QED BY <4>1, <4>2
    <3>2. CASE u # q.who
      <4>1. u \in DOMAIN accounts \cap ToSet(users) /\ entry'[u] = entry[u]
        BY <3>2, <1>1, <1>4, <1>c
      <4>2. /\ \A s \in flight : WasTold(s, "edit") /\ s.who = u => accounts[u].name = s.name
            /\ (\A s \in flight : WasTold(s, "edit") => s.who # u)
                  => accounts[u].name = entry[u].name
            /\ \A s \in flight : WasTold(s, "enable") /\ s.who = u
                  => accounts[u].enabled = s.enabled
            /\ (\A s \in flight : WasTold(s, "enable") => s.who # u)
                  => accounts[u].enabled = entry[u].enabled
        BY <4>1 DEF GInv, SameRecords
      <4>3. \A s : /\ s \in flight' /\ WasTold(s, "edit") <=> s \in flight /\ WasTold(s, "edit")
                   /\ s \in flight' /\ WasTold(s, "enable")
                         <=> s \in flight /\ WasTold(s, "enable")
        BY <1>1 DEF WasTold
      <4> QED BY <1>1, <4>1, <4>2, <4>3
    <3> QED BY <3>1, <3>2
  <2> QED BY <2>1, <2>2 DEF SameRecords
<1> QED BY <1>5, <1>7, <1>8 DEF GInv

LEMMA GInvDeleteShown ==
    ASSUME AccountsPageAssumption, GInv, NEW q \in flight, DeleteDone(q)
    PROVE  GInv'
<1> DEFINE T == ToSet(users)
           gone == T \cap ToSet(users_selected)
<1>1. /\ q.kind = "delete" /\ q.answer = "done" /\ flight' = flight \ {q}
      /\ users' = Omit(users, gone) /\ UNCHANGED accounts
      /\ entry' = [u \in ToSet(users') |-> entry[u]]
  BY DEF DeleteDone, Got, Restrict
<1>2. dialog # None /\ dialog.kind = "delete" /\ q.all = ToSet(users_selected)
  BY <1>1 DEF GInv, DialogOK, OfDialog
<1>a. /\ WasTold(q, "delete") /\ \A s \in flight : s.kind = "delete" => s = q
      /\ \A s \in flight : s.kind # "create" /\ s.kind # "edit"
  BY <1>1 DEF GInv, AloneOK, DialogOK, OfDialog, WasTold
<1>3. /\ EachOnce(users', T \ q.all) /\ ToSet(users') = T \ q.all
  <2>1. EachOnce(users, T)
    BY DEF GInv, SameUsers
  <2>2. T \ gone = T \ q.all
    BY <1>2
  <2> HIDE DEF gone, T
  <2>3. EachOnce(users', T \ gone)
    BY <1>1, <2>1, EachOnceOmit
  <2> QED BY <2>2, <2>3 DEF EachOnce
<1>4. AloneOK' /\ DialogOK'
  <2>1. \A r \in flight' : r.kind = "create" => r.who \notin ToSet(users')
    BY <1>1, <1>a
  <2>2. dialog' = None /\ q.kind \in OfDialog
    BY <1>1, <1>2 DEF DeleteDone, Closed, OfDialog
  <2> QED BY <1>1, <2>1, <2>2, OneLess DEF GInv
<1>b. T \subseteq Users /\ DOMAIN entry = T /\ RecordsOf(entry) /\ RecordsOf(accounts)
  BY DEF GInv, SameUsers
<1>c. DOMAIN entry' = T \ q.all /\ \A u \in T \ q.all : entry'[u] = entry[u]
  BY <1>1, <1>3
<1>5. RecordsOf(entry)'
  <2>1. entry' = [u \in DOMAIN entry' |-> entry'[u]]
    BY <1>1
  <2> QED BY <1>b, <1>c, <2>1 DEF RecordsOf
<1>6. SameUsers'
  <2>1. \A s \in flight' : ~ WasTold(s, "create") /\ ~ WasTold(s, "delete")
    BY <1>1, <1>a DEF WasTold
  <2>2. \A u \in Users : u \in DOMAIN accounts <=> u \in T \ q.all
    <3>1. \A u \in Users : u \in DOMAIN accounts <=>
            \/ u \in T /\ \A s \in flight : WasTold(s, "delete") => u \notin s.all
            \/ \E s \in flight : WasTold(s, "create") /\ s.who = u
      BY DEF GInv, SameUsers
    <3> QED BY <3>1, <1>a DEF WasTold
  <2>3. \A u \in Users : u \in DOMAIN accounts' <=>
          \/ u \in ToSet(users') /\ \A s \in flight' : WasTold(s, "delete") => u \notin s.all
          \/ \E s \in flight' : WasTold(s, "create") /\ s.who = u
    BY <1>1, <1>3, <2>1, <2>2
  <2>4. DOMAIN accounts' \subseteq Users /\ RecordsOf(accounts)'
    BY <1>1 DEF GInv, SameUsers, RecordsOf
  <2>5. EachOnce(users', ToSet(users')) /\ ToSet(users') \subseteq Users
    BY <1>3, <1>b
  <2> QED BY <1>3, <1>5, <1>c, <2>3, <2>4, <2>5 DEF SameUsers
<1>7. SameRecords'
  <2>1. \A s \in flight' : ~ WasTold(s, "create") /\ ~ WasTold(s, "edit")
    BY <1>1, <1>a DEF WasTold
  <2>2. ASSUME NEW u \in DOMAIN accounts' \cap ToSet(users')
        PROVE  /\ accounts'[u].name = entry'[u].name
               /\ \A s \in flight' : WasTold(s, "enable") /\ s.who = u
                     => accounts'[u].enabled = s.enabled
               /\ (\A s \in flight' : WasTold(s, "enable") => s.who # u)
                     => accounts'[u].enabled = entry'[u].enabled
    <3>1. u \in DOMAIN accounts \cap ToSet(users) /\ entry'[u] = entry[u]
      BY <1>1, <1>3, <1>c
    <3>2. /\ (\A s \in flight : WasTold(s, "edit") => s.who # u)
                => accounts[u].name = entry[u].name
          /\ \A s \in flight : WasTold(s, "enable") /\ s.who = u
                => accounts[u].enabled = s.enabled
          /\ (\A s \in flight : WasTold(s, "enable") => s.who # u)
                => accounts[u].enabled = entry[u].enabled
      BY <3>1 DEF GInv, SameRecords
    <3>3. \A s : s \in flight' /\ WasTold(s, "enable") <=> s \in flight /\ WasTold(s, "enable")
      BY <1>1 DEF WasTold
    <3>4. \A s \in flight : ~ WasTold(s, "edit")
      BY <1>a DEF WasTold
    <3> QED BY <1>1, <3>1, <3>2, <3>3, <3>4
  <2> QED BY <2>1, <2>2 DEF SameRecords
<1> QED BY <1>4, <1>6, <1>7 DEF GInv

LEMMA StepGInv ==
    ASSUME AccountsPageAssumption, careless \/ repeated \/ GInv, [AccountsNext]_accountsVars
    PROVE  careless' \/ repeated' \/ GInv'
<1>1. (careless => careless') /\ (repeated => repeated')
  BY HistoryStays
<1> SUFFICES ASSUME GInv PROVE careless' \/ repeated' \/ GInv'
  BY <1>1
<1>2. GInv
  OBVIOUS
<1>3. CASE UNCHANGED accountsVars
  <2>1. UNCHANGED <<accounts, users, entry, flight, users_selected, dialog, id_user_selected>>
    BY <1>3 DEF accountsVars
  <2> QED BY <1>2, <2>1 DEF GInv, AloneOK, DialogOK, SameUsers, SameRecords, RecordsOf
<1>4. CASE \/ ChangeEntries \/ FilterUsers \/ ChangeCheckAll
           \/ OpenCreate \/ OpenDelete \/ CloseDialog
           \/ \E n \in 1..Cardinality(Users) : TurnTable(n)
           \/ \E f \in Filters : FilterTyped(f)
           \/ \E u \in Users : \/ ChangeCheck(u)
                               \/ \E k \in {"edit", "password"} : OpenUser(k, u)
  BY <1>2, <1>4, GInvChoices
<1>5. CASE \/ SubmitPassword \/ SubmitDelete
           \/ \E n \in Names : SubmitEdit(n)
           \/ \E u \in Users : \/ SubmitEnable(u)
                               \/ \E n \in Names, on \in BOOLEAN : SubmitCreate(u, n, on)
  BY <1>2, <1>5, GInvAsks
<1>6. ASSUME NEW q \in flight, Serve(q) PROVE careless' \/ GInv'
  BY <1>2, <1>6, GInvServed
<1>7. ASSUME NEW q \in flight, PasswordDone(q) \/ DeleteFailed(q) \/ Failed(q)
      PROVE  careless' \/ GInv'
  BY <1>2, <1>7, GInvToldNothing
<1>8. ASSUME NEW q \in flight, EditDone(q) \/ EnableDone(q) PROVE careless' \/ GInv'
  BY <1>2, <1>8, GInvEditShown, GInvEnableShown
<1>9. ASSUME NEW q \in flight, CreateDone(q) \/ DeleteDone(q) PROVE careless' \/ GInv'
  BY <1>2, <1>9, GInvCreateShown, GInvDeleteShown
<1>10. ASSUME NEW q \in flight, RefusedDone(q) PROVE careless' \/ GInv'
  BY <1>10 DEF RefusedDone
<1> QED BY <1>3, <1>4, <1>5, <1>6, <1>7, <1>8, <1>9, <1>10 DEF AccountsNext

\* Whatever is created, edited, enabled and deleted, in whatever order it is
\* served and answered, the page shows exactly the accounts that there are,
\* with what the server says of each, whenever no request is on its way.
THEOREM ThePageIsTheTable ==
    ASSUME AccountsPageAssumption PROVE AccountsPageSpec => []ListAgrees
<1>1. AccountsInit => careless \/ repeated \/ GInv
  BY InitGInv
<1>2. (careless \/ repeated \/ GInv) /\ [AccountsNext]_accountsVars
         => (careless \/ repeated \/ GInv)'
  BY StepGInv
<1>3. careless \/ repeated \/ GInv => ListAgrees
  <2> SUFFICES ASSUME GInv, flight = {}
               PROVE  entry = accounts /\ ToSet(users) = DOMAIN accounts /\ IsInjective(users)
    BY DEF ListAgrees
  <2>1. /\ DOMAIN entry = ToSet(users) /\ ToSet(users) \subseteq Users
        /\ DOMAIN accounts \subseteq Users /\ RecordsOf(entry) /\ RecordsOf(accounts)
        /\ \A u \in Users : u \in DOMAIN accounts <=> u \in ToSet(users)
    BY DEF GInv, SameUsers
  <2>2. ToSet(users) = DOMAIN accounts
    BY <2>1
  <2>3. \A u \in DOMAIN accounts : /\ accounts[u].name = entry[u].name
                                   /\ accounts[u].enabled = entry[u].enabled
    BY <2>2 DEF GInv, SameRecords
  <2>4. \A u \in DOMAIN accounts : accounts[u] = entry[u]
    BY <2>1, <2>2, <2>3 DEF RecordsOf
  <2>5. entry = accounts
    BY <2>1, <2>2, <2>4 DEF RecordsOf
  <2>6. IsInjective(users)
    BY DEF GInv, SameUsers, EachOnce
  <2> QED BY <2>2, <2>5, <2>6
<1> QED BY <1>1, <1>2, <1>3, PTL DEF AccountsPageSpec

-----------------------------------------------------------------------------
(* Lists: what is found, and its pages. *)

LEMMA LikeIs ==
    ASSUME NEW s \in Seq(Items), NEW f
    PROVE  /\ Like(s, f) \in Seq(Items) /\ Like(s, Everything) = s
           /\ s = <<>> => Like(s, f) = <<>>
<1>1. Like(s, f) \in Seq(Items)
  <2> DEFINE at == {i \in DOMAIN s : s[i] \in f}
             r == SelectPositions(s, at)
  <2>1. PICK h : Selected(Items, s, at, Len(s), r, h)
    BY Selects
  <2> HIDE DEF r, at
  <2>2. r \in Seq(Items)
    BY <2>1 DEF Selected
  <2> QED BY <2>2 DEF r, at, Like
<1>2. Like(s, Everything) = s
  <2> DEFINE at == {i \in DOMAIN s : s[i] \in Everything}
  <2>1. 1..Len(s) \subseteq at
    BY DEF Everything
  <2> HIDE DEF at
  <2>2. SelectPositions(s, at) = s
    BY <2>1, SelectsAll
  <2> QED BY <2>2 DEF at, Like
<1>3. s = <<>> => Like(s, f) = <<>>
  BY SelectsNone DEF Like
<1> QED BY <1>1, <1>2, <1>3

LEMMA PageOfIs ==
    ASSUME ListsAssumption, NEW s \in Seq(Items), NEW n \in Nat \ {0}
    PROVE  /\ PageOf(s, n) \in Seq(Items)
           /\ s = <<>> => PageOf(s, n) = <<>>
           /\ PageOf(s, 1) = <<>> => s = <<>>
<1> DEFINE a == (n - 1) * PageSize + 1
           b == IF n * PageSize < Len(s) THEN n * PageSize ELSE Len(s)
           r == SubSeq(s, a, b)
<1>1. PageSize \in Nat /\ PageSize >= 1
  BY DEF ListsAssumption
<1>2. a \in Nat /\ a >= 1 /\ b \in Nat /\ b <= Len(s)
  <2>1. \A m \in Nat : m * PageSize \in Nat
    BY <1>1
  <2>2. (n - 1) * PageSize \in Nat /\ n * PageSize \in Nat
    BY <2>1
  <2> QED BY <2>2
<1> HIDE DEF a, b
<1>3. r \in Seq(Items)
  BY <1>2
<1>4. s = <<>> => r = <<>>
  BY <1>2
<1>5. ASSUME s # <<>> PROVE PageOf(s, 1) # <<>>
  <2> DEFINE c == IF 1 * PageSize < Len(s) THEN 1 * PageSize ELSE Len(s)
  <2>1. c \in 1..Len(s)
    BY <1>1, <1>5
  <2>2. (1 - 1) * PageSize + 1 = 1
    BY <1>1
  <2> HIDE DEF c
  <2>3. Len(SubSeq(s, 1, c)) = c
    BY <2>1
  <2>4. PageOf(s, 1) = SubSeq(s, 1, c)
    BY <2>2 DEF PageOf, c
  <2> QED BY <2>1, <2>3, <2>4
<1>6. PageOf(s, n) = r
  BY DEF PageOf, a, b
<1> QED BY <1>3, <1>4, <1>5, <1>6

\* Pages rounds up.
LEMMA PagesEnough ==
    ASSUME ListsAssumption, NEW n \in Nat
    PROVE  Pages(n) \in Nat /\ n <= Pages(n) * PageSize
<1>1. PageSize \in Nat /\ PageSize >= 1
  BY DEF ListsAssumption
<1>2. \A a \in Nat : a \div PageSize \in Nat /\ a < (a \div PageSize) * PageSize + PageSize
  BY <1>1
<1> DEFINE q == (n + PageSize - 1) \div PageSize
<1>3. q \in Nat /\ n + PageSize - 1 < q * PageSize + PageSize
  BY <1>1, <1>2
<1>5. Pages(n) = q
  BY DEF Pages
<1> HIDE DEF q
<1>4. q * PageSize \in Nat
  BY <1>1, <1>3
<1>6. n <= q * PageSize
  BY <1>1, <1>3, <1>4
<1> QED BY <1>3, <1>5, <1>6

-----------------------------------------------------------------------------
(* Lists: LInv says, until two requests for one list overlap, what the page  *)
(* holds while it waits for an answer (Alone: for just one, or one for each  *)
(* tab) and when it waits for none.  What the answer will be of, and the     *)
(* filter that it may have forgotten, are known from its request.            *)

Shapes == [rows : Seq(Items), total : Nat, page : Nat \ {0}, alert : BOOLEAN,
           loaded : BOOLEAN]
Places == IF script = "applications_of_organization" THEN Orgs ELSE {None}
ListsTypes ==
    /\ script \in Paged \cup Tabbed \cup Searches \cup {"trusted_applications"}
    /\ organization \in Places /\ tab \in PanesOf(script)
    /\ stored \in [Places \X PanesOf(script) -> Seq(Items)]
    /\ \A x \in DOMAIN stored : Len(stored[x]) <= Cardinality(Items)
    /\ view \in [PanesOf(script) -> Shapes]
    /\ timer \in BOOLEAN /\ astray \in BOOLEAN

Stock(o, p) == stored[o, p]
held == Stock(organization, "provider")
shows == view["provider"]
Reach(p, f) == Len(Like(Stock(organization, p), f)) <= view[p].total * PageSize
Alone(r) == unanswered = <<r>> /\ r.pane = "provider" /\ r.organization = organization

PagedAwaits(r) ==
    \/ /\ r.what = "load" /\ r.key = Everything /\ r.page = 1 /\ shows = Blank
       /\ timer \/ typed = Everything
    \/ r.what = "filter" /\ r.page = 1 /\ (timer \/ r.key = typed)
    \/ /\ r.what = "page" /\ r.key = Everything /\ r.page = shows.page
       /\ astray \/ timer \/ typed = Everything
       /\ timer \/ Reach("provider", typed)
PagedSettled ==
    /\ shows.alert => shows.rows = <<>>
    /\ ~timer => /\ astray \/ shows.rows = PageOf(Like(held, typed), shows.page)
                 /\ Reach("provider", typed)
PagedInv ==
    /\ unanswered = <<>> => PagedSettled
    /\ unanswered # <<>> => Alone(unanswered[1]) /\ PagedAwaits(unanswered[1])

LEMMA OnePane ==
    ASSUME script \in Paged \cup Searches \cup {"trusted_applications"}
    PROVE  PanesOf(script) = {"provider"} /\ Places = {None} /\ FirstTab = "provider"
BY DEF Paged, Searches, PanesOf, Places, FirstTab

\* What is stored where there is one list.
LEMMA HeldIs ==
    ASSUME ListsTypes, PanesOf(script) = {"provider"}
    PROVE  /\ held \in Seq(Items) /\ shows \in Shapes /\ DOMAIN view = {"provider"}
           /\ \A r : Alone(r) => StoredFor(r) = held
BY DEF ListsTypes, held, Stock, shows, StoredFor, Alone

\* The only request is answered.
LEMMA AnswersOne ==
    ASSUME NEW q, unanswered = <<q>>, NEW r, Answered(r)
    PROVE  r = q /\ unanswered' = <<>>
<1>1. <<q>> \in Seq({q}) /\ Len(<<q>>) = 1 /\ DOMAIN <<q>> = 1..1
  OBVIOUS
<1>2. PICK i \in 1..1 : r = <<q>>[i] /\ unanswered' = RemoveAt(<<q>>, i)
  BY <1>1 DEF Answered
<1>3. unanswered' \in Seq({q}) /\ Len(unanswered') = 0
  <2> DEFINE s == <<q>>
  <2> HIDE DEF s
  <2>1. s \in Seq({q}) /\ Len(s) = 1 /\ i \in 1..Len(s)
    BY <1>1 DEF s
  <2>2. RemoveAt(s, i) \in Seq({q}) /\ Len(RemoveAt(s, i)) = Len(s) - 1
    BY <2>1, Removed
  <2> QED BY <1>2, <2>1, <2>2 DEF s
<1> QED BY <1>2, <1>3

\* A request that overlaps with none is the only one.
LEMMA Sends ==
    ASSUME unanswered = <<>> \/ \E q : Alone(q), NEW r, r.pane = "provider", Send(r),
           ~overlapped'
    PROVE  unanswered = <<>> /\ unanswered' = <<r>>
<1>1. ASSUME NEW q, Alone(q) PROVE FALSE
  <2>1. 1 \in DOMAIN unanswered /\ unanswered[1].pane = r.pane
    BY <1>1 DEF Alone
  <2> QED BY <2>1 DEF Send
<1>2. unanswered = <<>>
  BY <1>1
<1> QED BY <1>2 DEF Send

LEMMA PagerIs ==
    ASSUME ListsAssumption, NEW v \in Shapes, NEW n \in Nat
    PROVE  /\ Pager(v, n) \in Shapes /\ Pager(v, n).rows = v.rows
           /\ Pager(v, n).alert = v.alert /\ Pager(v, n).loaded = v.loaded
           /\ n = 0 => Pager(v, n) = v
           /\ n # 0 => Pager(v, n).page = 1 /\ n <= Pager(v, n).total * PageSize
<1> DEFINE k == Pages(n)
           w == [v EXCEPT !.total = k, !.page = 1]
<1>1. k \in Nat /\ n <= k * PageSize
  BY PagesEnough
<1>2. Pager(v, n) = IF n = 0 THEN v ELSE w
  BY DEF Pager
<1> HIDE DEF k
<1>3. /\ w \in Shapes /\ w.rows = v.rows /\ w.alert = v.alert /\ w.loaded = v.loaded
      /\ w.page = 1 /\ w.total = k
  <2> DEFINE u == [v EXCEPT !.total = k]
  <2>1. /\ u \in Shapes /\ u.rows = v.rows /\ u.alert = v.alert /\ u.loaded = v.loaded
        /\ u.total = k
    BY <1>1 DEF Shapes
  <2>2. w = [u EXCEPT !.page = 1]
    OBVIOUS
  <2> HIDE DEF u, w
  <2> QED BY <2>1, <2>2 DEF Shapes
<1> HIDE DEF w
<1> QED BY <1>1, <1>2, <1>3

LEMMA RowsSet ==
    ASSUME NEW v \in Shapes, NEW x \in Seq(Items), NEW w, w = [v EXCEPT !.rows = x]
    PROVE  /\ w \in Shapes /\ w.rows = x /\ w.total = v.total /\ w.page = v.page
           /\ w.alert = v.alert /\ w.loaded = v.loaded
BY DEF Shapes

LEMMA AlertSet ==
    ASSUME NEW v \in Shapes, NEW b \in BOOLEAN, NEW w, w = [v EXCEPT !.alert = b]
    PROVE  /\ w \in Shapes /\ w.rows = v.rows /\ w.total = v.total /\ w.page = v.page
           /\ w.alert = b /\ w.loaded = v.loaded
BY DEF Shapes

LEMMA BothSet ==
    ASSUME NEW v \in Shapes, NEW x \in Seq(Items), NEW b \in BOOLEAN,
           NEW w, w = [v EXCEPT !.rows = x, !.alert = b]
    PROVE  /\ w \in Shapes /\ w.rows = x /\ w.total = v.total /\ w.page = v.page
           /\ w.alert = b /\ w.loaded = v.loaded
<1> DEFINE u == [v EXCEPT !.rows = x]
<1>1. /\ u \in Shapes /\ u.rows = x /\ u.total = v.total /\ u.page = v.page
      /\ u.alert = v.alert /\ u.loaded = v.loaded
  BY RowsSet
<1>2. w = [u EXCEPT !.alert = b]
  OBVIOUS
<1> HIDE DEF u
<1> QED BY <1>1, <1>2 DEF Shapes

\* The rows of the first page are all there is when there are none.
LEMMA LoadIs ==
    ASSUME ListsAssumption, NEW v \in Shapes, v = Blank,
           NEW d, d.rows \in Seq(Items), d.count \in Nat, d.rows # <<>> => d.count # 0,
           NEW w, w = Load(v, d)
    PROVE  /\ w \in Shapes /\ w.rows = d.rows /\ w.page = 1 /\ w.total \in Nat
           /\ w.alert => w.rows = <<>>
           /\ d.rows # <<>> => d.count <= w.total * PageSize
<1>1. v.rows = <<>> /\ v.alert = FALSE /\ v.page = 1
  BY DEF Blank
<1>2. CASE d.rows = <<>>
  <2>1. w = [v EXCEPT !.alert = TRUE]
    BY <1>2 DEF Load
  <2> QED BY <2>1, <1>1, <1>2, AlertSet DEF Shapes
<1>3. CASE d.rows # <<>>
  <2>1. PICK u : u = Pager(v, d.count)
    OBVIOUS
  <2>2. /\ u \in Shapes /\ u.rows = <<>> /\ u.alert = FALSE /\ u.page = 1
        /\ d.count <= u.total * PageSize
    BY <2>1, <1>1, <1>3, PagerIs
  <2>3. w = [u EXCEPT !.rows = u.rows \o d.rows]
    BY <1>3, <2>1 DEF Load
  <2>4. u.rows \o d.rows = d.rows
    BY <2>2
  <2>5. w = [u EXCEPT !.rows = d.rows]
    BY <2>3, <2>4
  <2> QED BY <2>2, <2>5, RowsSet DEF Shapes
<1> QED BY <1>2, <1>3

LEMMA FilteredIs ==
    ASSUME ListsAssumption, NEW v \in Shapes,
           NEW d, d.rows \in Seq(Items), d.count \in Nat, d.rows # <<>> => d.count # 0,
           NEW w, w = Filtered(v, d)
    PROVE  /\ w \in Shapes /\ w.rows = d.rows /\ w.total \in Nat
           /\ w.alert => w.rows = <<>>
           /\ d.rows # <<>> => w.page = 1 /\ d.count <= w.total * PageSize
<1>2. CASE d.rows = <<>>
  <2> DEFINE u == [v EXCEPT !.rows = <<>>]
             t == [u EXCEPT !.total = 0]
  <2>1. w = [t EXCEPT !.alert = TRUE]
    BY <1>2 DEF Filtered
  <2>2. u \in Shapes /\ u.rows = <<>>
    <3>1. <<>> \in Seq(Items)
      OBVIOUS
    <3> QED BY <3>1 DEF Shapes
  <2> HIDE DEF u
  <2>3. t \in Shapes /\ t.rows = <<>>
    BY <2>2 DEF Shapes
  <2> HIDE DEF t
  <2> QED BY <2>1, <2>3, <1>2, AlertSet DEF Shapes
<1>3. CASE d.rows # <<>>
  <2>1. PICK u : u = Pager(v, d.count)
    OBVIOUS
  <2>2. u \in Shapes /\ u.page = 1 /\ d.count <= u.total * PageSize
    BY <2>1, <1>3, PagerIs
  <2>3. w = [u EXCEPT !.rows = d.rows, !.alert = FALSE]
    BY <1>3, <2>1 DEF Filtered
  <2> QED BY <2>2, <2>3, BothSet DEF Shapes
<1> QED BY <1>2, <1>3

LEMMA TurnedIs ==
    ASSUME NEW v \in Shapes, NEW d, d.rows \in Seq(Items), NEW w, w = Turned(v, d)
    PROVE  /\ w \in Shapes /\ w.rows = d.rows /\ w.total = v.total /\ w.page = v.page
           /\ w.alert = FALSE /\ w.loaded = v.loaded
<1>1. w = [v EXCEPT !.rows = d.rows, !.alert = FALSE]
  BY DEF Turned
<1> QED BY <1>1, BothSet DEF Shapes

LEMMA PagedReply ==
    ASSUME ListsAssumption, ListsTypes, script \in Paged, NEW r, Alone(r),
           r.page \in Nat \ {0},
           NEW f, f = Like(held, r.key)
    PROVE  /\ Reply(r).rows = PageOf(f, r.page) /\ Reply(r).rows \in Seq(Items)
           /\ Reply(r).count \in Nat
           /\ Reply(r).rows # <<>> => Reply(r).count = Len(f)
<1>1. StoredFor(r) = held /\ held \in Seq(Items)
  BY OnePane, HeldIs
<1>2. f \in Seq(Items) /\ PageOf(f, r.page) \in Seq(Items) /\ Len(f) \in Nat
  <2>1. f \in Seq(Items)
    BY <1>1, LikeIs
  <2> QED BY <2>1, PageOfIs
<1>3. Distinct(r) = search_distinct(f, Len(f), r.page)
  BY <1>1 DEF Distinct
<1>4. \/ Reply(r) = search_distinct(f, Len(f), r.page)
      \/ Reply(r) = findAndCountAll(f, r.page)
  BY <1>1, <1>3 DEF Reply, Paged, authorized_users, authorized_organizations, admin_users,
     get_members, get_applications, users_get_applications, users_get_organizations
<1> QED BY <1>2, <1>4 DEF search_distinct, findAndCountAll

LEMMA SameLists ==
    ASSUME ListsTypes, UNCHANGED <<script, stored, organization>>, tab' \in PanesOf(script),
           view' \in [PanesOf(script) -> Shapes], timer' \in BOOLEAN, astray' \in BOOLEAN
    PROVE  ListsTypes'
BY DEF ListsTypes, PanesOf, Places

-----------------------------------------------------------------------------
(* Lists: those with a filter that the server applies. *)

LEMMA PagedType ==
    ASSUME ListsTypes, PagedInv, Type
    PROVE  ListsTypes' /\ PagedInv'
<1>1. ListsTypes'
  BY SameLists DEF Type, ListsTypes
<1> QED BY <1>1 DEF Type, PagedInv, PagedSettled, PagedAwaits, Alone, shows, held, Stock

LEMMA PagedAsks ==
    ASSUME ListsTypes, script \in Paged, PagedInv, send_filter_request, ~overlapped'
    PROVE  ListsTypes' /\ PagedInv'
<1>0. PICK r : r = ListRequest("filter", "provider", 1)
  OBVIOUS
<1>1. ListsTypes'
  BY SameLists DEF send_filter_request, TimerRuns, ListsTypes
<1>2. r.pane = "provider" /\ r.what = "filter" /\ r.page = 1 /\ r.key = typed
      /\ r.organization = organization
  BY <1>0 DEF ListRequest
<1>3. unanswered' = <<r>>
  <2>1. unanswered = <<>> \/ \E q : Alone(q)
    BY DEF PagedInv
  <2>2. Send(r)
    BY <1>0 DEF send_filter_request
  <2> QED BY <1>2, <2>1, <2>2, Sends
<1>4. unanswered' # <<>> /\ unanswered'[1] = r
  BY <1>3
<1>5. Alone(r)'
  BY <1>2, <1>3 DEF Alone, send_filter_request
<1>6. PagedAwaits(r)'
  BY <1>2 DEF PagedAwaits, send_filter_request
<1> QED BY <1>1, <1>4, <1>5, <1>6 DEF PagedInv

LEMMA PagedTurns ==
    ASSUME ListsTypes, script \in Paged, PagedInv, TurnPage, ~overlapped'
    PROVE  ListsTypes' /\ PagedInv'
<1>a. PanesOf(script) = {"provider"}
  BY OnePane
<1>b. shows \in Shapes /\ DOMAIN view = {"provider"}
  BY <1>a, HeldIs
<1>0. PICK n \in 1..shows.total :
         /\ view' = [view EXCEPT !["provider"].page = n]
         /\ Send(ListRequest("page", "provider", n))
  BY DEF TurnPage, shows
<1>c. n \in Nat \ {0}
  BY <1>b DEF Shapes
<1>e. PICK r : r = ListRequest("page", "provider", n)
  OBVIOUS
<1>d. /\ shows' = [shows EXCEPT !.page = n] /\ shows' \in Shapes
      /\ view' \in [{"provider"} -> Shapes]
  <2>1. view \in [{"provider"} -> Shapes]
    BY <1>a DEF ListsTypes
  <2>2. [shows EXCEPT !.page = n] \in Shapes
    BY <1>b, <1>c DEF Shapes
  <2>3. view' = [view EXCEPT !["provider"] = [shows EXCEPT !.page = n]]
    BY <1>0 DEF shows
  <2> QED BY <2>1, <2>2, <2>3 DEF shows
<1>1. ListsTypes'
  BY <1>a, <1>d, SameLists DEF TurnPage, ListsTypes
<1>2. r.pane = "provider" /\ r.what = "page" /\ r.page = n /\ r.key = Everything
      /\ r.organization = organization
  BY <1>e DEF ListRequest
<1>3. unanswered = <<>> /\ unanswered' = <<r>>
  <2>1. unanswered = <<>> \/ \E q : Alone(q)
    BY DEF PagedInv
  <2>2. Send(r)
    BY <1>0, <1>e
  <2> QED BY <1>2, <2>1, <2>2, Sends
<1>4. unanswered' # <<>> /\ unanswered'[1] = r
  BY <1>3
<1>5. Alone(r)'
  BY <1>2, <1>3 DEF Alone, TurnPage
<1>6. PagedAwaits(r)'
  <2>1. shows'.page = n /\ shows'.total = shows.total
    BY <1>b, <1>d DEF Shapes
  <2>2. timer \/ Reach("provider", typed)
    BY <1>3 DEF PagedInv, PagedSettled
  <2>3. timer' \/ Reach("provider", typed)'
    BY <2>1, <2>2 DEF Reach, TurnPage, shows, Stock
  <2>4. astray' \/ timer' \/ typed' = Everything
    BY DEF TurnPage
  <2> QED BY <1>2, <2>1, <2>3, <2>4 DEF PagedAwaits
<1> QED BY <1>1, <1>4, <1>5, <1>6 DEF PagedInv

LEMMA PagedGets ==
    ASSUME ListsAssumption, ListsTypes, script \in Paged, PagedInv, PagedAnswer
    PROVE  ListsTypes' /\ PagedInv'
<1>a. PanesOf(script) = {"provider"}
  BY OnePane
<1>b. shows \in Shapes /\ DOMAIN view = {"provider"} /\ held \in Seq(Items)
  BY <1>a, HeldIs
<1>0. PICK r : /\ Answered(r)
               /\ view' = [view EXCEPT !["provider"] =
                             CASE r.what = "load" -> Load(shows, Reply(r))
                               [] r.what = "filter" -> Filtered(shows, Reply(r))
                               [] OTHER -> Turned(shows, Reply(r))]
               /\ astray' = (astray /\ r.what # "filter")
  BY DEF PagedAnswer, shows
<1>1. unanswered # <<>>
  BY <1>0 DEF Answered
<1>2. Alone(unanswered[1]) /\ PagedAwaits(unanswered[1])
  BY <1>1 DEF PagedInv
<1>3. r = unanswered[1] /\ unanswered' = <<>>
  BY <1>0, <1>2, AnswersOne DEF Alone
<1>4. Alone(r) /\ PagedAwaits(r)
  BY <1>2, <1>3
<1>5. r.page \in Nat \ {0}
  BY <1>b, <1>4 DEF PagedAwaits, Shapes
<1> DEFINE d == Reply(r)
           f == Like(held, r.key)
           w == CASE r.what = "load" -> Load(shows, d)
                  [] r.what = "filter" -> Filtered(shows, d)
                  [] OTHER -> Turned(shows, d)
<1>6. /\ d.rows = PageOf(f, r.page) /\ d.rows \in Seq(Items) /\ d.count \in Nat
      /\ d.rows # <<>> => d.count = Len(f)
  BY <1>4, <1>5, PagedReply
<1>7. f \in Seq(Items) /\ Like(held, Everything) = held
  BY <1>b, LikeIs
<1>8. /\ r.page = 1 /\ d.rows = <<>> => f = <<>>
      /\ \A n \in Nat \ {0} : f = <<>> => PageOf(f, n) = <<>>
      /\ f # <<>> => Len(f) # 0
  BY <1>6, <1>7, PageOfIs
<1> HIDE DEF d, f
<1>9. \A n \in Nat : 0 <= n * PageSize
  BY DEF ListsAssumption
<1>10. /\ w \in Shapes /\ (w.alert => w.rows = <<>>) /\ w.rows = d.rows
       /\ r.what \in {"load", "filter"} =>
             Len(f) <= w.total * PageSize /\ (w.rows = <<>> \/ w.page = 1)
       /\ r.what = "page" => w.page = r.page /\ w.total = shows.total
  <2>0. (d.rows # <<>> => d.count # 0) /\ Len(f) \in Nat
    BY <1>5, <1>6, <1>7, <1>8
  <2>1. CASE r.what = "load"
    <3>1. w = Load(shows, d) /\ shows = Blank
      BY <2>1, <1>4 DEF PagedAwaits
    <3>2. /\ w \in Shapes /\ w.rows = d.rows /\ w.page = 1 /\ w.total \in Nat
          /\ w.alert => w.rows = <<>>
          /\ d.rows # <<>> => d.count <= w.total * PageSize
      <4> HIDE DEF w
      <4> QED BY <3>1, <2>0, <1>b, <1>6, LoadIs
    <3>3. r.page = 1
      BY <2>1, <1>4 DEF PagedAwaits
    <3> HIDE DEF w
    <3> QED BY <3>2, <3>3, <2>0, <2>1, <1>6, <1>8, <1>9
  <2>2. CASE r.what = "filter"
    <3>1. w = Filtered(shows, d) /\ r.page = 1
      BY <2>2, <1>4 DEF PagedAwaits
    <3>2. /\ w \in Shapes /\ w.rows = d.rows /\ w.total \in Nat
          /\ w.alert => w.rows = <<>>
          /\ d.rows # <<>> => w.page = 1 /\ d.count <= w.total * PageSize
      <4> HIDE DEF w
      <4> QED BY <3>1, <2>0, <1>b, <1>6, FilteredIs
    <3> HIDE DEF w
    <3> QED BY <3>1, <3>2, <2>0, <2>2, <1>6, <1>8, <1>9
  <2>3. CASE r.what = "page"
    <3>1. w = Turned(shows, d) /\ r.page = shows.page
      BY <2>3, <1>4 DEF PagedAwaits
    <3> HIDE DEF w
    <3>2. /\ w \in Shapes /\ w.rows = d.rows /\ w.total = shows.total
          /\ w.page = shows.page /\ w.alert = FALSE
      BY <3>1, <1>b, <1>6, TurnedIs
    <3> QED BY <3>1, <3>2, <2>3
  <2>4. r.what \in {"load", "filter", "page"}
    BY <1>4 DEF PagedAwaits
  <2>5. r.what = "load" \/ r.what = "filter" \/ r.what = "page"
    BY <2>4
  <2> HIDE DEF w
  <2> QED BY <2>1, <2>2, <2>3, <2>5, Zenon
<1>11. shows' = w /\ view' \in [{"provider"} -> Shapes]
  <2>1. view' = [view EXCEPT !["provider"] = w]
    BY <1>0 DEF d
  <2> HIDE DEF w
  <2>2. view \in [{"provider"} -> Shapes]
    BY <1>a DEF ListsTypes
  <2> QED BY <2>1, <2>2, <1>10 DEF shows
<1> HIDE DEF w
<1>12. ListsTypes'
  BY <1>a, <1>0, <1>11, SameLists DEF PagedAnswer, ListsTypes
<1>13. held' = held /\ typed' = typed /\ timer' = timer
  BY DEF PagedAnswer, held, Stock
<1>14. w.rows = PageOf(f, w.page)
  <2>1. CASE r.what = "page"
    BY <2>1, <1>6, <1>10
  <2>2. CASE r.what \in {"load", "filter"}
    <3>1. r.page = 1 /\ w.page \in Nat \ {0}
      BY <2>2, <1>4, <1>10 DEF PagedAwaits, Shapes
    <3> QED BY <3>1, <2>2, <1>6, <1>8, <1>10
  <2> QED BY <2>1, <2>2, <1>4 DEF PagedAwaits
<1>15. ASSUME ~timer, r.what \in {"load", "filter"} PROVE f = Like(held, typed)
  BY <1>15, <1>4 DEF PagedAwaits, f
<1>16. ASSUME ~timer, ~astray, r.what = "page" PROVE f = Like(held, typed)
  BY <1>16, <1>4 DEF PagedAwaits, f
<1>17. ASSUME ~timer PROVE Len(Like(held, typed)) <= w.total * PageSize
  <2>1. CASE r.what \in {"load", "filter"}
    BY <2>1, <1>10, <1>15, <1>17
  <2>2. CASE r.what = "page"
    BY <2>2, <1>4, <1>10, <1>17 DEF PagedAwaits, Reach, held, Stock, shows
  <2> QED BY <2>1, <2>2, <1>4 DEF PagedAwaits
<1>18. Reach("provider", typed)' <=> Len(Like(held, typed)) <= w.total * PageSize
  BY <1>11, <1>13 DEF Reach, held, Stock, shows, PagedAnswer
<1>19. PagedSettled'
  <2>1. shows'.alert => shows'.rows = <<>>
    BY <1>10, <1>11
  <2>2. ASSUME ~timer, ~astray' PROVE shows'.rows = PageOf(Like(held, typed), shows'.page)
    <3>1. f = Like(held, typed)
      <4>1. CASE r.what = "page"
        BY <4>1, <2>2, <1>0, <1>16
      <4> QED BY <4>1, <2>2, <1>4, <1>15 DEF PagedAwaits
    <3> QED BY <3>1, <1>11, <1>14
  <2> QED BY <2>1, <2>2, <1>11, <1>13, <1>17, <1>18 DEF PagedSettled
<1> QED BY <1>3, <1>12, <1>19 DEF PagedInv

-----------------------------------------------------------------------------
(* Lists: what may be added to one. *)

SearchInv ==
    /\ unanswered = <<>> =>
          /\ shows.alert => shows.rows = <<>>
          /\ ~timer => shows.rows = IF typed = Everything THEN <<>> ELSE Like(held, typed)
    /\ unanswered # <<>> =>
          /\ Alone(unanswered[1]) /\ shows.rows = <<>> /\ shows.alert = FALSE
          /\ timer \/ (unanswered[1].key = typed /\ typed # Everything)

\* A step that draws w where there is one list.
LEMMA OneDrawn ==
    ASSUME ListsTypes, PanesOf(script) = {"provider"}, NEW w \in Shapes,
           view' = [view EXCEPT !["provider"] = w],
           UNCHANGED <<script, stored, organization, tab>>,
           timer' \in BOOLEAN, astray' \in BOOLEAN
    PROVE  ListsTypes' /\ shows' = w /\ held' = held
<1>1. view' \in [{"provider"} -> Shapes] /\ shows' = w
  <2>1. view \in [{"provider"} -> Shapes]
    BY DEF ListsTypes
  <2> QED BY <2>1 DEF shows
<1>2. ListsTypes'
  BY <1>1, SameLists DEF ListsTypes
<1> QED BY <1>1, <1>2 DEF held, Stock

LEMMA SearchTypes ==
    ASSUME ListsTypes, SearchInv, Type
    PROVE  ListsTypes' /\ SearchInv'
<1>1. ListsTypes'
  BY SameLists DEF Type, ListsTypes
<1> QED BY <1>1 DEF Type, SearchInv, Alone, shows, held, Stock

LEMMA SearchAsks ==
    ASSUME ListsTypes, script \in Searches, SearchInv, Search, ~overlapped'
    PROVE  ListsTypes' /\ SearchInv'
<1>a. PanesOf(script) = {"provider"}
  BY OnePane
<1>b. shows \in Shapes
  BY <1>a, HeldIs
<1> DEFINE w == [shows EXCEPT !.rows = <<>>, !.alert = FALSE]
<1>1. w \in Shapes /\ w.rows = <<>> /\ w.alert = FALSE
  <2>1. <<>> \in Seq(Items)
    OBVIOUS
  <2> QED BY <2>1, <1>b, BothSet DEF Shapes
<1>2. view' = [view EXCEPT !["provider"] = w]
  BY DEF Search, shows
<1> HIDE DEF w
<1>3. ListsTypes' /\ shows' = w
  <2>1. timer' \in BOOLEAN /\ astray' \in BOOLEAN
    BY DEF Search, TimerRuns, ListsTypes
  <2> QED BY <2>1, <1>a, <1>1, <1>2, OneDrawn DEF Search
<1>4. CASE typed = Everything
  <2>1. unanswered' = <<>> /\ typed' = Everything
    BY <1>4 DEF Search
  <2> QED BY <2>1, <1>1, <1>3 DEF SearchInv
<1>5. CASE typed # Everything
  <2>0. PICK r : r = ListRequest("search", "provider", 1)
    OBVIOUS
  <2>1. r.pane = "provider" /\ r.key = typed /\ r.organization = organization
    BY <2>0 DEF ListRequest
  <2>2. unanswered' = <<r>>
    <3>1. unanswered = <<>> \/ \E q : Alone(q)
      BY DEF SearchInv
    <3>2. Send(r)
      BY <1>5, <2>0 DEF Search
    <3> QED BY <2>1, <3>1, <3>2, Sends
  <2>3. unanswered' # <<>> /\ unanswered'[1] = r
    BY <2>2
  <2>4. Alone(r)' /\ typed' = typed
    BY <2>1, <2>2 DEF Alone, Search
  <2> QED BY <1>1, <1>3, <1>5, <2>1, <2>3, <2>4 DEF SearchInv
<1> QED BY <1>4, <1>5

LEMMA SearchGets ==
    ASSUME ListsTypes, script \in Searches, SearchInv, Found
    PROVE  ListsTypes' /\ SearchInv'
<1>a. PanesOf(script) = {"provider"}
  BY OnePane
<1>b. shows \in Shapes /\ held \in Seq(Items)
  BY <1>a, HeldIs
<1>0. PICK r : /\ Answered(r)
               /\ view' = [view EXCEPT !["provider"] = FoundBelow(shows, Reply(r))]
  BY DEF Found, shows
<1>1. unanswered # <<>>
  BY <1>0 DEF Answered
<1>2. Alone(unanswered[1]) /\ shows.rows = <<>> /\ shows.alert = FALSE
  BY <1>1 DEF SearchInv
<1>3. r = unanswered[1] /\ unanswered' = <<>>
  BY <1>0, <1>2, AnswersOne DEF Alone
<1>4. Reply(r).rows = Like(held, r.key) /\ Reply(r).rows \in Seq(Items)
  <2>1. StoredFor(r) = held
    BY <1>a, <1>2, <1>3, HeldIs
  <2>2. Reply(r) = Available(r)
    BY DEF Reply, Searches, available_users, available_organizations, available_applications
  <2>3. Reply(r).rows = Like(held, r.key)
    BY <2>1, <2>2 DEF Available
  <2> QED BY <2>3, <1>b, LikeIs
<1> DEFINE x == Reply(r).rows
           w == IF x = <<>> THEN [shows EXCEPT !.alert = TRUE]
                ELSE [shows EXCEPT !.rows = shows.rows \o x]
<1> HIDE DEF x
<1>5. w \in Shapes /\ w.rows = x /\ (w.alert => w.rows = <<>>)
  <2>1. CASE x = <<>>
    BY <2>1, <1>b, <1>2, AlertSet DEF Shapes
  <2>2. CASE x # <<>>
    <3>1. shows.rows \o x = x /\ x \in Seq(Items)
      BY <1>2, <1>4 DEF x
    <3>2. w = [shows EXCEPT !.rows = x]
      BY <2>2, <3>1
    <3> HIDE DEF w
    <3> QED BY <3>1, <3>2, <1>b, <1>2, RowsSet
  <2> QED BY <2>1, <2>2
<1>6. view' = [view EXCEPT !["provider"] = w]
  BY <1>0 DEF x, FoundBelow
<1> HIDE DEF w
<1>7. ListsTypes' /\ shows' = w /\ held' = held
  <2>1. timer' \in BOOLEAN /\ astray' \in BOOLEAN
    BY DEF Found, ListsTypes
  <2> QED BY <2>1, <1>a, <1>5, <1>6, OneDrawn DEF Found
<1>8. timer' = timer /\ typed' = typed
  BY DEF Found
<1>9. ~timer => r.key = typed /\ typed # Everything
  BY <1>1, <1>3 DEF SearchInv
<1>10. x = Like(held, r.key)
  BY <1>4 DEF x
<1> QED BY <1>3, <1>5, <1>7, <1>8, <1>9, <1>10 DEF SearchInv

-----------------------------------------------------------------------------
(* Lists: the trusted applications. *)

TrustedWaits ==
    /\ unanswered # <<>> /\ Alone(unanswered[1]) /\ unanswered[1].page = 1
    /\ trusted = [all |-> <<>>, filter |-> <<>>] /\ shows = Blank
TrustedCame ==
    /\ unanswered = <<>> /\ trusted.all = held
    /\ trusted = [all |-> trusted.all, filter |-> trusted.filter]
    /\ timer => trusted.filter = <<>>
    /\ ~timer => /\ trusted.filter = <<>> \/ trusted.filter = Like(held, typed)
                 /\ typed # Everything => trusted.filter = Like(held, typed)
                 /\ Reach("provider", typed)
                 /\ ~astray => shows.rows = PageOf(Like(held, typed), shows.page)
    /\ shows.alert => held = <<>> /\ shows.rows = <<>>
TrustedInv == TrustedWaits \/ TrustedCame

LEMMA TrustedTypes ==
    ASSUME ListsTypes, TrustedInv, TypeTrusted
    PROVE  ListsTypes' /\ TrustedInv'
<1>1. ListsTypes'
  BY SameLists DEF TypeTrusted, Type, ListsTypes
<1>2. timer' = TRUE /\ trusted' = [trusted EXCEPT !.filter = <<>>]
      /\ UNCHANGED <<unanswered, organization, stored, view>>
  BY DEF TypeTrusted, Type
<1>3. CASE TrustedWaits
  <2>1. trusted' = trusted
    BY <1>2, <1>3 DEF TrustedWaits
  <2> QED BY <2>1, <1>1, <1>2, <1>3 DEF TrustedInv, TrustedWaits, Alone, shows
<1>4. CASE TrustedCame
  <2>1. trusted'.all = held /\ trusted'.filter = <<>>
        /\ trusted' = [all |-> trusted'.all, filter |-> trusted'.filter]
    BY <1>2, <1>4 DEF TrustedCame
  <2> QED BY <2>1, <1>1, <1>2, <1>4 DEF TrustedInv, TrustedCame, shows, held, Stock
<1> QED BY <1>3, <1>4 DEF TrustedInv

LEMMA TrustedLoads ==
    ASSUME ListsAssumption, ListsTypes, script = "trusted_applications", TrustedInv,
           LoadTrusted, ~overlapped'
    PROVE  ListsTypes' /\ TrustedInv'
<1>a. PanesOf(script) = {"provider"}
  BY OnePane
<1>b. shows \in Shapes /\ held \in Seq(Items) /\ Len(held) \in Nat
  <2>1. shows \in Shapes /\ held \in Seq(Items)
    BY <1>a, HeldIs
  <2> QED BY <2>1
<1>0. PICK r : /\ Answered(r)
               /\ trusted' = [trusted EXCEPT !.all = Reply(r).rows]
               /\ view' = [view EXCEPT !["provider"] =
                             IF Reply(r).rows = <<>> THEN [shows EXCEPT !.alert = TRUE]
                             ELSE [Pager(shows, Len(Reply(r).rows)) EXCEPT
                                     !.rows = PageOf(Reply(r).rows, 1)]]
  BY DEF LoadTrusted, shows
<1>1. unanswered # <<>>
  BY <1>0 DEF Answered
<1>2. Alone(unanswered[1]) /\ shows = Blank /\ trusted = [all |-> <<>>, filter |-> <<>>]
  BY <1>1 DEF TrustedInv, TrustedWaits, TrustedCame
<1>3. r = unanswered[1] /\ unanswered' = <<>>
  BY <1>0, <1>2, AnswersOne DEF Alone
<1>4. Reply(r).rows = held
  <2>1. StoredFor(r) = held
    BY <1>a, <1>2, <1>3, HeldIs
  <2>2. Reply(r) = get_trusted_applications(r)
    BY DEF Reply
  <2> QED BY <2>1, <2>2 DEF get_trusted_applications
<1> DEFINE w == IF held = <<>> THEN [shows EXCEPT !.alert = TRUE]
                ELSE [Pager(shows, Len(held)) EXCEPT !.rows = PageOf(held, 1)]
<1>5. /\ w \in Shapes /\ w.rows = PageOf(held, 1) /\ (w.alert => held = <<>> /\ w.rows = <<>>)
      /\ w.page = 1 /\ Len(held) <= w.total * PageSize
  <2>1. CASE held = <<>>
    <3>1. shows.rows = <<>> /\ shows.page = 1 /\ shows.total = 0
      BY <1>2 DEF Blank
    <3>2. PageOf(held, 1) = <<>>
      <4>1. 1 \in Nat \ {0}
        OBVIOUS
      <4> QED BY <4>1, <2>1, <1>b, PageOfIs
    <3>3. w = [shows EXCEPT !.alert = TRUE]
      BY <2>1
    <3>4. 0 <= 0 * PageSize /\ Len(held) = 0
      BY <2>1 DEF ListsAssumption
    <3> HIDE DEF w
    <3>5. w \in Shapes /\ w.rows = <<>> /\ w.page = 1 /\ w.total = 0
      BY <1>b, <3>1, <3>3, AlertSet DEF Shapes
    <3> QED BY <2>1, <3>2, <3>4, <3>5
  <2>2. CASE held # <<>>
    <3>1. PICK u : u = Pager(shows, Len(held))
      OBVIOUS
    <3>2. u \in Shapes /\ u.alert = FALSE /\ u.page = 1 /\ Len(held) <= u.total * PageSize
      <4>1. Len(held) # 0 /\ shows.alert = FALSE
        BY <2>2, <1>b, <1>2 DEF Blank
      <4> QED BY <4>1, <3>1, <1>b, PagerIs
    <3>3. w = [u EXCEPT !.rows = PageOf(held, 1)]
      BY <2>2, <3>1
    <3>4. PageOf(held, 1) \in Seq(Items)
      <4>1. 1 \in Nat \ {0}
        OBVIOUS
      <4> QED BY <4>1, <1>b, PageOfIs
    <3> HIDE DEF w
    <3> QED BY <3>2, <3>3, <3>4, RowsSet
  <2> QED BY <2>1, <2>2
<1>6. view' = [view EXCEPT !["provider"] = w]
  BY <1>0, <1>4
<1> HIDE DEF w
<1>7. ListsTypes' /\ shows' = w /\ held' = held
  <2>1. timer' \in BOOLEAN /\ astray' \in BOOLEAN
    BY DEF LoadTrusted, ListsTypes
  <2> QED BY <2>1, <1>a, <1>5, <1>6, OneDrawn DEF LoadTrusted
<1>8. trusted' = [all |-> held, filter |-> <<>>]
  BY <1>0, <1>2, <1>4
<1>9. timer' = timer /\ typed' = typed /\ (timer \/ typed = Everything)
  BY DEF LoadTrusted
<1>10. ~timer => Like(held, typed) = held
  BY <1>9, <1>b, LikeIs
<1>11. ~timer => Reach("provider", typed)'
  BY <1>5, <1>7, <1>9, <1>10 DEF Reach, held, Stock, shows
<1>12. TrustedCame'
  BY <1>3, <1>5, <1>7, <1>8, <1>9, <1>10, <1>11 DEF TrustedCame
<1> QED BY <1>7, <1>12 DEF TrustedInv

LEMMA TrustedFilters ==
    ASSUME ListsAssumption, ListsTypes, script = "trusted_applications", TrustedInv,
           FilterTrusted
    PROVE  ListsTypes' /\ TrustedInv'
<1>a. PanesOf(script) = {"provider"}
  BY OnePane
<1>b. shows \in Shapes /\ held \in Seq(Items)
  BY <1>a, HeldIs
<1> DEFINE f == Like(trusted.all, typed)
           w == Pager([shows EXCEPT !.rows = PageOf(f, 1)], Len(f))
<1>1. f \in Seq(Items) /\ Len(f) \in Nat /\ PageOf(f, 1) \in Seq(Items)
      /\ (trusted.all = <<>> => f = <<>>)
      /\ \A n \in Nat \ {0} : f = <<>> => PageOf(f, n) = <<>>
  <2>1. trusted.all \in Seq(Items)
    <3>1. <<>> \in Seq(Items)
      OBVIOUS
    <3>2. trusted.all = <<>> \/ trusted.all = held
      BY DEF TrustedInv, TrustedWaits, TrustedCame
    <3> QED BY <3>1, <3>2, <1>b
  <2>2. f \in Seq(Items) /\ (trusted.all = <<>> => f = <<>>)
    BY <2>1, LikeIs
  <2> HIDE DEF f
  <2> QED BY <2>2, PageOfIs
<1>0. /\ trusted' = [trusted EXCEPT !.filter = f] /\ view' = [view EXCEPT !["provider"] = w]
      /\ timer = TRUE /\ timer' = FALSE /\ astray' = FALSE
      /\ UNCHANGED <<script, stored, organization, tab, unanswered, typed>>
  BY DEF FilterTrusted, TimerRuns, shows, ListsTypes
<1> DEFINE u == [shows EXCEPT !.rows = PageOf(f, 1)]
<1>2. u \in Shapes /\ u.rows = PageOf(f, 1) /\ u.alert = shows.alert
      /\ u.total = shows.total /\ u.page = shows.page
  <2> HIDE DEF f
  <2> QED BY <1>1, <1>b, RowsSet
<1>3. /\ w \in Shapes /\ w.rows = PageOf(f, 1) /\ w.alert = shows.alert
      /\ f = <<>> => w = u
      /\ Len(f) # 0 => w.page = 1 /\ Len(f) <= w.total * PageSize
  <2>1. w = Pager(u, Len(f))
    OBVIOUS
  <2> HIDE DEF u, w, f
  <2>2. f = <<>> => Len(f) = 0
    OBVIOUS
  <2> QED BY <2>1, <2>2, <1>1, <1>2, PagerIs
<1>c. f = Like(trusted.all, typed)
  OBVIOUS
<1>u. u = [shows EXCEPT !.rows = PageOf(f, 1)]
  OBVIOUS
<1> HIDE DEF u, w, f
<1>4. ListsTypes' /\ shows' = w /\ held' = held
  BY <1>0, <1>a, <1>3, OneDrawn
<1>5. CASE TrustedWaits
  <2>1. trusted.all = <<>> /\ trusted.filter = <<>> /\ shows.rows = <<>>
    BY <1>5 DEF TrustedWaits, Blank
  <2>2. f = <<>> /\ PageOf(f, 1) = <<>>
    BY <2>1, <1>1
  <2>3. trusted' = trusted
    BY <2>2, <1>0, <1>5 DEF TrustedWaits
  <2>4. w = u /\ u = shows
    <3>1. u = [shows EXCEPT !.rows = <<>>]
      BY <1>u, <2>2
    <3> QED BY <3>1, <2>1, <2>2, <1>3, <1>b DEF Shapes
  <2> QED BY <2>3, <2>4, <1>0, <1>4, <1>5 DEF TrustedInv, TrustedWaits, Alone
<1>6. CASE TrustedCame
  <2>1. f = Like(held, typed) /\ trusted.all = held
    BY <1>6, <1>c DEF TrustedCame
  <2>2. trusted'.all = held /\ trusted'.filter = f
        /\ trusted' = [all |-> trusted'.all, filter |-> trusted'.filter]
    BY <1>0, <1>6, <2>1 DEF TrustedCame
  <2>3. w.rows = PageOf(f, w.page) /\ Len(f) <= w.total * PageSize
    <3>1. CASE Len(f) = 0
      <4>1. f = <<>> /\ w.page \in Nat \ {0} /\ w.total \in Nat
        BY <3>1, <1>1, <1>3 DEF Shapes
      <4>2. 0 <= w.total * PageSize
        BY <4>1 DEF ListsAssumption
      <4> QED BY <3>1, <4>1, <4>2, <1>1, <1>3
    <3> QED BY <3>1, <1>3
  <2>4. w.alert => held = <<>> /\ w.rows = <<>>
    BY <1>1, <1>3, <1>6, <2>1 DEF TrustedCame
  <2>5. Reach("provider", typed)'
    BY <1>0, <1>4, <2>1, <2>3 DEF Reach, held, Stock, shows
  <2>6. TrustedCame'
    BY <1>0, <1>4, <1>6, <2>1, <2>2, <2>3, <2>4, <2>5 DEF TrustedCame
  <2> QED BY <2>6, <1>4 DEF TrustedInv
<1> QED BY <1>5, <1>6 DEF TrustedInv

LEMMA TrustedTurns ==
    ASSUME ListsAssumption, ListsTypes, script = "trusted_applications", TrustedInv,
           TurnTrusted
    PROVE  ListsTypes' /\ TrustedInv'
<1>a. PanesOf(script) = {"provider"}
  BY OnePane
<1>b. shows \in Shapes /\ held \in Seq(Items)
  BY <1>a, HeldIs
<1> DEFINE s == IF trusted.filter = <<>> THEN trusted.all ELSE trusted.filter
<1>0. PICK n \in 1..shows.total :
         view' = [view EXCEPT !["provider"] = [shows EXCEPT !.page = n, !.rows = PageOf(s, n)]]
  BY DEF TurnTrusted, shows
<1>c. n \in Nat \ {0}
  BY <1>b DEF Shapes
<1>1. TrustedCame
  BY <1>0 DEF TrustedInv, TrustedWaits, Blank
<1>2. s \in Seq(Items) /\ (held = <<>> => s = <<>>)
  <2>1. trusted.filter = <<>> \/ trusted.filter = Like(held, typed)
    BY <1>1 DEF TrustedCame
  <2>2. Like(held, typed) \in Seq(Items) /\ (held = <<>> => Like(held, typed) = <<>>)
    BY <1>b, LikeIs
  <2> QED BY <2>1, <2>2, <1>b, <1>1 DEF TrustedCame
<1> DEFINE w == [shows EXCEPT !.page = n, !.rows = PageOf(s, n)]
<1>d. view' = [view EXCEPT !["provider"] = w]
  BY <1>0
<1>3. PageOf(s, n) \in Seq(Items) /\ (s = <<>> => PageOf(s, n) = <<>>)
  <2> HIDE DEF s
  <2> QED BY <1>2, <1>c, PageOfIs
<1>4. /\ w \in Shapes /\ w.page = n /\ w.rows = PageOf(s, n) /\ w.total = shows.total
      /\ w.alert = shows.alert
  <2> HIDE DEF s
  <2> DEFINE u == [shows EXCEPT !.page = n]
  <2>1. /\ u \in Shapes /\ u.page = n /\ u.total = shows.total /\ u.alert = shows.alert
    BY <1>b, <1>c DEF Shapes
  <2>2. w = [u EXCEPT !.rows = PageOf(s, n)]
    OBVIOUS
  <2> HIDE DEF u, w
  <2> QED BY <2>1, <2>2, <1>3, RowsSet
<1> HIDE DEF w
<1>5. ListsTypes' /\ shows' = w /\ held' = held
  <2>1. timer' \in BOOLEAN /\ astray' \in BOOLEAN
    BY DEF TurnTrusted, ListsTypes
  <2> QED BY <2>1, <1>a, <1>d, <1>4, OneDrawn DEF TurnTrusted
<1>6. /\ UNCHANGED <<trusted, unanswered, typed, timer>>
      /\ astray' = (astray \/ (trusted.filter = <<>> /\ typed # Everything))
  BY DEF TurnTrusted
<1>7. w.alert => held = <<>> /\ w.rows = <<>>
  BY <1>1, <1>2, <1>3, <1>4 DEF TrustedCame
<1>8. ~timer => Reach("provider", typed)'
  BY <1>1, <1>4, <1>5, <1>6 DEF TrustedCame, Reach, held, Stock, shows
<1>9. ASSUME ~timer, ~astray' PROVE w.rows = PageOf(Like(held, typed), n)
  <2>1. CASE trusted.filter = <<>>
    <3>1. typed = Everything
      BY <2>1, <1>6, <1>9
    <3>2. s = held /\ Like(held, typed) = held
      BY <2>1, <3>1, <1>1, <1>b, LikeIs DEF TrustedCame
    <3> QED BY <3>2, <1>4
  <2>2. CASE trusted.filter # <<>>
    <3>1. s = Like(held, typed)
      BY <2>2, <1>1, <1>9 DEF TrustedCame
    <3> QED BY <3>1, <1>4
  <2> QED BY <2>1, <2>2
<1>10. TrustedCame'
  BY <1>1, <1>4, <1>5, <1>6, <1>7, <1>8, <1>9 DEF TrustedCame
<1> QED BY <1>5, <1>10 DEF TrustedInv

-----------------------------------------------------------------------------
(* Lists: those with tabs. *)

TabRequests == [what : {"load", "page"}, pane : PanesOf(script), organization : Places,
                key : {Everything}, page : Nat \ {0}]
Asked(p) == \E i \in DOMAIN unanswered : unanswered[i].pane = p
RightlyAsked(r) ==
    /\ r.organization = organization
    /\ r.what = "load" => view[r.pane].loaded = FALSE /\ r.page = 1
    /\ r.what = "page" => view[r.pane].loaded = TRUE /\ r.page = view[r.pane].page
Settled(p) ==
    /\ view[p].rows = PageOf(Stock(organization, p), view[p].page)
    /\ view[p].alert => view[p].rows = <<>>
PaneOK(p) ==
    /\ view[p].loaded = FALSE => /\ view[p].rows = <<>> /\ view[p].alert = FALSE
                                 /\ p = tab => Asked(p)
    /\ view[p].loaded = TRUE =>
          /\ Len(Stock(organization, p)) <= view[p].total * PageSize
          /\ Asked(p) \/ Settled(p)
TabbedInv ==
    /\ typed = Everything /\ timer = FALSE /\ astray = FALSE
    /\ unanswered \in Seq(TabRequests)
    /\ \A i \in DOMAIN unanswered : RightlyAsked(unanswered[i])
    /\ \A i, j \in DOMAIN unanswered : unanswered[i].pane = unanswered[j].pane => i = j
    /\ \A p \in PanesOf(script) : PaneOK(p)

LEMMA WithRowsIs ==
    ASSUME NEW v \in Shapes, v.rows = <<>>, NEW d, d.rows \in Seq(Items),
           NEW w, w = WithRows(v, d)
    PROVE  /\ w \in Shapes /\ w.rows = d.rows /\ w.total = v.total /\ w.page = v.page
           /\ w.loaded = v.loaded
           /\ w.alert => w.rows = <<>> \/ (v.alert /\ script # "applications_of_organization")
<1>1. CASE d.rows = <<>>
  <2>1. w = [v EXCEPT !.alert = TRUE]
    BY <1>1 DEF WithRows
  <2> QED BY <2>1, <1>1, AlertSet DEF Shapes
<1>2. CASE d.rows # <<>>
  <2> DEFINE b == v.alert /\ script # "applications_of_organization"
  <2>1. w = [v EXCEPT !.rows = v.rows \o d.rows, !.alert = b]
    BY <1>2 DEF WithRows
  <2>2. v.rows \o d.rows = d.rows
    OBVIOUS
  <2>3. w = [v EXCEPT !.rows = d.rows, !.alert = b]
    BY <2>1, <2>2
  <2>4. b \in BOOLEAN
    OBVIOUS
  <2>5. /\ w \in Shapes /\ w.rows = d.rows /\ w.total = v.total /\ w.page = v.page
        /\ w.loaded = v.loaded /\ w.alert = b
    <3> HIDE DEF b
    <3> QED BY <2>3, <2>4, BothSet DEF Shapes
  <2> QED BY <2>5
<1> QED BY <1>1, <1>2

LEMMA OpenedIs ==
    ASSUME ListsAssumption, NEW s \in Seq(Items),
           NEW v \in Shapes, v.rows = <<>>, v.alert = FALSE,
           NEW d, d.rows = PageOf(s, 1), d.count \in Nat, Len(s) <= d.count,
           NEW w, w = Opened(v, d)
    PROVE  /\ w \in Shapes /\ w.loaded = TRUE /\ w.rows = PageOf(s, w.page)
           /\ w.alert => w.rows = <<>>
           /\ Len(s) <= w.total * PageSize
<1>1. PICK u : u = Pager(v, d.count)
  OBVIOUS
<1>2. PICK t : t = WithRows(u, d)
  OBVIOUS
<1>3. w = [t EXCEPT !.loaded = TRUE]
  BY <1>1, <1>2 DEF Opened
<1>4. 1 \in Nat \ {0}
  OBVIOUS
<1>5. d.rows \in Seq(Items) /\ Len(s) \in Nat
  BY <1>4, PageOfIs
<1>6. /\ u \in Shapes /\ u.rows = <<>> /\ u.alert = FALSE
      /\ d.count = 0 => u = v
      /\ d.count # 0 => u.page = 1 /\ d.count <= u.total * PageSize
  BY <1>1, PagerIs
<1>7. /\ t \in Shapes /\ t.rows = d.rows /\ t.total = u.total /\ t.page = u.page
      /\ t.alert => t.rows = <<>>
  BY <1>2, <1>5, <1>6, WithRowsIs
<1>8. /\ w \in Shapes /\ w.loaded = TRUE /\ w.rows = d.rows /\ w.total = u.total
      /\ w.page = u.page /\ (w.alert => w.rows = <<>>)
  BY <1>3, <1>7 DEF Shapes
<1>9. u.page \in Nat \ {0} /\ u.total \in Nat
  BY <1>6 DEF Shapes
<1>10. \A n \in Nat : n * PageSize \in Nat
  BY DEF ListsAssumption
<1>11. u.total * PageSize \in Nat
  BY <1>9, <1>10
<1>12. CASE d.count = 0
  <2>1. Len(s) = 0 /\ s = <<>>
    BY <1>5, <1>12
  <2>2. \A n \in Nat \ {0} : PageOf(s, n) = <<>>
    BY <2>1, PageOfIs
  <2>3. d.rows = <<>> /\ PageOf(s, w.page) = <<>>
    BY <2>2, <1>4, <1>8, <1>9
  <2>4. Len(s) <= w.total * PageSize
    BY <2>1, <1>8, <1>11
  <2> QED BY <2>3, <2>4, <1>8
<1>13. CASE d.count # 0
  <2>1. w.page = 1 /\ d.count <= w.total * PageSize /\ w.total * PageSize \in Nat
    BY <1>13, <1>6, <1>8, <1>11
  <2>2. Len(s) <= w.total * PageSize
    BY <2>1, <1>5
  <2> QED BY <2>1, <2>2, <1>8
<1> QED BY <1>12, <1>13

LEMMA PageTurnedIs ==
    ASSUME NEW v \in Shapes, NEW d, d.rows \in Seq(Items), NEW w, w = PageTurned(v, d)
    PROVE  /\ w \in Shapes /\ w.rows = d.rows /\ w.total = v.total /\ w.page = v.page
           /\ w.loaded = v.loaded /\ (w.alert => w.rows = <<>>)
<1>1. CASE script = "applications_of_organization"
  <2>1. PICK u : u = [v EXCEPT !.rows = <<>>]
    OBVIOUS
  <2>2. /\ u \in Shapes /\ u.rows = <<>> /\ u.total = v.total /\ u.page = v.page
        /\ u.loaded = v.loaded
    <3>1. <<>> \in Seq(Items)
      OBVIOUS
    <3> QED BY <2>1, <3>1 DEF Shapes
  <2>3. w = WithRows(u, d)
    BY <1>1, <2>1 DEF PageTurned
  <2> QED BY <1>1, <2>2, <2>3, WithRowsIs
<1>2. CASE script # "applications_of_organization"
  <2>1. w = [v EXCEPT !.rows = d.rows, !.alert = FALSE]
    BY <1>2 DEF PageTurned
  <2>2. /\ w \in Shapes /\ w.rows = d.rows /\ w.total = v.total /\ w.page = v.page
        /\ w.loaded = v.loaded /\ w.alert = FALSE
    BY <2>1, BothSet DEF Shapes
  <2> QED BY <2>2
<1> QED BY <1>1, <1>2

\* There are at least the items of one tab in all of them.
LEMMA OneOfTabs ==
    ASSUME ListsAssumption, ListsTypes, NEW o \in Places, NEW p \in PanesOf(script)
    PROVE  OfAnyRole(o) \in Nat /\ Len(Stock(o, p)) <= OfAnyRole(o)
<1> DEFINE In(q) == {q} \X DOMAIN Stock(o, q)
           U == UNION {In(q) : q \in Panes}
           k == Cardinality(Items)
<1>1. Panes = PanesOf(script)
  BY DEF ListsTypes, Panes
<1>2. IsFiniteSet(Panes)
  <2>1. Panes \subseteq Tabs \cup {"provider"} /\ IsFiniteSet(Tabs)
    BY <1>1 DEF ListsAssumption, PanesOf
  <2>2. IsFiniteSet(Tabs \cup {"provider"})
    BY <2>1, FS_AddElement
  <2> QED BY <2>1, <2>2, FS_Subset
<1>3. k \in Nat /\ IsFiniteSet(1..k)
  BY FS_CardinalityType, FS_Interval DEF ListsAssumption
<1>4. \A q \in Panes : Stock(o, q) \in Seq(Items) /\ Len(Stock(o, q)) <= k
  BY <1>1 DEF ListsTypes, Stock
<1>5. ASSUME NEW q \in Panes
      PROVE  DOMAIN Stock(o, q) = 1..Len(Stock(o, q)) /\ Len(Stock(o, q)) \in Nat
  <2>1. Stock(o, q) \in Seq(Items)
    BY <1>4
  <2> QED BY <2>1
<1>6. ASSUME NEW q \in Panes PROVE In(q) \subseteq Panes \X (1..k)
  <2>1. Len(Stock(o, q)) <= k /\ DOMAIN Stock(o, q) = 1..Len(Stock(o, q))
        /\ Len(Stock(o, q)) \in Nat
    BY <1>4, <1>5
  <2>2. DOMAIN Stock(o, q) \subseteq 1..k
    BY <1>3, <2>1
  <2> QED BY <2>2
<1>7. IsFiniteSet(U)
  <2>1. IsFiniteSet(Panes \X (1..k))
    BY <1>2, <1>3, FS_Product
  <2>2. U \subseteq Panes \X (1..k)
    BY <1>6
  <2> HIDE DEF U
  <2> QED BY <2>1, <2>2, FS_Subset
<1>8. In(p) \subseteq U
  BY <1>1
<1>9. Cardinality(In(p)) = Len(Stock(o, p))
  <2> DEFINE n == Len(Stock(o, p))
  <2>1. In(p) = {p} \X (1..n) /\ n \in Nat
    BY <1>1, <1>5
  <2> HIDE DEF n, In
  <2>2. IsFiniteSet({p}) /\ Cardinality({p}) = 1 /\ IsFiniteSet(1..n) /\ Cardinality(1..n) = n
    <3>1. IsFiniteSet({p}) /\ Cardinality({p}) = 1
      BY FS_Singleton
    <3>2. 1 \in Int /\ n \in Int /\ (IF 1 > n THEN 0 ELSE n - 1 + 1) = n
      BY <2>1
    <3>3. IsFiniteSet(1..n) /\ Cardinality(1..n) = IF 1 > n THEN 0 ELSE n - 1 + 1
      BY <3>2, FS_Interval
    <3> QED BY <3>1, <3>2, <3>3
  <2>3. Cardinality({p} \X (1..n)) = Cardinality({p}) * Cardinality(1..n)
    BY <2>2, FS_Product
  <2>4. Cardinality({p} \X (1..n)) = n
    BY <2>1, <2>2, <2>3
  <2> QED BY <2>1, <2>4 DEF n
<1>10. OfAnyRole(o) = Cardinality(U)
  BY DEF OfAnyRole, Stock
<1> HIDE DEF U, In
<1>11. Cardinality(U) \in Nat /\ Cardinality(In(p)) <= Cardinality(U)
  BY <1>7, <1>8, FS_CardinalityType, FS_Subset
<1> QED BY <1>9, <1>10, <1>11

LEMMA TabReply ==
    ASSUME ListsAssumption, ListsTypes, script \in Tabbed, NEW r \in TabRequests,
           r.organization = organization, r.what = "load" => r.page = 1,
           NEW s, s = Stock(organization, r.pane)
    PROVE  /\ s \in Seq(Items)
           /\ Reply(r).rows = PageOf(s, r.page) /\ Reply(r).rows \in Seq(Items)
           /\ r.what = "load" => Reply(r).count \in Nat /\ Len(s) <= Reply(r).count
<1>0. r.pane \in PanesOf(script) /\ r.page \in Nat \ {0} /\ organization \in Places
  BY DEF TabRequests, ListsTypes
<1>1. s \in Seq(Items) /\ StoredFor(r) = s /\ Len(s) \in Nat
  <2>1. s \in Seq(Items)
    BY <1>0 DEF ListsTypes, Stock
  <2>2. Len(s) \in Nat
    BY <2>1
  <2> QED BY <2>1, <2>2 DEF StoredFor, Stock
<1>2. PageOf(s, r.page) \in Seq(Items) /\ (PageOf(s, 1) = <<>> => Len(s) = 0)
  <2>1. PageOf(s, r.page) \in Seq(Items) /\ (PageOf(s, 1) = <<>> => s = <<>>)
    BY <1>0, <1>1, PageOfIs
  <2>2. s = <<>> => Len(s) = 0
    OBVIOUS
  <2> QED BY <2>1, <2>2
<1>3. OfAnyRole(organization) \in Nat /\ Len(s) <= OfAnyRole(organization)
  BY <1>0, OneOfTabs
<1>4. CASE script = "my_organizations"
  <2>1. Reply(r) = IF r.what = "load" THEN findAndCountAll(s, 1)
                   ELSE [rows |-> PageOf(s, r.page), count |-> None]
    BY <1>1, <1>4 DEF Reply, index, filter_mine
  <2>2. CASE r.what = "load"
    BY <2>1, <2>2, <1>1, <1>2 DEF findAndCountAll
  <2>3. CASE r.what # "load"
    BY <2>1, <2>3, <1>1, <1>2
  <2> QED BY <2>2, <2>3
<1>5. CASE script \in {"my_applications", "applications_of_organization"}
  <2>1. Reply(r) = search_distinct(s, OfAnyRole(organization), r.page)
    <3>1. CASE script = "my_applications"
      <4>1. organization = None
        BY <3>1, <1>0 DEF Places
      <4> QED BY <3>1, <4>1, <1>1 DEF Reply, filter_user
    <3>2. CASE script = "applications_of_organization"
      BY <3>2, <1>1 DEF Reply, filter_organization
    <3> QED BY <3>1, <3>2, <1>5
  <2>2. /\ Reply(r).rows = PageOf(s, r.page)
        /\ Reply(r).count = IF PageOf(s, r.page) = <<>> THEN 0 ELSE OfAnyRole(organization)
    BY <2>1 DEF search_distinct
  <2>3. r.what = "load" => PageOf(s, r.page) = PageOf(s, 1)
    OBVIOUS
  <2> QED BY <2>2, <2>3, <1>1, <1>2, <1>3
<1> QED BY <1>1, <1>4, <1>5 DEF Tabbed

\* A request for a list that waits for none.
LEMMA TabSent ==
    ASSUME ListsTypes, TabbedInv, NEW r \in TabRequests, Send(r), ~overlapped'
    PROVE  /\ ~Asked(r.pane)
           /\ unanswered' \in Seq(TabRequests)
           /\ \A p : Asked(p)' <=> Asked(p) \/ p = r.pane
           /\ \A i, j \in DOMAIN unanswered' :
                 unanswered'[i].pane = unanswered'[j].pane => i = j
           /\ \A i \in DOMAIN unanswered' :
                 \/ unanswered'[i] = r
                 \/ /\ i \in DOMAIN unanswered /\ unanswered'[i] = unanswered[i]
                    /\ unanswered[i].pane # r.pane
<1>1. \A i \in DOMAIN unanswered : unanswered[i].pane # r.pane
  BY DEF Send
<1>2. unanswered \in Seq(TabRequests) /\ unanswered' = Append(unanswered, r)
  BY DEF TabbedInv, Send
<1> DEFINE n == Len(unanswered)
<1>3. n \in Nat /\ DOMAIN unanswered = 1..n
  BY <1>2
<1>4. /\ unanswered' \in Seq(TabRequests) /\ DOMAIN unanswered' = 1..(n + 1)
      /\ unanswered'[n + 1] = r /\ \A i \in 1..n : unanswered'[i] = unanswered[i]
  BY <1>2
<1> HIDE DEF n
<1>5. \A i, j \in 1..n : unanswered[i].pane = unanswered[j].pane => i = j
  BY <1>3 DEF TabbedInv
<1>6. \A i \in 1..(n + 1) : i = n + 1 \/ i \in 1..n
  BY <1>3
<1>7. 1..n \subseteq 1..(n + 1) /\ n + 1 \in 1..(n + 1)
  BY <1>3
<1>8. ASSUME NEW p PROVE Asked(p)' <=> Asked(p) \/ p = r.pane
  BY <1>3, <1>4, <1>6, <1>7 DEF Asked
<1>9. ASSUME NEW i \in DOMAIN unanswered'
      PROVE  \/ unanswered'[i] = r
             \/ /\ i \in DOMAIN unanswered /\ unanswered'[i] = unanswered[i]
                /\ unanswered[i].pane # r.pane
  BY <1>1, <1>3, <1>4, <1>6
<1>10. ASSUME NEW i \in DOMAIN unanswered', NEW j \in DOMAIN unanswered',
              unanswered'[i].pane = unanswered'[j].pane
       PROVE  i = j
  BY <1>1, <1>3, <1>4, <1>5, <1>6, <1>10
<1>11. ~Asked(r.pane)
  BY <1>1 DEF Asked
<1> QED BY <1>4, <1>8, <1>9, <1>10, <1>11

\* The others still wait when one is answered.
LEMMA TabAnswered ==
    ASSUME ListsTypes, TabbedInv, NEW r, Answered(r)
    PROVE  /\ r \in TabRequests /\ RightlyAsked(r)
           /\ unanswered' \in Seq(TabRequests)
           /\ \A p : Asked(p)' <=> Asked(p) /\ p # r.pane
           /\ \A i, j \in DOMAIN unanswered' :
                 unanswered'[i].pane = unanswered'[j].pane => i = j
           /\ \A i \in DOMAIN unanswered' :
                 unanswered'[i].pane # r.pane
                 /\ \E k \in DOMAIN unanswered : unanswered'[i] = unanswered[k]
<1>1. PICK k \in DOMAIN unanswered : r = unanswered[k] /\ unanswered' = RemoveAt(unanswered, k)
  BY DEF Answered
<1>2. unanswered \in Seq(TabRequests)
  BY DEF TabbedInv
<1> DEFINE n == Len(unanswered)
           at(j) == IF j < k THEN j ELSE j + 1
<1>3. n \in Nat /\ DOMAIN unanswered = 1..n /\ k \in 1..n
  BY <1>2
<1>4. unanswered' \in Seq(TabRequests) /\ Len(unanswered') = n - 1
      /\ \A j \in 1..(n - 1) : unanswered'[j] = IF j < k THEN unanswered[j] ELSE unanswered[j + 1]
  BY <1>1, <1>2, <1>3, Removed
<1>5. DOMAIN unanswered' = 1..(n - 1)
  BY <1>4
<1>6. \A j \in 1..(n - 1) : unanswered'[j] = unanswered[at(j)]
  BY <1>4
<1> HIDE DEF n
<1>7. \A j \in 1..(n - 1) : at(j) \in 1..n /\ at(j) # k
  BY <1>3
<1>8. \A i, j \in 1..(n - 1) : at(i) = at(j) => i = j
  BY <1>3
<1>9. ASSUME NEW i \in 1..n, i # k PROVE \E j \in 1..(n - 1) : at(j) = i
  <2>1. CASE i < k
    <3>1. i \in 1..(n - 1) /\ at(i) = i
      BY <2>1, <1>3
    <3> QED BY <3>1
  <2>2. CASE i > k
    <3>1. i - 1 \in 1..(n - 1) /\ at(i - 1) = i
      BY <2>2, <1>3
    <3> QED BY <3>1
  <2> QED BY <2>1, <2>2, <1>3, <1>9
<1> HIDE DEF at
<1>10. \A i, j \in 1..n : unanswered[i].pane = unanswered[j].pane => i = j
  BY <1>3 DEF TabbedInv
<1>11. r \in TabRequests /\ RightlyAsked(r)
  <2>1. unanswered[k] \in TabRequests
    BY <1>2, <1>3
  <2> QED BY <2>1, <1>1 DEF TabbedInv
<1>12. ASSUME NEW i \in DOMAIN unanswered'
       PROVE  unanswered'[i].pane # r.pane
              /\ \E m \in DOMAIN unanswered : unanswered'[i] = unanswered[m]
  BY <1>1, <1>3, <1>5, <1>6, <1>7, <1>10
<1>13. ASSUME NEW i \in DOMAIN unanswered', NEW j \in DOMAIN unanswered',
              unanswered'[i].pane = unanswered'[j].pane
       PROVE  i = j
  <2>1. at(i) = at(j)
    BY <1>13, <1>5, <1>6, <1>7, <1>10
  <2> QED BY <2>1, <1>5, <1>8
<1>14. ASSUME NEW p PROVE Asked(p)' <=> Asked(p) /\ p # r.pane
  <2>1. ASSUME Asked(p)' PROVE Asked(p) /\ p # r.pane
    <3>1. PICK j \in DOMAIN unanswered' : unanswered'[j].pane = p
      BY <2>1 DEF Asked
    <3> QED BY <3>1, <1>12 DEF Asked
  <2>2. ASSUME Asked(p), p # r.pane PROVE Asked(p)'
    <3>1. PICK i \in 1..n : unanswered[i].pane = p
      BY <2>2, <1>3 DEF Asked
    <3>2. PICK j \in 1..(n - 1) : at(j) = i
      BY <3>1, <2>2, <1>1, <1>9
    <3> QED BY <3>1, <3>2, <1>5, <1>6 DEF Asked
  <2> QED BY <2>1, <2>2
<1> QED BY <1>4, <1>11, <1>12, <1>13, <1>14

LEMMA AllRightly ==
    ASSUME \A i \in DOMAIN unanswered' : \E x : x = unanswered'[i] /\ RightlyAsked(x)'
    PROVE  (\A i \in DOMAIN unanswered : RightlyAsked(unanswered[i]))'
BY DEF RightlyAsked

LEMMA TabsOpen ==
    ASSUME ListsTypes, script \in Tabbed, TabbedInv, NEW p \in Panes, OpenTab(p), ~overlapped'
    PROVE  ListsTypes' /\ TabbedInv'
<1>1. p \in PanesOf(script) /\ tab' = p
      /\ UNCHANGED <<script, stored, organization, view, typed, timer, astray>>
  BY DEF OpenTab, ListsTypes, Panes
<1>2. ListsTypes'
  BY <1>1, SameLists DEF ListsTypes
<1>3. TabRequests' = TabRequests
  BY <1>1 DEF TabRequests, PanesOf, Places
<1>b. \A q \in PanesOf(script) : view[q] \in Shapes /\ view[q].loaded \in BOOLEAN
  BY DEF ListsTypes, Shapes
<1>4. CASE view[p].loaded = TRUE
  <2>1. unanswered' = unanswered
    BY <1>4 DEF OpenTab
  <2>2. ASSUME NEW q \in PanesOf(script) PROVE PaneOK(q)'
    BY <2>1, <1>1, <1>4 DEF TabbedInv, PaneOK, Asked, Settled, Stock
  <2> QED BY <2>1, <2>2, <1>1, <1>2, <1>3 DEF TabbedInv, RightlyAsked, PanesOf
<1>5. CASE view[p].loaded = FALSE
  <2>0. PICK r : r = ListRequest("load", p, 1)
    OBVIOUS
  <2>1. r \in TabRequests /\ r.pane = p /\ r.what = "load" /\ r.page = 1
        /\ r.organization = organization
    BY <2>0, <1>1 DEF ListRequest, TabRequests, ListsTypes
  <2>2. Send(r)
    BY <1>5, <2>0 DEF OpenTab
  <2>3. /\ unanswered' \in Seq(TabRequests)
        /\ \A q : Asked(q)' <=> Asked(q) \/ q = p
        /\ \A i, j \in DOMAIN unanswered' :
              unanswered'[i].pane = unanswered'[j].pane => i = j
        /\ \A i \in DOMAIN unanswered' :
              \/ unanswered'[i] = r
              \/ i \in DOMAIN unanswered /\ unanswered'[i] = unanswered[i]
    BY <2>1, <2>2, TabSent
  <2>4. RightlyAsked(r)'
    BY <2>1, <1>1, <1>5 DEF RightlyAsked
  <2>5. \A x : RightlyAsked(x) => RightlyAsked(x)'
    BY <1>1 DEF RightlyAsked
  <2>6. ASSUME NEW q \in PanesOf(script) PROVE PaneOK(q)'
    BY <2>3, <1>1 DEF TabbedInv, PaneOK, Settled, Stock
  <2>7. ASSUME NEW i \in DOMAIN unanswered'
        PROVE  \E x : x = unanswered'[i] /\ RightlyAsked(x)'
    BY <2>3, <2>4, <2>5 DEF TabbedInv
  <2>8. (\A i \in DOMAIN unanswered : RightlyAsked(unanswered[i]))'
    BY <2>7, AllRightly
  <2>9. PanesOf(script') = PanesOf(script)
    BY <1>1
  <2> QED BY <2>3, <2>6, <2>8, <2>9, <1>1, <1>2, <1>3 DEF TabbedInv
<1> QED BY <1>1, <1>4, <1>5, <1>b

LEMMA TabsTurn ==
    ASSUME ListsTypes, script \in Tabbed, TabbedInv, NEW p \in Panes, TurnPageOf(p),
           ~overlapped'
    PROVE  ListsTypes' /\ TabbedInv'
<1>1. p \in PanesOf(script) /\ p = tab
      /\ UNCHANGED <<script, stored, organization, tab, typed, timer, astray>>
  BY DEF TurnPageOf, ListsTypes, Panes
<1>b. view \in [PanesOf(script) -> Shapes]
  BY DEF ListsTypes
<1>c. \A q \in PanesOf(script) : view[q] \in Shapes /\ view[q].loaded \in BOOLEAN
  BY <1>b DEF Shapes
<1>2. PICK n \in 1..view[p].total :
         /\ view' = [view EXCEPT ![p].page = n]
         /\ Send(ListRequest("page", p, n))
  BY DEF TurnPageOf
<1>3. n \in Nat \ {0}
  BY <1>1, <1>c DEF Shapes
<1>4. PICK r : r = ListRequest("page", p, n)
  OBVIOUS
<1>5. r \in TabRequests /\ r.pane = p /\ r.what = "page" /\ r.page = n
      /\ r.organization = organization
  BY <1>1, <1>3, <1>4 DEF ListRequest, TabRequests, ListsTypes
<1>6. /\ ~Asked(p) /\ unanswered' \in Seq(TabRequests)
      /\ \A q : Asked(q)' <=> Asked(q) \/ q = p
      /\ \A i, j \in DOMAIN unanswered' :
            unanswered'[i].pane = unanswered'[j].pane => i = j
      /\ \A i \in DOMAIN unanswered' :
            \/ unanswered'[i] = r
            \/ /\ i \in DOMAIN unanswered /\ unanswered'[i] = unanswered[i]
               /\ unanswered[i].pane # p
  <2>1. Send(r)
    BY <1>2, <1>4
  <2> QED BY <2>1, <1>5, TabSent
<1>7. view[p].loaded = TRUE
  BY <1>1, <1>6, <1>c DEF TabbedInv, PaneOK
<1>8. PICK w : w = [view[p] EXCEPT !.page = n]
  OBVIOUS
<1>9. /\ w \in Shapes /\ w.rows = view[p].rows /\ w.total = view[p].total /\ w.page = n
      /\ w.loaded = view[p].loaded /\ w.alert = view[p].alert
  BY <1>1, <1>3, <1>8, <1>c DEF Shapes
<1>10. view' = [view EXCEPT ![p] = w]
  BY <1>2, <1>8
<1>11. /\ view' \in [PanesOf(script) -> Shapes] /\ view'[p] = w
       /\ \A q \in PanesOf(script) \ {p} : view'[q] = view[q]
  BY <1>1, <1>9, <1>10, <1>b
<1>12. ListsTypes'
  BY <1>1, <1>11, SameLists DEF ListsTypes
<1>13. TabRequests' = TabRequests /\ PanesOf(script') = PanesOf(script)
  BY <1>1 DEF TabRequests, PanesOf, Places
<1>14. ASSUME NEW q \in PanesOf(script) PROVE PaneOK(q)'
  <2>1. CASE q = p
    BY <2>1, <1>1, <1>6, <1>7, <1>9, <1>11 DEF TabbedInv, PaneOK, Stock
  <2>2. CASE q # p
    BY <2>2, <1>1, <1>6, <1>11 DEF TabbedInv, PaneOK, Settled, Stock
  <2> QED BY <2>1, <2>2
<1>15. ASSUME NEW i \in DOMAIN unanswered'
       PROVE  \E x : x = unanswered'[i] /\ RightlyAsked(x)'
  <2>1. RightlyAsked(r)'
    BY <1>1, <1>5, <1>7, <1>9, <1>11 DEF RightlyAsked
  <2>2. ASSUME NEW k \in DOMAIN unanswered, unanswered[k].pane # p, NEW x, x = unanswered[k]
        PROVE  RightlyAsked(x)'
    <3>1. RightlyAsked(x) /\ x.pane \in PanesOf(script) /\ x.pane # p
      <4>1. unanswered[k] \in TabRequests
        BY DEF TabbedInv
      <4> QED BY <4>1, <2>2 DEF TabbedInv, TabRequests
    <3>2. view'[x.pane] = view[x.pane]
      BY <3>1, <1>11
    <3> QED BY <3>1, <3>2, <1>1 DEF RightlyAsked
  <2> QED BY <2>1, <2>2, <1>6
<1>16. (\A i \in DOMAIN unanswered : RightlyAsked(unanswered[i]))'
  BY <1>15, AllRightly
<1> QED BY <1>1, <1>6, <1>12, <1>13, <1>14, <1>16 DEF TabbedInv

LEMMA TabsGet ==
    ASSUME ListsAssumption, ListsTypes, script \in Tabbed, TabbedInv, TabAnswer
    PROVE  ListsTypes' /\ TabbedInv'
<1>1. UNCHANGED <<script, stored, organization, tab, typed, timer, astray>>
  BY DEF TabAnswer
<1>b. view \in [PanesOf(script) -> Shapes]
  BY DEF ListsTypes
<1>c. \A q \in PanesOf(script) : view[q] \in Shapes /\ view[q].loaded \in BOOLEAN
  BY <1>b DEF Shapes
<1>2. PICK r :
         /\ Answered(r)
         /\ view' = [view EXCEPT ![r.pane] =
                       IF r.what = "load" THEN Opened(view[r.pane], Reply(r))
                       ELSE PageTurned(view[r.pane], Reply(r))]
  BY DEF TabAnswer
<1>3. /\ r \in TabRequests /\ RightlyAsked(r)
      /\ unanswered' \in Seq(TabRequests)
      /\ \A p : Asked(p)' <=> Asked(p) /\ p # r.pane
      /\ \A i, j \in DOMAIN unanswered' :
            unanswered'[i].pane = unanswered'[j].pane => i = j
      /\ \A i \in DOMAIN unanswered' :
            unanswered'[i].pane # r.pane
            /\ \E k \in DOMAIN unanswered : unanswered'[i] = unanswered[k]
  BY <1>2, TabAnswered
<1>4. PICK p \in PanesOf(script) : p = r.pane
  BY <1>3 DEF TabRequests
<1>5. r.what \in {"load", "page"} /\ r.page \in Nat \ {0} /\ r.organization = organization
      /\ (r.what = "load" => r.page = 1 /\ view[p].loaded = FALSE)
      /\ (r.what = "page" => r.page = view[p].page /\ view[p].loaded = TRUE)
  BY <1>3, <1>4 DEF TabRequests, RightlyAsked
<1>6. PICK s : s = Stock(organization, p)
  OBVIOUS
<1>7. PICK d : d = Reply(r)
  OBVIOUS
<1>8. /\ s \in Seq(Items) /\ d.rows = PageOf(s, r.page) /\ d.rows \in Seq(Items)
      /\ r.what = "load" => d.count \in Nat /\ Len(s) <= d.count
  BY <1>3, <1>4, <1>5, <1>6, <1>7, TabReply
<1>9. PICK w : w = IF r.what = "load" THEN Opened(view[p], d) ELSE PageTurned(view[p], d)
  OBVIOUS
<1>10. /\ w \in Shapes /\ w.loaded = TRUE /\ w.rows = PageOf(s, w.page)
       /\ w.alert => w.rows = <<>>
       /\ Len(s) <= w.total * PageSize
  <2>1. CASE r.what = "load"
    <3>0. PICK v : v = view[p]
      OBVIOUS
    <3>1. v.rows = <<>> /\ v.alert = FALSE /\ v \in Shapes
      BY <2>1, <3>0, <1>5, <1>c DEF TabbedInv, PaneOK
    <3>2. d.rows = PageOf(s, 1) /\ d.count \in Nat /\ Len(s) <= d.count /\ s \in Seq(Items)
      BY <2>1, <1>5, <1>8
    <3>3. w = Opened(v, d)
      BY <2>1, <3>0, <1>9
    <3> QED BY <3>1, <3>2, <3>3, OpenedIs
  <2>2. CASE r.what = "page"
    <3>1. Len(s) <= view[p].total * PageSize /\ view[p] \in Shapes
      BY <2>2, <1>5, <1>6, <1>c DEF TabbedInv, PaneOK
    <3>2. w = PageTurned(view[p], d)
      BY <2>2, <1>9
    <3>3. /\ w \in Shapes /\ w.rows = d.rows /\ w.total = view[p].total
          /\ w.page = view[p].page /\ w.loaded = view[p].loaded /\ (w.alert => w.rows = <<>>)
      BY <3>1, <3>2, <1>8, PageTurnedIs
    <3> QED BY <2>2, <3>1, <3>3, <1>5, <1>8
  <2> QED BY <2>1, <2>2, <1>5
<1>11. view' = [view EXCEPT ![p] = w]
  BY <1>2, <1>4, <1>7, <1>9
<1>12. /\ view' \in [PanesOf(script) -> Shapes] /\ view'[p] = w
       /\ \A q \in PanesOf(script) \ {p} : view'[q] = view[q]
  BY <1>10, <1>11, <1>b
<1>13. ListsTypes'
  BY <1>1, <1>12, SameLists DEF ListsTypes
<1>14. TabRequests' = TabRequests /\ PanesOf(script') = PanesOf(script)
  BY <1>1 DEF TabRequests, PanesOf, Places
<1>15. ASSUME NEW q \in PanesOf(script) PROVE PaneOK(q)'
  <2>1. CASE q = p
    <3>1. Settled(p)'
      BY <1>1, <1>6, <1>10, <1>12 DEF Settled, Stock
    <3> QED BY <2>1, <3>1, <1>1, <1>6, <1>10, <1>12 DEF PaneOK, Stock
  <2>2. CASE q # p
    <3>1. view'[q] = view[q] /\ (Asked(q)' <=> Asked(q)) /\ PaneOK(q)
      BY <2>2, <1>3, <1>4, <1>12 DEF TabbedInv
    <3> QED BY <3>1, <1>1 DEF PaneOK, Settled, Stock
  <2> QED BY <2>1, <2>2
<1>16. ASSUME NEW i \in DOMAIN unanswered'
       PROVE  \E x : x = unanswered'[i] /\ RightlyAsked(x)'
  <2>1. PICK k \in DOMAIN unanswered : unanswered'[i] = unanswered[k]
    BY <1>3
  <2>2. PICK x : x = unanswered[k]
    OBVIOUS
  <2>3. RightlyAsked(x) /\ x.pane \in PanesOf(script) /\ x.pane # p
    <3>1. unanswered[k] \in TabRequests
      BY DEF TabbedInv
    <3> QED BY <3>1, <2>1, <2>2, <1>3, <1>4 DEF TabbedInv, TabRequests
  <2>4. view'[x.pane] = view[x.pane]
    BY <2>3, <1>12
  <2>5. RightlyAsked(x)'
    BY <2>3, <2>4, <1>1 DEF RightlyAsked
  <2> QED BY <2>1, <2>2, <2>5
<1>17. (\A i \in DOMAIN unanswered : RightlyAsked(unanswered[i]))'
  BY <1>16, AllRightly
<1> QED BY <1>1, <1>3, <1>13, <1>14, <1>15, <1>17 DEF TabbedInv

LEMMA TabsSelect ==
    ASSUME ListsAssumption, ListsTypes, script = "applications_of_organization", TabbedInv,
           NEW o \in Orgs, SelectOrganization(o), ~overlapped'
    PROVE  ListsTypes' /\ TabbedInv'
<1>1. organization' = o /\ tab' = FirstTab /\ UNCHANGED <<script, stored, typed, timer, astray>>
  BY DEF SelectOrganization
<1>2. Places = Orgs /\ FirstTab \in PanesOf(script)
  BY DEF Places, FirstTab, PanesOf, ListsAssumption
<1>3. unanswered = <<>>
  BY DEF SelectOrganization
<1>4. PICK r : r = [ListRequest("load", FirstTab, 1) EXCEPT !.organization = o]
  OBVIOUS
<1>5. r \in TabRequests /\ r.pane = FirstTab /\ r.what = "load" /\ r.page = 1
      /\ r.organization = o
  BY <1>2, <1>4 DEF ListRequest, TabRequests
<1>6. unanswered' = <<r>>
  BY <1>3, <1>4 DEF SelectOrganization
<1>7. /\ unanswered' \in Seq(TabRequests) /\ DOMAIN unanswered' = {1} /\ unanswered'[1] = r
  BY <1>5, <1>6
<1>8. view' = [q \in PanesOf(script) |-> Cleared(view[q])]
  BY DEF SelectOrganization, Panes, ListsTypes
<1>9. ASSUME NEW q \in PanesOf(script)
      PROVE  view'[q] \in Shapes /\ view'[q].rows = <<>> /\ view'[q].alert = FALSE
             /\ view'[q].loaded = FALSE
  <2> DEFINE v == view[q]
             u == [v EXCEPT !.rows = <<>>, !.alert = FALSE]
             w == [u EXCEPT !.loaded = FALSE]
  <2>1. v \in Shapes /\ <<>> \in Seq(Items)
    BY DEF ListsTypes
  <2>2. view'[q] = w
    BY <1>8 DEF Cleared
  <2> HIDE DEF v
  <2>3. u \in Shapes /\ u.rows = <<>> /\ u.alert = FALSE
    BY <2>1, BothSet DEF Shapes
  <2> HIDE DEF u
  <2>4. w \in Shapes /\ w.rows = <<>> /\ w.alert = FALSE /\ w.loaded = FALSE
    BY <2>3 DEF Shapes
  <2> HIDE DEF w
  <2> QED BY <2>2, <2>4
<1>10. view' \in [PanesOf(script) -> Shapes]
  BY <1>8, <1>9
<1>11. ListsTypes'
  BY <1>1, <1>2, <1>10 DEF ListsTypes, Places, PanesOf
<1>12. TabRequests' = TabRequests /\ PanesOf(script') = PanesOf(script)
  BY <1>1 DEF TabRequests, PanesOf, Places
<1>13. ASSUME NEW q \in PanesOf(script) PROVE PaneOK(q)'
  <2>1. q = tab' => Asked(q)'
    BY <1>1, <1>5, <1>7 DEF Asked
  <2> QED BY <2>1, <1>9 DEF PaneOK
<1>14. RightlyAsked(r)'
  BY <1>1, <1>2, <1>5, <1>9 DEF RightlyAsked
<1>15. (\A i \in DOMAIN unanswered : RightlyAsked(unanswered[i]))'
  BY <1>7, <1>14, AllRightly
<1> QED BY <1>1, <1>7, <1>11, <1>12, <1>13, <1>15 DEF TabbedInv

-----------------------------------------------------------------------------
(* Lists: all of them. *)

LInv ==
    overlapped \/ /\ ListsTypes
                  /\ script \in Paged => PagedInv
                  /\ script \in Tabbed => TabbedInv
                  /\ script \in Searches => SearchInv
                  /\ script = "trusted_applications" => TrustedInv

LEMMA BlankIs ==
    /\ Blank \in Shapes /\ Blank.rows = <<>> /\ Blank.total = 0 /\ Blank.page = 1
    /\ Blank.alert = FALSE /\ Blank.loaded = FALSE
<1>1. <<>> \in Seq(Items)
  OBVIOUS
<1> QED BY <1>1 DEF Blank, Shapes

LEMMA InitStored ==
    ASSUME ListsAssumption, ListInit
    PROVE  ListsTypes
<1> DEFINE k == Cardinality(Items)
           D == Places \X PanesOf(script)
           listed == SetToSeq(Items)
<1>1. listed \in Seq(Items) /\ Len(listed) = k /\ k \in Nat
  BY ListedOnce, FS_CardinalityType DEF ListsAssumption
<1>2. script \in Paged \cup Tabbed \cup Searches \cup {"trusted_applications"}
      /\ view = [p \in PanesOf(script) |-> Blank] /\ timer = FALSE /\ astray = FALSE
      /\ tab = FirstTab
  BY DEF ListInit
<1>3. organization \in Places
  BY DEF ListInit, Places, ListsAssumption
<1>4. FirstTab \in PanesOf(script)
  BY DEF FirstTab, PanesOf, ListsAssumption
<1>5. Panes = PanesOf(script)
  BY <1>2 DEF Panes
<1>6. PICK n \in [D -> 0..k] : stored = [x \in DOMAIN n |-> SubSeq(listed, 1, n[x])]
  BY <1>5 DEF ListInit, Places
<1>7. DOMAIN stored = D /\ \A x \in D : stored[x] = SubSeq(listed, 1, n[x]) /\ n[x] \in 0..k
  BY <1>6
<1> HIDE DEF listed, k, D
<1>8. ASSUME NEW x \in D PROVE stored[x] \in Seq(Items) /\ Len(stored[x]) <= k
  <2>1. PICK m \in 0..k : m = n[x]
    BY <1>7
  <2>2. SubSeq(listed, 1, m) \in Seq(Items) /\ Len(SubSeq(listed, 1, m)) = m
    BY <1>1, <2>1
  <2>3. stored[x] = SubSeq(listed, 1, m)
    BY <1>7, <2>1
  <2>4. m <= k
    BY <1>1, <2>1
  <2> QED BY <2>2, <2>3, <2>4
<1>9. stored \in [D -> Seq(Items)]
  <2>1. stored = [x \in D |-> stored[x]]
    BY <1>6, <1>7
  <2> QED BY <2>1, <1>8
<1>10. view \in [PanesOf(script) -> Shapes]
  BY <1>2, BlankIs
<1> QED BY <1>2, <1>3, <1>4, <1>7, <1>8, <1>9, <1>10 DEF ListsTypes, D, k

LEMMA InitLInv == ASSUME ListsAssumption, ListInit PROVE LInv
<1>1. ListsTypes
  BY InitStored
<1>2. /\ view = [p \in PanesOf(script) |-> Blank] /\ typed = Everything /\ timer = FALSE
      /\ astray = FALSE /\ tab = FirstTab /\ trusted = [all |-> <<>>, filter |-> <<>>]
  BY DEF ListInit
<1>3. PICK r : r = ListRequest("load", FirstTab, 1)
  OBVIOUS
<1>4. r.what = "load" /\ r.pane = FirstTab /\ r.organization = organization
      /\ r.key = Everything /\ r.page = 1
  BY <1>3 DEF ListRequest
<1>5. script \notin Searches => unanswered = <<r>>
  BY <1>3 DEF ListInit
<1>6. /\ Blank \in Shapes /\ Blank.rows = <<>> /\ Blank.total = 0 /\ Blank.page = 1
      /\ Blank.alert = FALSE /\ Blank.loaded = FALSE
  BY BlankIs
<1>7. ASSUME script \in Paged PROVE PagedInv
  <2>1. shows = Blank /\ Alone(r) /\ unanswered = <<r>>
    BY <1>2, <1>4, <1>5, <1>7, OnePane DEF shows, Alone, Paged, Searches
  <2>2. PagedAwaits(r)
    BY <2>1, <1>2, <1>4 DEF PagedAwaits
  <2>3. unanswered # <<>> /\ unanswered[1] = r
    BY <2>1
  <2> QED BY <2>1, <2>2, <2>3 DEF PagedInv
<1>8. ASSUME script \in Tabbed PROVE TabbedInv
  <2>1. unanswered = <<r>>
    BY <1>5, <1>8 DEF Tabbed, Searches
  <2>2. r \in TabRequests /\ tab \in PanesOf(script)
    BY <1>1, <1>2, <1>3 DEF TabRequests, ListsTypes, ListRequest
  <2>3. unanswered \in Seq(TabRequests) /\ DOMAIN unanswered = {1} /\ unanswered[1] = r
    BY <2>1, <2>2
  <2>4. RightlyAsked(r)
    BY <1>2, <1>4, <1>6, <2>2 DEF RightlyAsked
  <2>5. ASSUME NEW p \in PanesOf(script) PROVE PaneOK(p)
    <3>1. p = tab => Asked(p)
      BY <2>3, <1>2, <1>4 DEF Asked
    <3> QED BY <3>1, <1>2, <1>6 DEF PaneOK
  <2> QED BY <1>2, <2>3, <2>4, <2>5 DEF TabbedInv
<1>9. ASSUME script \in Searches PROVE SearchInv
  <2>1. unanswered = <<>> /\ shows = Blank
    BY <1>2, <1>9, OnePane DEF ListInit, shows
  <2> QED BY <2>1, <1>2, <1>6 DEF SearchInv
<1>10. ASSUME script = "trusted_applications" PROVE TrustedInv
  <2>1. shows = Blank /\ Alone(r) /\ unanswered = <<r>>
    BY <1>2, <1>4, <1>5, <1>10, OnePane DEF shows, Alone, Searches
  <2>3. unanswered # <<>> /\ unanswered[1] = r
    BY <2>1
  <2> QED BY <2>1, <2>3, <1>2, <1>4 DEF TrustedInv, TrustedWaits
<1> QED BY <1>1, <1>7, <1>8, <1>9, <1>10 DEF LInv

\* Nothing of a page but its lists changes, and what was overlapped stays so.
LEMMA StaysOverlapped ==
    ASSUME [ListNext]_listVars
    PROVE  script' = script /\ (overlapped => overlapped')
<1>1. Type => script' = script /\ (overlapped => overlapped')
  BY DEF Type
<1>2. PagedList => script' = script /\ (overlapped => overlapped')
  <2>1. send_filter_request => script' = script /\ (overlapped => overlapped')
    BY DEF send_filter_request, Send
  <2>2. TurnPage => script' = script /\ (overlapped => overlapped')
    BY DEF TurnPage, Send
  <2>3. PagedAnswer => script' = script /\ (overlapped => overlapped')
    BY DEF PagedAnswer
  <2> QED BY <1>1, <2>1, <2>2, <2>3 DEF PagedList
<1>3. TabbedList => script' = script /\ (overlapped => overlapped')
  <2>1. \A p \in Panes : OpenTab(p) => script' = script /\ (overlapped => overlapped')
    BY DEF OpenTab, Send
  <2>2. \A p \in Panes : TurnPageOf(p) => script' = script /\ (overlapped => overlapped')
    BY DEF TurnPageOf, Send
  <2>3. TabAnswer => script' = script /\ (overlapped => overlapped')
    BY DEF TabAnswer
  <2> QED BY <2>1, <2>2, <2>3 DEF TabbedList
<1>4. \A o \in Orgs : SelectOrganization(o) => script' = script /\ (overlapped => overlapped')
  BY DEF SelectOrganization
<1>5. TrustedApplications => script' = script /\ (overlapped => overlapped')
  <2>1. LoadTrusted => script' = script /\ (overlapped => overlapped')
    BY DEF LoadTrusted
  <2>2. FilterTrusted => script' = script /\ (overlapped => overlapped')
    BY DEF FilterTrusted
  <2>3. TurnTrusted => script' = script /\ (overlapped => overlapped')
    BY DEF TurnTrusted
  <2> QED BY <1>1, <2>1, <2>2, <2>3 DEF TrustedApplications, TypeTrusted
<1>6. SearchList => script' = script /\ (overlapped => overlapped')
  <2>1. Search => script' = script /\ (overlapped => overlapped')
    BY DEF Search, Send
  <2>2. Found => script' = script /\ (overlapped => overlapped')
    BY DEF Found
  <2> QED BY <1>1, <2>1, <2>2 DEF SearchList
<1>7. UNCHANGED listVars => script' = script /\ (overlapped => overlapped')
  BY DEF listVars
<1> QED BY <1>2, <1>3, <1>4, <1>5, <1>6, <1>7 DEF ListNext, AuthorizedUsers,
  AuthorizedOrganizations, Administrators, Members, OrganizationApplications,
  UserApplications, UserOrganizations, MyApplications, MyOrganizations,
  ApplicationsOfOrganization, SearchUsers, SearchOrganizations, SearchApplications

LEMMA StepLInv ==
    ASSUME ListsAssumption, LInv, [ListNext]_listVars
    PROVE  LInv'
<1>0. script' = script /\ (overlapped => overlapped')
  BY StaysOverlapped
<1> SUFFICES ASSUME ~overlapped' PROVE LInv'
  BY DEF LInv
<1>1. ListsTypes /\ ~overlapped
  BY <1>0 DEF LInv
<1>2. CASE UNCHANGED listVars
  <2>1. ListsTypes'
    BY <1>1, <1>2 DEF listVars, ListsTypes, PanesOf, Places
  <2>2. PagedInv => PagedInv'
    BY <1>2 DEF listVars, PagedInv, PagedSettled, PagedAwaits, Alone, shows, held, Stock, Reach
  <2>3. TabbedInv => TabbedInv'
    BY <1>2 DEF listVars, TabbedInv, TabRequests, RightlyAsked, PaneOK, Asked, Settled, Stock,
       PanesOf, Places
  <2>4. SearchInv => SearchInv'
    BY <1>2 DEF listVars, SearchInv, Alone, shows, held, Stock
  <2>5. TrustedInv => TrustedInv'
    BY <1>2 DEF listVars, TrustedInv, TrustedWaits, TrustedCame, Alone, shows, held, Stock, Reach
  <2> QED BY <1>0, <1>1, <2>1, <2>2, <2>3, <2>4, <2>5 DEF LInv
<1>3. ASSUME script \in Paged, PagedList PROVE LInv'
  <2>1. PagedInv
    BY <1>1, <1>3 DEF LInv
  <2>2. ListsTypes' /\ PagedInv'
    BY <1>1, <1>3, <2>1, PagedType, PagedAsks, PagedTurns, PagedGets DEF PagedList
  <2> QED BY <1>0, <1>3, <2>2 DEF LInv, Paged, Tabbed, Searches
<1>4. ASSUME script \in Tabbed, TabbedList PROVE LInv'
  <2>1. TabbedInv
    BY <1>1, <1>4 DEF LInv
  <2>2. ListsTypes' /\ TabbedInv'
    BY <1>1, <1>4, <2>1, TabsOpen, TabsTurn, TabsGet DEF TabbedList
  <2> QED BY <1>0, <1>4, <2>2 DEF LInv, Paged, Tabbed, Searches
<1>5. ASSUME script = "applications_of_organization", NEW o \in Orgs, SelectOrganization(o)
      PROVE  LInv'
  <2>1. TabbedInv
    BY <1>1, <1>5 DEF LInv, Tabbed
  <2>2. ListsTypes' /\ TabbedInv'
    BY <1>1, <1>5, <2>1, TabsSelect
  <2> QED BY <1>0, <1>5, <2>2 DEF LInv, Paged, Tabbed, Searches
<1>6. ASSUME TrustedApplications PROVE LInv'
  <2>1. script = "trusted_applications" /\ TrustedInv
    BY <1>1, <1>6 DEF LInv, TrustedApplications
  <2>2. ListsTypes' /\ TrustedInv'
    BY <1>1, <1>6, <2>1, TrustedTypes, TrustedLoads, TrustedFilters, TrustedTurns
    DEF TrustedApplications
  <2> QED BY <1>0, <2>1, <2>2 DEF LInv, Paged, Tabbed, Searches
<1>7. ASSUME script \in Searches, SearchList PROVE LInv'
  <2>1. SearchInv
    BY <1>1, <1>7 DEF LInv
  <2>2. ListsTypes' /\ SearchInv'
    BY <1>1, <1>7, <2>1, SearchTypes, SearchAsks, SearchGets DEF SearchList
  <2> QED BY <1>0, <1>7, <2>2 DEF LInv, Paged, Tabbed, Searches
<1>8. CASE ListNext
  <2>1. \/ script \in Paged /\ PagedList
        \/ script \in Tabbed /\ TabbedList
        \/ script = "applications_of_organization" /\ \E o \in Orgs : SelectOrganization(o)
        \/ TrustedApplications
        \/ script \in Searches /\ SearchList
    BY <1>8 DEF ListNext, Paged, Tabbed, Searches, AuthorizedUsers,
      AuthorizedOrganizations, Administrators, Members, OrganizationApplications,
      UserApplications, UserOrganizations, MyApplications, MyOrganizations,
      ApplicationsOfOrganization, SearchUsers, SearchOrganizations, SearchApplications
  <2> QED BY <2>1, <1>3, <1>4, <1>5, <1>6, <1>7
<1> QED BY <1>2, <1>8

LEMMA LInvAlways == ASSUME ListsAssumption PROVE ListsSpec => []LInv
<1>1. ListInit => LInv
  BY InitLInv
<1>2. LInv /\ [ListNext]_listVars => LInv'
  BY StepLInv
<1> QED BY <1>1, <1>2, PTL DEF ListsSpec

LEMMA WantedIs ==
    ASSUME NEW p, NEW s, s = Stock(organization, p)
    PROVE  /\ script \in Searches =>
                 Wanted(p) = IF typed = Everything THEN <<>> ELSE Like(s, typed)
           /\ script \in Tabbed =>
                 Wanted(p) = IF view[p].loaded THEN PageOf(s, view[p].page) ELSE <<>>
           /\ script = "trusted_applications" =>
                 Wanted(p) = IF Like(s, typed) = <<>> THEN <<>>
                             ELSE PageOf(Like(s, typed), view[p].page)
           /\ script \in Paged => Wanted(p) = PageOf(Like(s, typed), view[p].page)
BY DEF Wanted, Stock, Searches, Tabbed, Paged

\* What a page at rest has for its one list.
LEMMA AtRestOne ==
    ASSUME ListsAssumption, LInv, AtRest,
           script \in Paged \cup Searches \cup {"trusted_applications"}
    PROVE  /\ Panes = {"provider"} /\ (shows.alert => shows.rows = <<>>)
           /\ ~astray => shows.rows = Wanted("provider")
           /\ script \notin Searches => Reach("provider", typed)
<1>1. ListsTypes /\ unanswered = <<>> /\ ~timer
  BY DEF AtRest, LInv
<1>2. PanesOf(script) = {"provider"}
  BY OnePane
<1>3. Panes = {"provider"} /\ held \in Seq(Items) /\ shows.page \in Nat \ {0}
  BY <1>1, <1>2, HeldIs DEF Panes, Shapes
<1>4. CASE script \in Paged
  <2>1. PagedSettled /\ script \notin Searches
    BY <1>1, <1>4 DEF AtRest, LInv, PagedInv, Paged, Searches
  <2>2. Wanted("provider") = PageOf(Like(held, typed), shows.page)
    BY <1>4, WantedIs DEF held, shows
  <2> QED BY <2>1, <2>2, <1>1, <1>3 DEF PagedSettled
<1>5. CASE script \in Searches
  <2>1. SearchInv
    BY <1>5 DEF AtRest, LInv
  <2>2. Wanted("provider") = IF typed = Everything THEN <<>> ELSE Like(held, typed)
    BY <1>5, WantedIs DEF held, shows
  <2> QED BY <2>1, <2>2, <1>1, <1>3, <1>5 DEF SearchInv
<1>6. CASE script = "trusted_applications"
  <2>1. TrustedCame
    BY <1>1, <1>6 DEF AtRest, LInv, TrustedInv, TrustedWaits
  <2>2. Wanted("provider") = IF Like(held, typed) = <<>> THEN <<>>
                             ELSE PageOf(Like(held, typed), shows.page)
    BY <1>6, WantedIs DEF held, shows
  <2>3. Like(held, typed) = <<>> => PageOf(Like(held, typed), shows.page) = <<>>
    <3>1. Like(held, typed) \in Seq(Items)
      BY <1>3, LikeIs
    <3> QED BY <3>1, <1>3, PageOfIs
  <2> QED BY <2>1, <2>2, <2>3, <1>1, <1>3, <1>6 DEF TrustedCame
<1> QED BY <1>4, <1>5, <1>6

LEMMA AtRestTabs ==
    ASSUME ListsAssumption, LInv, AtRest, script \in Tabbed, NEW p \in Panes
    PROVE  /\ view[p].rows = Wanted(p) /\ (view[p].alert => view[p].rows = <<>>)
           /\ view[p].loaded => Reach(p, typed)
<1>1. ListsTypes /\ TabbedInv /\ unanswered = <<>>
  BY DEF AtRest, LInv
<1>2. p \in PanesOf(script) /\ view[p].loaded \in BOOLEAN /\ ~Asked(p)
  BY <1>1 DEF ListsTypes, Panes, Shapes, Asked
<1>3. PICK s : s = Stock(organization, p)
  OBVIOUS
<1>4. s \in Seq(Items)
  BY <1>1, <1>2, <1>3 DEF ListsTypes, Stock
<1>5. Like(s, typed) = s
  BY <1>1, <1>4, LikeIs DEF TabbedInv
<1>6. Wanted(p) = IF view[p].loaded THEN PageOf(s, view[p].page) ELSE <<>>
  BY <1>3, WantedIs
<1>7. PaneOK(p)
  BY <1>1, <1>2 DEF TabbedInv
<1>8. CASE view[p].loaded = TRUE
  BY <1>2, <1>3, <1>5, <1>6, <1>7, <1>8 DEF PaneOK, Settled, Reach
<1>9. CASE view[p].loaded = FALSE
  BY <1>2, <1>6, <1>7, <1>9 DEF PaneOK
<1> QED BY <1>2, <1>8, <1>9

\* A list at rest shows what is stored for its filter, its page and the
\* organization, for lists of any length, pages of any size and any number of
\* answers, in any order (the success handlers of handle_get_*.js,
\* *_navigation.js and search_available_*.js, none of which looks at what the
\* page asks for by then).
THEOREM ListsAreWhatIsAsked ==
  ASSUME ListsAssumption PROVE ListsSpec => []ShownAgrees
<1>1. ASSUME LInv, AtRest, NEW p \in Panes
      PROVE  (~astray => view[p].rows = Wanted(p)) /\ (view[p].alert => view[p].rows = <<>>)
  <2>1. script \in Tabbed \/ script \in Paged \cup Searches \cup {"trusted_applications"}
    BY <1>1 DEF LInv, AtRest, ListsTypes
  <2>2. CASE script \in Tabbed
    BY <1>1, <2>2, AtRestTabs
  <2>3. CASE script \in Paged \cup Searches \cup {"trusted_applications"}
    BY <1>1, <2>3, AtRestOne DEF shows
  <2> QED BY <2>1, <2>2, <2>3
<1>2. LInv => ShownAgrees
  BY <1>1 DEF ShownAgrees
<1> QED BY <1>2, LInvAlways, PTL

\* The pager of such a list has a page for each of its items (bootpag is told
\* of a total that the answer has in its rows, or for all tabs, or not at all
\* when there are none: models/helpers/search_distinct.js).
THEOREM EveryItemHasAPage ==
  ASSUME ListsAssumption PROVE ListsSpec => []Reachable
<1>1. ASSUME LInv, AtRest, script \notin Searches, NEW p \in Panes,
             view[p].loaded \/ script \notin Tabbed
      PROVE  Reach(p, typed)
  <2>1. script \in Tabbed \/ script \in Paged \cup Searches \cup {"trusted_applications"}
    BY <1>1 DEF LInv, AtRest, ListsTypes
  <2>2. CASE script \in Tabbed
    BY <1>1, <2>2, AtRestTabs
  <2>3. CASE script \in Paged \cup Searches \cup {"trusted_applications"}
    BY <1>1, <2>3, AtRestOne
  <2> QED BY <2>1, <2>2, <2>3
<1>2. LInv => Reachable
  BY <1>1 DEF Reachable, Reach, Stock
<1> QED BY <1>2, LInvAlways, PTL
=============================================================================
