------------------------------ MODULE Dialogs -------------------------------
(***************************************************************************)
(* The dialogs of the Keyrock pages that edit a list of assignments and    *)
(* post the whole of it (src/fiware-idm/public/javascripts):               *)
(*   organizations/handle_manage_members.js          "members"             *)
(*   applications/handle_authorize_users.js          "users"               *)
(*   applications/handle_authorize_organizations.js  "organizations"       *)
(*   admin/handle_authorize_administrators.js        "administrators"      *)
(*   applications/handle_add_trusted_applications.js "trusted"             *)
(* The first three keep, next to the rows of the page, the list they will  *)
(* post; the others post the rows.  The list comes from the server after   *)
(* the dialog has opened, and a row that is removed fades out for half a   *)
(* second before it goes.  What the search offers is anything: the person  *)
(* chooses from it by id.                                                  *)
(***************************************************************************)
EXTENDS Integers, Sequences, FiniteSets, SequencesExt, Browser, Positions

CONSTANTS
    Things,    \* users, organizations or applications that may be listed
    AppRoles,  \* what may be assigned; with an organization, to one of its ranks
    Kinds,     \* the dialogs of this instance
    NaN,       \* what counting from undefined gives
    MaxOpens, MaxRows \* bounds: openings of the dialog, rows ever made

ASSUME DialogsAssumption ==
    /\ IsFiniteSet(Things) /\ IsFiniteSet(AppRoles)
    /\ Kinds \subseteq {"members", "users", "organizations", "administrators", "trusted"}
    /\ None \notin Int /\ NaN \notin Int /\ None # NaN

VARIABLES
    kind,   \* which dialog this is
    open,   \* whether it is on the screen
    answers,\* what the server has sent and has not arrived
    list,   \* the array that is posted: entries with an id and a role
    count,  \* user_role_count, organization_role_count
    rows,   \* the elements of the list on the page, in order
    fades,  \* the rows whose fading has not ended
    row,    \* the global variable of that name: the row touched last, or None
    offered,\* whether the roles of the application have come, which the dialogs
            \* of users and of organizations share; rows made before have none
            \* to choose
    button, \* the caption of the button: "Save", "Confirm"
    posted, \* what was submitted, and under which caption
    opens, serial,
    listed, touched, hasty, late \* history, of the properties below

dialogVars == <<kind, open, answers, list, count, rows, fades, row, offered, button,
                posted, opens, serial, listed, touched, hasty, late>>

Assigning == {"users", "organizations"}   \* roles of an application
Posting == {"administrators", "trusted"}  \* what is posted are the rows
Roles == IF kind = "members" THEN {"owner", "member"}
         ELSE IF kind \in Assigning THEN AppRoles ELSE {"listed"}

\* What the server may send: each of those on the list with its roles.  A role
\* of an application that the person may not assign comes as no role.
Assigned(R) == {[t \in ts |-> f[t]] : ts \in SUBSET Things, f \in [Things -> R]}
MembersSent == Assigned({{"owner"}, {"member"}})
UsersSent == Assigned(SUBSET AppRoles)
OrganizationsSent == Assigned(SUBSET AppRoles)
AdministratorsSent == Assigned({{"listed"}})
TrustedSent == Assigned({{"listed"}})
Listings ==
    CASE kind = "members" -> MembersSent
      [] kind = "users" -> UsersSent
      [] kind = "organizations" -> OrganizationsSent
      [] kind = "administrators" -> AdministratorsSent
      [] kind = "trusted" -> TrustedSent

\* What fading has made of a row is its look; whether its display was taken away
\* by the filter is apart.
Row(t, n, roles, offers) ==
    [id |-> t, n |-> n, active |-> roles, empty |-> FALSE, look |-> "shown",
     offers |-> offers, filtered |-> FALSE]
RowsOf(t) == {i \in DOMAIN rows : rows[i].id = t}
Numbers == {rows[i].n : i \in DOMAIN rows}
\* jQuery finds the first element with an id.
First(rs, t) == CHOOSE i \in DOMAIN rs :
                  rs[i].id = t /\ \A j \in 1..(i - 1) : rs[j].id # t
Entries(l) == {e \in [id : DOMAIN l, role : Roles] : e.role \in l[e.id]}
Without(S) == Omit(list, S)
OfThing(t) == [id : {t}, role : Roles]

\* Incrementing and decrementing a property that may not be there.
Plus(c, d) == IF c \in {None, NaN} THEN NaN ELSE c + d

DialogInit ==
    /\ kind \in Kinds
    /\ open = FALSE /\ list = <<>> /\ rows = <<>> /\ fades = {} /\ row = None
    /\ count = [t \in Things |-> None] /\ button = "Save" /\ posted = None
    /\ offered \in BOOLEAN /\ (offered => kind \in Assigning)
    \* the page with the trusted applications asks for them when it is ready
    /\ answers \in IF kind = "trusted" THEN {<<l>> : l \in Listings} ELSE {<<>>}
    /\ opens = 0 /\ serial = 1
    /\ listed = None /\ touched = {} /\ hasty = FALSE /\ late = FALSE

Editing == open /\ posted = None
\* What can be clicked.
Displayed(i) == rows[i].look # "faded" /\ ~rows[i].filtered

-----------------------------------------------------------------------------
(* Opening, and the answer. *)

MakeRows(ids, n, roles) == [i \in 1..Len(ids) |-> Row(ids[i], n + i - 1, roles, TRUE)]

OpenDialog ==
    /\ ~open /\ posted = None /\ opens < MaxOpens
    /\ open' = TRUE /\ opens' = opens + 1
OpenAndAsk ==
    /\ kind # "trusted" /\ OpenDialog
    /\ \E l \in Listings \cup {None} : answers' = Append(answers, l)
    /\ UNCHANGED <<kind, list, count, rows, fades, row, offered, button, posted,
                   serial, listed, touched, hasty, late>>
\* The applications that are trusted are in a global of the page behind.
OpenTrusted ==
    /\ kind = "trusted" /\ OpenDialog
    /\ LET ids == [i \in DOMAIN list |-> list[i].id] IN
       /\ rows' = rows \o MakeRows(ids, serial, {"listed"})
       /\ serial' = serial + Len(ids)
    /\ listed' = [t \in {list[i].id : i \in DOMAIN list} |-> {"listed"}]
    /\ hasty' = (hasty \/ answers # <<>>)
    /\ UNCHANGED <<kind, answers, list, count, fades, row, offered, button, posted,
                   touched, late>>

\* What the functions that leave a dialog put back.
\* Mutation: the members that were listed stay in the array.
LeaveMembersListed == kind = "members" /\ UNCHANGED <<list, count>>
LeaveMembers == kind = "members" /\ list' = <<>> /\ UNCHANGED count
LeaveUsers == kind = "users" /\ count' = [t \in Things |-> None] /\ UNCHANGED list
LeaveOrganizations ==
    kind = "organizations" /\ count' = [t \in Things |-> None] /\ UNCHANGED list
LeaveAdministrators == kind = "administrators" /\ UNCHANGED <<list, count>>
LeaveTrusted == kind = "trusted" /\ UNCHANGED <<list, count>>
Leave ==
    /\ \/ LeaveMembers \/ LeaveUsers \/ LeaveOrganizations
       \/ LeaveAdministrators \/ LeaveTrusted
    /\ rows' = <<>> /\ button' = "Save" /\ listed' = None /\ touched' = {}

Cancel ==
    /\ Editing /\ Leave /\ open' = FALSE
    /\ late' = (late \/ (answers # <<>> /\ kind # "trusted"))
    /\ UNCHANGED <<kind, answers, fades, row, offered, posted, opens, serial, hasty>>


\* Members already in the list are passed over; owners come first.  The role
\* is marked in the first row of that id, if it is there to be marked.
MarkedIn(rs, l) ==
    [i \in DOMAIN rs |->
       IF rs[i].id \in DOMAIN l /\ i = First(rs, rs[i].id) /\ rs[i].offers
       THEN [rs[i] EXCEPT !.active = @ \cup l[rs[i].id]] ELSE rs[i]]
ArriveMembers(l) ==
    LET new == [t \in DOMAIN l \ {list[i].id : i \in DOMAIN list} |-> l[t]]
        owners == SetToSeq({t \in DOMAIN new : "owner" \in new[t]})
        others == SetToSeq({t \in DOMAIN new : "owner" \notin new[t]})
    IN  /\ kind = "members"
        /\ rows' = MarkedIn(MakeRows(owners, serial, {}) \o rows
                              \o MakeRows(others, serial + Len(owners), {}), new)
        /\ serial' = serial + Cardinality(DOMAIN new)
        /\ list' = list \o SetToSeq(Entries(new))
        /\ UNCHANGED count

\* The array is replaced; a row is made for whom there is none yet.
Counted(l) ==
    [t \in Things |-> IF t \notin DOMAIN l THEN count[t]
                      ELSE (IF count[t] \in {None, NaN} THEN 0 ELSE count[t])
                             + Cardinality(l[t])]
ArriveAssigned(l) ==
    LET new == SetToSeq({t \in DOMAIN l : RowsOf(t) = {}}) IN
    /\ list' = SetToSeq(Entries(l)) /\ count' = Counted(l)
    /\ rows' = MarkedIn(rows \o MakeRows(new, serial, {}), l)
    /\ serial' = serial + Len(new)
ArriveUsers(l) == kind = "users" /\ ArriveAssigned(l)
ArriveOrganizations(l) == kind = "organizations" /\ ArriveAssigned(l)
ArriveAdministrators(l) ==
    LET ids == SetToSeq(DOMAIN l) IN
    /\ kind = "administrators"
    /\ rows' = rows \o MakeRows(ids, serial, {"listed"})
    /\ serial' = serial + Len(ids)
    /\ UNCHANGED <<list, count>>
ArriveTrusted(l) ==
    kind = "trusted" /\ list' = SetToSeq(Entries(l)) /\ UNCHANGED <<rows, serial, count>>

Arrive(i) ==
    /\ posted = None /\ answers' = RemoveAt(answers, i)
    /\ \/ LET l == answers[i] IN
          /\ l # None
          /\ \/ ArriveMembers(l) \/ ArriveUsers(l) \/ ArriveOrganizations(l)
             \/ ArriveAdministrators(l) \/ ArriveTrusted(l)
          /\ listed' = IF kind = "trusted" THEN listed ELSE l
          /\ offered' = TRUE
          /\ UNCHANGED <<open, button, touched>>
       \* of an error, the dialog is left and toggled
       \/ answers[i] = None /\ Leave /\ open' = ~open /\ UNCHANGED <<serial, offered>>
    /\ UNCHANGED <<kind, fades, row, posted, opens, hasty, late>>

-----------------------------------------------------------------------------
(* Editing. *)

\* An entry of the search that has a row is refused.  Its element is now in
\* row, which is no variable of the function.
AddRow(t) ==
    /\ rows' = Append(rows, Row(t, serial, IF kind = "members" THEN {"member"}
                                           ELSE IF kind \in Assigning THEN {} ELSE {"listed"},
                                kind \in Assigning => offered))
    /\ serial' = serial + 1
AddMember(t) ==
    /\ kind = "members" /\ AddRow(t)
    /\ list' = Append(list, [id |-> t, role |-> "member"]) /\ UNCHANGED count
AddAssigned(t) ==
    /\ AddRow(t) /\ UNCHANGED list
    /\ count' = [count EXCEPT ![t] = IF @ \in {None, NaN} THEN 0 ELSE @]
AddUser(t) == kind = "users" /\ AddAssigned(t)
AddOrganization(t) == kind = "organizations" /\ AddAssigned(t)
AddAdministrator(t) == kind = "administrators" /\ AddRow(t) /\ UNCHANGED <<list, count>>
AddTrusted(t) == kind = "trusted" /\ AddRow(t) /\ UNCHANGED <<list, count>>

\* A fading that ends after the global row was set again ends elsewhere.
Waiting == fades \cap Numbers # {} /\ kind # "members"

Add(t) ==
    /\ Editing /\ serial <= MaxRows
    /\ row' = None
    /\ IF RowsOf(t) # {} THEN UNCHANGED <<rows, serial, list, count>>
       ELSE \/ AddMember(t) \/ AddUser(t) \/ AddOrganization(t)
            \/ AddAdministrator(t) \/ AddTrusted(t)
    /\ touched' = touched \cup {t}
    /\ hasty' = (hasty \/ Waiting)
    /\ UNCHANGED <<kind, open, answers, fades, offered, button, posted, opens, listed, late>>

RemoveMember(t) ==
    kind = "members" /\ list' = Without(OfThing(t)) /\ UNCHANGED count
RemoveUser(t) ==
    /\ kind = "users" /\ list' = Without(OfThing(t))
    /\ count' = [count EXCEPT ![t] = None]
RemoveOrganization(t) ==
    /\ kind = "organizations" /\ list' = Without(OfThing(t))
    /\ count' = [count EXCEPT ![t] = None]
RemoveAdministrator(t) == kind = "administrators" /\ UNCHANGED <<list, count>>
RemoveTrusted(t) == kind = "trusted" /\ UNCHANGED <<list, count>>
RemoveFrom(t) == \/ RemoveMember(t) \/ RemoveUser(t) \/ RemoveOrganization(t)
                 \/ RemoveAdministrator(t) \/ RemoveTrusted(t)

RemoveRow(i) ==
    /\ Editing /\ Displayed(i)
    /\ RemoveFrom(rows[i].id)
    /\ row' = rows[i].n /\ fades' = fades \cup {rows[i].n}
    /\ rows' = [rows EXCEPT ![i].look = "fading"]
    /\ touched' = touched \cup {rows[i].id}
    /\ hasty' = (hasty \/ Waiting \/ (answers # <<>> /\ kind \notin Posting))
    /\ UNCHANGED <<kind, open, answers, offered, button, posted, opens, serial, listed, late>>

\* The callback removes the element that row holds by now; the row that has
\* faded is not displayed, and is still there if it is another.
FadeEnd(n) ==
    /\ posted = None
    /\ fades' = fades \ {n}
    /\ LET left == SelectPositions(rows, {i \in DOMAIN rows : rows[i].n # row}) IN
       rows' = [i \in DOMAIN left |->
                  IF left[i].n = n THEN [left[i] EXCEPT !.look = "faded"] ELSE left[i]]
    /\ UNCHANGED <<kind, open, answers, list, count, row, offered, button, posted,
                   opens, serial, listed, touched, hasty, late>>

\* The filter sets the display of every row: of those of an id that it lets pass,
\* so that one that has faded is there again, and of the others.
Filter(S) ==
    /\ Editing /\ kind # "members"
    /\ rows' = [i \in DOMAIN rows |->
                  [rows[i] EXCEPT
                     !.look = IF @ = "faded" /\ rows[i].id \in S THEN "shown" ELSE @,
                     !.filtered = rows[i].id \notin S]]
    /\ rows' # rows
    /\ UNCHANGED <<kind, open, answers, list, count, fades, row, offered, button,
                   posted, opens, serial, listed, touched, hasty, late>>

\* Mutation: a member's entry that is replaced stays in the list as well.
RoleOfMemberBoth(i, x) ==
    LET t == rows[i].id
    IN  /\ kind = "members" /\ UNCHANGED count
        /\ list' = Append(list, [id |-> t, role |-> x])
        /\ rows' = [rows EXCEPT ![i].active = {x}, ![i].empty = FALSE]

\* splice(-1, 1) takes the last entry.
EntryOf(t) == {k \in DOMAIN list : list[k].id = t
                 /\ \A j \in 1..(k - 1) : list[j].id # t}
RoleOfMember(i, x) ==
    LET t == rows[i].id  k == EntryOf(t) IN
    /\ kind = "members" /\ UNCHANGED count
    /\ IF x \in rows[i].active
       THEN /\ rows' = [rows EXCEPT ![i].active = @ \ {x}, ![i].empty = TRUE]
            /\ list' = IF k # {} THEN RemoveAt(list, CHOOSE j \in k : TRUE)
                       ELSE SubSeq(list, 1, Len(list) - 1)
       ELSE /\ rows' = [rows EXCEPT ![i].active = {x}, ![i].empty = FALSE]
            /\ list' = IF k = {} THEN Append(list, [id |-> t, role |-> x])
                       ELSE [list EXCEPT ![CHOOSE j \in k : TRUE].role = x]
RoleAssigned(i, x) ==
    LET t == rows[i].id  e == [id |-> t, role |-> x] IN
    /\ IF x \in rows[i].active
       THEN /\ rows' = [rows EXCEPT ![i].active = @ \ {x}]
            /\ count' = [count EXCEPT ![t] = Plus(@, -1)]
            /\ list' = Without({e})
       ELSE /\ rows' = [rows EXCEPT ![i].active = @ \cup {x}]
            /\ count' = [count EXCEPT ![t] = Plus(@, 1)]
            /\ list' = Append(list, e)
RoleOfUser(i, x) == kind = "users" /\ RoleAssigned(i, x)
RoleOfOrganization(i, x) == kind = "organizations" /\ RoleAssigned(i, x)

Role(i, x) ==
    /\ Editing /\ Displayed(i) /\ rows[i].offers
    /\ RoleOfMember(i, x) \/ RoleOfUser(i, x) \/ RoleOfOrganization(i, x)
    /\ touched' = touched \cup {rows[i].id}
    /\ hasty' = (hasty \/ rows[i].look = "fading" \/ answers # <<>>)
    /\ UNCHANGED <<kind, open, answers, fades, row, offered, button, posted, opens,
                   serial, listed, late>>

-----------------------------------------------------------------------------
(* Submitting: a row without a role has to be confirmed. *)

FlagMembers == kind = "members" /\ UNCHANGED rows
Flagged == [i \in DOMAIN rows |->
              [rows[i] EXCEPT !.empty = @ \/ (count[rows[i].id] = 0
                                              /\ i = First(rows, rows[i].id))]]
FlagUsers == kind = "users" /\ rows' = Flagged
FlagOrganizations == kind = "organizations" /\ rows' = Flagged
FlagPosting == kind \in Posting /\ UNCHANGED rows

Submit ==
    /\ Editing
    /\ FlagMembers \/ FlagUsers \/ FlagOrganizations \/ FlagPosting
    /\ IF button = "Confirm" \/ \A i \in DOMAIN rows' : ~rows'[i].empty
       THEN /\ posted' = [what |-> IF kind \in Posting
                                   THEN {[id |-> rows[i].id, role |-> "listed"] :
                                           i \in DOMAIN rows}
                                   ELSE ToSet(list),
                          at |-> button]
            /\ UNCHANGED button
       ELSE button' = "Confirm" /\ UNCHANGED posted
    \* roles that were being edited when the dialog was left are still in list
    /\ hasty' = (hasty \/ (Waiting /\ kind \in Posting)
                       \/ (answers # <<>> /\ kind \in Assigning))
    /\ UNCHANGED <<kind, open, answers, list, count, fades, row, offered, opens,
                   serial, listed, touched, late>>

DialogNext ==
    \/ OpenAndAsk \/ OpenTrusted \/ Cancel \/ Submit
    \/ \E i \in DOMAIN answers : Arrive(i)
    \/ \E t \in Things : Add(t)
    \/ \E i \in DOMAIN rows : RemoveRow(i) \/ \E x \in Roles : Role(i, x)
    \/ \E n \in fades : FadeEnd(n)
    \/ \E S \in SUBSET Things : Filter(S)
DialogsSpec == DialogInit /\ [][DialogNext]_dialogVars

-----------------------------------------------------------------------------
\* The rows of the dialog, whether or not the filter lets them be seen, and the
\* roles of each: those that are marked in it or, if it has none that could be,
\* those that the server sent.
Present == {i \in DOMAIN rows : rows[i].look = "shown"}
RolesIn(i) ==
    IF rows[i].offers THEN rows[i].active
    ELSE IF listed # None /\ rows[i].id \in DOMAIN listed THEN listed[rows[i].id] ELSE {}
OfRows == UNION {{[id |-> rows[i].id, role |-> x] : x \in RolesIn(i)} : i \in Present}

\* Whoever saves a dialog gets what is in it: the list it posts is that of the
\* rows, those that the filter hides too, with the roles that are marked in them.
\* Only a row that was added before the roles of the application had come, which
\* has none to mark, posts what the server sent and the row does not show.  This
\* takes someone who does not change roles or remove while an answer is still
\* to come, does not click on a row that is fading away, nor anywhere else
\* before it is gone; and, of roles of applications, who has not closed the
\* dialog before its answer.  A row without a role is saved after a warning only.
PostedAsShown ==
    (posted # None /\ ~hasty) =>
        /\ (kind \in Assigning => ~late) => posted.what = OfRows
        /\ (~late /\ posted.at = "Save") => \A i \in Present : RolesIn(i) # {}

\* What nobody touched is saved as the server sent it: an addition or a
\* removal keeps everything else that was there.
UntouchedKept ==
    (posted # None /\ ~hasty /\ ~late /\ answers = <<>> /\ listed # None) =>
        \A t \in DOMAIN listed \ touched, x \in Roles :
           [id |-> t, role |-> x] \in posted.what <=> x \in listed[t]
=============================================================================
