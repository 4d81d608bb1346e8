------------------------------- MODULE Lists --------------------------------
(***************************************************************************)
(* The lists on Keyrock's pages, filled from the server by one script each *)
(* (src/fiware-idm/public/javascripts: handle_get_*.js, the *_navigation   *)
(* and search_available_* scripts) and paged by jquery.bootpag, and the    *)
(* controllers that answer them.                                           *)
(*                                                                         *)
(* Nothing numbers or cancels a request: the answer of one that was sent   *)
(* earlier may come later.  A pager drawn again keeps its handlers, so a   *)
(* click sends the same request once more for each drawing; their answers  *)
(* are equal and replace one another, and the model sends one.             *)
(***************************************************************************)
EXTENDS Integers, Sequences, FiniteSets, SequencesExt, Browser, Positions

CONSTANTS
    Items,     \* what lists are of
    Orgs,      \* the organizations of the select on the page of applications
    Tabs,      \* of {"provider", "purchaser", "other"} and {"owner", "member"}
    Texts,     \* what may be typed: the items whose name contains it
    PageSize,  \* 5
    MaxActs, MaxUnanswered \* bounds: what the user does, requests without answer

\* There is a select of organizations when the user is in one.
ASSUME ListsAssumption ==
    /\ IsFiniteSet(Items) /\ PageSize \in Nat \ {0} /\ Orgs # {}
    /\ IsFiniteSet(Tabs) /\ {"provider", "owner"} \subseteq Tabs

Paged == {"authorized_users", "authorized_organizations", "administrators", "members",
          "organization_applications", "user_applications", "user_organizations"}
Tabbed == {"my_applications", "applications_of_organization", "my_organizations"}
Searches == {"available_users", "available_organizations", "available_applications"}

VARIABLES
    script,     \* which of the scripts the page runs
    stored,     \* what the server has for each organization and tab
    organization, tab, \* the value of #select_org, the tab that is open
    view,       \* of each tab: rows, pages and page of the pager, the alert
                \* "nothing found", and data-loaded
    trusted,    \* trusted_applications and trusted_applications_filter
    unanswered, \* requests without answer, in the order they were sent
    typed, timer, \* the filter in its box; its timer runs
    astray, overlapped, acts \* history, of the properties below

listVars == <<script, stored, organization, tab, view, trusted, unanswered, typed,
              timer, astray, overlapped, acts>>

Everything == Items
Panes == DOMAIN view
FirstTab == IF script = "my_organizations" THEN "owner" ELSE "provider"
PanesOf(k) ==
    CASE k \in {"my_applications", "applications_of_organization"} -> Tabs \ {"owner", "member"}
      [] k = "my_organizations" -> Tabs \cap {"owner", "member"}
      [] OTHER -> {"provider"}

Pages(n) == (n + PageSize - 1) \div PageSize
PageOf(list, n) ==
    SubSeq(list, (n - 1) * PageSize + 1,
           IF n * PageSize < Len(list) THEN n * PageSize ELSE Len(list))
Like(list, f) == SelectPositions(list, {i \in DOMAIN list : list[i] \in f})

Blank == [rows |-> <<>>, total |-> 0, page |-> 1, alert |-> FALSE, loaded |-> FALSE]
ListRequest(what, p, n) ==
    [what |-> what, pane |-> p, organization |-> organization,
     key |-> IF what \in {"filter", "search"} THEN typed ELSE Everything, page |-> n]

\* What is stored are the first items, as many as there may be.
ListInit ==
    /\ script \in Paged \cup Tabbed \cup Searches \cup {"trusted_applications"}
    /\ view = [p \in PanesOf(script) |-> Blank]
    /\ \E n \in [(IF script = "applications_of_organization" THEN Orgs ELSE {None}) \X Panes
                 -> 0 .. Cardinality(Items)] :
          stored = [x \in DOMAIN n |-> SubSeq(SetToSeq(Items), 1, n[x])]
    /\ organization = IF script = "applications_of_organization"
                        THEN CHOOSE o \in Orgs : TRUE ELSE None
    /\ tab = FirstTab
    /\ trusted = [all |-> <<>>, filter |-> <<>>]
    /\ typed = Everything /\ timer = FALSE
    /\ unanswered = IF script \in Searches THEN <<>> ELSE <<ListRequest("load", FirstTab, 1)>>
    /\ astray = FALSE /\ overlapped = FALSE /\ acts = 0

-----------------------------------------------------------------------------
(* What the server answers. *)

StoredFor(r) == stored[r.organization, r.pane]

\* Mutation: the rows of the page are counted.
search_distinctOfPage(list, counted, n) ==
    [rows |-> PageOf(list, n), count |-> Len(PageOf(list, n))]
\* The count is a column of the rows, and 0 when there are none; it does not
\* look at the role that is asked for, so that counted may be more than list.
search_distinct(list, counted, n) ==
    [rows |-> PageOf(list, n), count |-> IF PageOf(list, n) = <<>> THEN 0 ELSE counted]
findAndCountAll(list, n) == [rows |-> PageOf(list, n), count |-> Len(list)]

Distinct(r) ==
    LET found == Like(StoredFor(r), r.key) IN search_distinct(found, Len(found), r.page)
authorized_users(r) == Distinct(r)
authorized_organizations(r) == Distinct(r)
get_applications(r) == Distinct(r)
users_get_applications(r) == Distinct(r)
users_get_organizations(r) == Distinct(r)
get_members(r) == findAndCountAll(Like(StoredFor(r), r.key), r.page)
admin_users(r) == findAndCountAll(Like(StoredFor(r), r.key), r.page)

\* Each item has one role here: it is in one of the tabs.
OfAnyRole(o) == Cardinality(UNION {{p} \X DOMAIN stored[o, p] : p \in Panes})
filter_user(r) == search_distinct(StoredFor(r), OfAnyRole(None), r.page)
filter_organization(r) == search_distinct(StoredFor(r), OfAnyRole(r.organization), r.page)
index(r) == findAndCountAll(StoredFor(r), 1)
filter_mine(r) == [rows |-> PageOf(StoredFor(r), r.page), count |-> None]

\* All of them: the page cuts them up.
get_trusted_applications(r) == [rows |-> StoredFor(r), count |-> None]
Available(r) == [rows |-> Like(StoredFor(r), r.key), count |-> None]
available_users(r) == Available(r)
available_organizations(r) == Available(r)
available_applications(r) == Available(r)

Reply(r) ==
    CASE script = "authorized_users" -> authorized_users(r)
      [] script = "authorized_organizations" -> authorized_organizations(r)
      [] script = "administrators" -> admin_users(r)
      [] script = "members" -> get_members(r)
      [] script = "organization_applications" -> get_applications(r)
      [] script = "user_applications" -> users_get_applications(r)
      [] script = "user_organizations" -> users_get_organizations(r)
      [] script = "my_applications" -> filter_user(r)
      [] script = "applications_of_organization" -> filter_organization(r)
      [] script = "my_organizations" -> IF r.what = "load" THEN index(r) ELSE filter_mine(r)
      [] script = "trusted_applications" -> get_trusted_applications(r)
      [] script = "available_users" -> available_users(r)
      [] script = "available_organizations" -> available_organizations(r)
      [] OTHER -> available_applications(r)

-----------------------------------------------------------------------------
(* What every script does. *)

\* bootpag does nothing at all when there are no pages.
Pager(v, count) ==
    IF count = 0 THEN v ELSE [v EXCEPT !.total = Pages(count), !.page = 1]

MayAct == acts < MaxActs /\ acts' = acts + 1
Send(r) ==
    /\ Len(unanswered) < MaxUnanswered
    /\ unanswered' = Append(unanswered, r)
    /\ overlapped' = (overlapped \/ \E i \in DOMAIN unanswered : unanswered[i].pane = r.pane)

\* Any of the requests is answered next.
Answered(r) ==
    \E i \in DOMAIN unanswered : r = unanswered[i] /\ unanswered' = RemoveAt(unanswered, i)

\* An item of the pager that is not the page it is on.
OtherPage(p, n) == n \in 1 .. view[p].total /\ n # view[p].page

Type ==
    /\ MayAct /\ typed' \in Texts \cup {Everything} /\ typed' # typed
    /\ timer' = TRUE
    /\ UNCHANGED <<script, stored, organization, tab, view, unanswered, astray, overlapped>>
TimerRuns == timer /\ timer' = FALSE

-----------------------------------------------------------------------------
(* The lists with a filter that the server applies. *)

Load(v, d) ==
    IF d.rows # <<>> THEN [Pager(v, d.count) EXCEPT !.rows = @ \o d.rows]
                     ELSE [v EXCEPT !.alert = TRUE]
\* Mutation: the rows of before are left above the new ones.
FilteredAdding(v, d) ==
    IF d.rows # <<>> THEN [Pager(v, d.count) EXCEPT !.rows = @ \o d.rows, !.alert = FALSE]
                     ELSE [v EXCEPT !.rows = <<>>, !.total = 0, !.alert = TRUE]
\* Of the pager only the drawing is emptied.
Filtered(v, d) ==
    IF d.rows # <<>> THEN [Pager(v, d.count) EXCEPT !.rows = d.rows, !.alert = FALSE]
                     ELSE [v EXCEPT !.rows = <<>>, !.total = 0, !.alert = TRUE]
Turned(v, d) == [v EXCEPT !.rows = d.rows, !.alert = FALSE]

send_filter_request ==
    /\ TimerRuns /\ Send(ListRequest("filter", "provider", 1))
    /\ UNCHANGED <<script, stored, organization, tab, view, trusted, typed, astray, acts>>
\* The page is asked for without the filter.
TurnPage ==
    /\ MayAct
    /\ \E n \in 1 .. view["provider"].total :
          /\ OtherPage("provider", n)
          /\ view' = [view EXCEPT !["provider"].page = n]
          /\ Send(ListRequest("page", "provider", n))
    /\ astray' = (astray \/ typed # Everything \/ timer)
    /\ UNCHANGED <<script, stored, organization, tab, trusted, typed, timer>>
PagedAnswer ==
    /\ \E r \in ToSet(unanswered) :
          /\ Answered(r)
          /\ view' = [view EXCEPT !["provider"] =
                        CASE r.what = "load" -> Load(@, Reply(r))
                          [] r.what = "filter" -> Filtered(@, Reply(r))
                          [] OTHER -> Turned(@, Reply(r))]
          /\ astray' = (astray /\ r.what # "filter")
    /\ UNCHANGED <<script, stored, organization, tab, trusted, typed, timer, overlapped, acts>>
PagedList ==
    \/ Type /\ UNCHANGED trusted
    \/ send_filter_request
    \/ TurnPage
    \/ PagedAnswer

AuthorizedUsers == script = "authorized_users" /\ PagedList
AuthorizedOrganizations == script = "authorized_organizations" /\ PagedList
Administrators == script = "administrators" /\ PagedList
Members == script = "members" /\ PagedList
OrganizationApplications == script = "organization_applications" /\ PagedList
UserApplications == script = "user_applications" /\ PagedList
UserOrganizations == script = "user_organizations" /\ PagedList

-----------------------------------------------------------------------------
(* The lists with tabs. *)

\* The alert of the lists of one's own is inside the table and goes with its rows.
WithRows(v, d) ==
    IF d.rows # <<>>
      THEN [v EXCEPT !.rows = @ \o d.rows,
                     !.alert = @ /\ script # "applications_of_organization"]
      ELSE [v EXCEPT !.alert = TRUE]
Opened(v, d) == [WithRows(Pager(v, d.count), d) EXCEPT !.loaded = TRUE]
PageTurned(v, d) ==
    IF script = "applications_of_organization"
      THEN WithRows([v EXCEPT !.rows = <<>>], d)
      ELSE [v EXCEPT !.rows = d.rows, !.alert = FALSE]

OpenTab(p) ==
    /\ MayAct /\ tab' = p
    /\ IF view[p].loaded THEN p # tab /\ UNCHANGED <<unanswered, overlapped>>
                         ELSE Send(ListRequest("load", p, 1))
    /\ UNCHANGED <<script, stored, organization, view, trusted, typed, timer, astray>>
TurnPageOf(p) ==
    /\ MayAct /\ p = tab
    /\ \E n \in 1 .. view[p].total :
          /\ OtherPage(p, n)
          /\ view' = [view EXCEPT ![p].page = n]
          /\ Send(ListRequest("page", p, n))
    /\ UNCHANGED <<script, stored, organization, tab, trusted, typed, timer, astray>>
TabAnswer ==
    /\ \E r \in ToSet(unanswered) :
          /\ Answered(r)
          /\ view' = [view EXCEPT ![r.pane] =
                        IF r.what = "load" THEN Opened(@, Reply(r)) ELSE PageTurned(@, Reply(r))]
    /\ UNCHANGED <<script, stored, organization, tab, trusted, typed, timer, astray, overlapped,
                   acts>>
TabbedList == (\E p \in Panes : OpenTab(p) \/ TurnPageOf(p)) \/ TabAnswer

MyApplications == script = "my_applications" /\ TabbedList
MyOrganizations == script = "my_organizations" /\ TabbedList

\* The pagers stay as they are.
Cleared(v) == [v EXCEPT !.rows = <<>>, !.alert = FALSE, !.loaded = FALSE]
SelectOrganization(o) ==
    /\ MayAct /\ o # organization /\ organization' = o /\ tab' = FirstTab
    /\ view' = [p \in Panes |-> Cleared(view[p])]
    /\ Len(unanswered) < MaxUnanswered
    /\ unanswered' = Append(unanswered, [ListRequest("load", FirstTab, 1) EXCEPT !.organization = o])
    /\ overlapped' = (overlapped \/ unanswered # <<>>)
    /\ UNCHANGED <<script, stored, trusted, typed, timer, astray>>
ApplicationsOfOrganization ==
    /\ script = "applications_of_organization"
    /\ TabbedList \/ \E o \in Orgs : SelectOrganization(o)

-----------------------------------------------------------------------------
(* The trusted applications, all of which are on the page. *)

LoadTrusted ==
    /\ \E r \in ToSet(unanswered) :
          /\ Answered(r)
          /\ trusted' = [trusted EXCEPT !.all = Reply(r).rows]
          /\ view' = [view EXCEPT !["provider"] =
                        IF Reply(r).rows = <<>> THEN [@ EXCEPT !.alert = TRUE]
                        ELSE [Pager(@, Len(Reply(r).rows)) EXCEPT
                                !.rows = PageOf(Reply(r).rows, 1)]]
    /\ overlapped' = (overlapped \/ (typed # Everything /\ ~timer))
    /\ UNCHANGED <<script, stored, organization, tab, typed, timer, astray, acts>>
\* The filtered ones are forgotten at the key, and found when the timer runs.
TypeTrusted == Type /\ trusted' = [trusted EXCEPT !.filter = <<>>]
FilterTrusted ==
    LET found == Like(trusted.all, typed) IN
    /\ TimerRuns
    /\ trusted' = [trusted EXCEPT !.filter = found]
    /\ view' = [view EXCEPT !["provider"] =
                  Pager([@ EXCEPT !.rows = PageOf(found, 1)], Len(found))]
    /\ astray' = FALSE
    /\ UNCHANGED <<script, stored, organization, tab, unanswered, typed, overlapped, acts>>
\* Of all of them when the filter found none, whose pager is still there.
TurnTrusted ==
    /\ MayAct
    /\ \E n \in 1 .. view["provider"].total :
          /\ OtherPage("provider", n)
          /\ view' = [view EXCEPT !["provider"] =
                        [@ EXCEPT !.page = n,
                                  !.rows = PageOf(IF trusted.filter = <<>> THEN trusted.all
                                                  ELSE trusted.filter, n)]]
    /\ astray' = (astray \/ (trusted.filter = <<>> /\ typed # Everything))
    /\ UNCHANGED <<script, stored, organization, tab, trusted, unanswered, typed, timer, overlapped>>
TrustedApplications ==
    /\ script = "trusted_applications"
    /\ LoadTrusted \/ TypeTrusted \/ FilterTrusted \/ TurnTrusted

-----------------------------------------------------------------------------
(* What may be added to a list, in its dialog. *)

\* Everything stands for less than two characters, for which nothing is asked.
Search ==
    /\ TimerRuns
    /\ view' = [view EXCEPT !["provider"] = [@ EXCEPT !.rows = <<>>, !.alert = FALSE]]
    /\ IF typed # Everything THEN Send(ListRequest("search", "provider", 1))
       ELSE unanswered' = unanswered /\ overlapped' = (overlapped \/ unanswered # <<>>)
    /\ UNCHANGED <<script, stored, organization, tab, trusted, typed, astray, acts>>
FoundBelow(v, d) ==
    IF d.rows = <<>> THEN [v EXCEPT !.alert = TRUE] ELSE [v EXCEPT !.rows = @ \o d.rows]
Found ==
    /\ \E r \in ToSet(unanswered) :
          /\ Answered(r)
          /\ view' = [view EXCEPT !["provider"] = FoundBelow(@, Reply(r))]
    /\ UNCHANGED <<script, stored, organization, tab, trusted, typed, timer, astray, overlapped,
                   acts>>
SearchList == (Type /\ UNCHANGED trusted) \/ Search \/ Found
SearchUsers == script = "available_users" /\ SearchList
SearchOrganizations == script = "available_organizations" /\ SearchList
SearchApplications == script = "available_applications" /\ SearchList

ListNext ==
    \/ AuthorizedUsers \/ AuthorizedOrganizations \/ Administrators \/ Members
    \/ OrganizationApplications \/ UserApplications \/ UserOrganizations
    \/ MyApplications \/ ApplicationsOfOrganization \/ MyOrganizations
    \/ TrustedApplications
    \/ SearchUsers \/ SearchOrganizations \/ SearchApplications
ListsSpec == ListInit /\ [][ListNext]_listVars

-----------------------------------------------------------------------------
(* Properties, of a page that waits for nothing and never had two requests
   for one list on their way at a time. *)

AtRest == unanswered = <<>> /\ ~timer /\ ~overlapped
Wanted(p) ==
    LET list == stored[organization, p] IN
    CASE script \in Searches -> IF typed = Everything THEN <<>> ELSE Like(list, typed)
      [] script \in Tabbed -> IF view[p].loaded THEN PageOf(list, view[p].page) ELSE <<>>
      [] script = "trusted_applications" /\ Like(list, typed) = <<>> -> <<>>
      [] OTHER -> PageOf(Like(list, typed), view[p].page)

\* A list shows what its filter, its page and the organization ask for, and
\* nothing of what they asked for before, unless its page was turned where the
\* script forgets the filter; and "nothing was found" is not said above rows.
ShownAgrees ==
    AtRest => \A p \in Panes : /\ ~astray => view[p].rows = Wanted(p)
                               /\ view[p].alert => view[p].rows = <<>>

\* The pager has a page for everything that is found, also where its count
\* comes with the rows of one page.
Reachable ==
    AtRest /\ script \notin Searches =>
        \A p \in Panes :
           view[p].loaded \/ script \notin Tabbed =>
              Len(Like(stored[organization, p], typed)) <= view[p].total * PageSize
=============================================================================
