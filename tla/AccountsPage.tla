---------------------------- MODULE AccountsPage ----------------------------
(***************************************************************************)
(* The page where an administrator manages the accounts                    *)
(* (src/fiware-idm/public/javascripts/admin/list_users: index.js,          *)
(* event_manager.js, ui_manager.js) and the handlers that it calls         *)
(* (controllers/web/list_users.js).                                        *)
(*                                                                         *)
(* The page keeps all the accounts in the array users, those that pass the *)
(* filter in users_filter and those that are chosen in users_selected, and *)
(* shows some of them as rows.  An answer finds what it is about in what   *)
(* the page holds when it arrives.  Of an account there is a name, which   *)
(* stands for its address too, and whether it is enabled.                  *)
(***************************************************************************)
EXTENDS Integers, Sequences, FiniteSets, SequencesExt, Functions, Positions,
        Browser

CONSTANTS
    Users, Names,
    Refused,   \* names whose address the list of domains does not let pass
    Filters,   \* what is typed into the filter; a name, or Everyone
    Everyone,  \* the empty filter
    Sizes,     \* rows of a page that may be chosen
    MaxFlight, MaxAsked \* bounds: requests at once, requests in all

ASSUME AccountsPageAssumption ==
    /\ IsFiniteSet(Users) /\ None \notin Users
    /\ None \notin {"done", "fail", "refused"}
    /\ Sizes \subseteq Nat \ {0}

VARIABLES
    accounts, \* the table of the server
    users, entry,   \* the array: the ids in order, and what it says of each
    users_filter, users_selected, users_per_page,
    filter, typing, \* the text of the filter, and whether its timer runs
    table, checked, all, \* the rows, those ticked, the tick of check_all
    dialog, id_user_selected,
    flight,  \* requests that were sent and not answered
    careless, repeated, tired, asked \* history, of the properties below

accountsVars == <<accounts, users, entry, users_filter, users_selected,
                  users_per_page, filter, typing, table, checked, all, dialog,
                  id_user_selected, flight,
                  careless, repeated, tired, asked>>
tableVars == <<table, checked, all>>
pageVars == <<users, entry, users_filter, users_selected, users_per_page, filter,
              typing>>
historyVars == <<careless, repeated, tired, asked>>

Slice(s, n, size) == SubSeq(s, size * (n - 1) + 1,
                            IF size * n < Len(s) THEN size * n ELSE Len(s))
Passes(n, f) == f = Everyone \/ n = f
WithRecord(f, u, r) == [x \in DOMAIN f \cup {u} |-> IF x = u THEN r ELSE f[x]]

AccountsInit ==
    /\ \E U \in SUBSET Users : accounts \in [U -> [name : Names \ Refused, enabled : {TRUE}]]
    /\ users = SetToSeq(DOMAIN accounts) /\ entry = accounts
    /\ users_filter = <<>> /\ users_selected = <<>> /\ users_per_page \in Sizes
    /\ filter = Everyone /\ typing = FALSE
    /\ table = Slice(users, 1, users_per_page) /\ checked = {} /\ all = FALSE
    /\ dialog = None /\ id_user_selected = None /\ flight = {}
    /\ careless = FALSE /\ repeated = FALSE /\ tired = FALSE /\ asked = 0

-----------------------------------------------------------------------------
(* Rows. *)

\* The tick of check_all is set, and never cleared, when rows are made.
RenderRows(s, selected) ==
    /\ table' = s
    /\ checked' = ToSet(s) \cap ToSet(selected)
    /\ all' = (all \/ (s # <<>> /\ ToSet(s) \subseteq ToSet(selected)))
UsersListed(us, fs) == IF fs = <<>> THEN us ELSE fs

ChangeEntries ==
    /\ dialog = None /\ users_per_page' \in Sizes \ {users_per_page}
    /\ RenderRows(Slice(users, 1, users_per_page'), users_selected)
    /\ UNCHANGED <<accounts, users, entry, users_filter, users_selected, filter,
                   typing, dialog, id_user_selected, flight, historyVars>>
\* The pages there are follow from an earlier number of users.
TurnTable(n) ==
    /\ dialog = None
    /\ LET s == Slice(UsersListed(users, users_filter), n, users_per_page) IN
       /\ table' = s /\ checked' = ToSet(s) \cap ToSet(users_selected)
       /\ all' = (s # <<>> /\ ToSet(s) \subseteq ToSet(users_selected))
    /\ UNCHANGED <<accounts, pageVars, dialog, id_user_selected, flight, historyVars>>

FilterTyped(f) ==
    /\ dialog = None /\ filter' = f /\ f # filter
    /\ users_filter' = <<>> /\ typing' = TRUE
    /\ UNCHANGED <<accounts, users, entry, users_selected, users_per_page, tableVars,
                   dialog, id_user_selected, flight, historyVars>>
FilterUsers ==
    /\ typing /\ typing' = FALSE
    \* what matches is added to what may have been added in the meantime
    /\ users_filter' = users_filter \o
          SelectPositions(users, {i \in DOMAIN users : Passes(entry[users[i]].name, filter)})
    /\ RenderRows(Slice(users_filter', 1, users_per_page), users_selected)
    /\ UNCHANGED <<accounts, users, entry, users_selected, users_per_page, filter,
                   dialog, id_user_selected, flight, historyVars>>

-----------------------------------------------------------------------------
(* Choosing. *)

Unselect(s, u) == IF u \in ToSet(s) THEN RemoveFirst(s, u) ELSE s
\* Each of xs is added that is not there, and removed once for each time it is
\* in xs.
SelectEach(s, xs) ==
    s \o SelectPositions(xs, {i \in DOMAIN xs : /\ xs[i] \notin ToSet(s)
                                                /\ \A j \in 1..(i - 1) : xs[j] # xs[i]})
UnselectEach(s, xs) ==
    LET times(x) == Cardinality({k \in DOMAIN xs : xs[k] = x})
        before(i) == Cardinality({j \in 1..(i - 1) : s[j] = s[i]})
    IN  SelectPositions(s, {i \in DOMAIN s : before(i) >= times(s[i])})
ChangeCheck(u) ==
    /\ dialog = None /\ u \in ToSet(table)
    /\ IF u \in checked
       THEN /\ checked' = checked \ {u}
            /\ users_selected' = Unselect(users_selected, u)
       ELSE /\ checked' = checked \cup {u}
            /\ users_selected' = Append(users_selected, u)
    /\ UNCHANGED <<accounts, users, entry, users_filter, users_per_page, filter, typing,
                   table, all, dialog, id_user_selected, flight, historyVars>>

\* Mutation: every row is added, those that are selected already too.
ChangeCheckAllAgain ==
    /\ dialog = None /\ all' = ~all
    /\ IF all' THEN users_selected' = users_selected \o table /\ checked' = ToSet(table)
       ELSE /\ users_selected' = UnselectEach(users_selected, table)
            /\ checked' = IF ToSet(table) \cap ToSet(users_selected) # {} THEN {} ELSE checked
    /\ UNCHANGED <<accounts, users, entry, users_filter, users_per_page, filter, typing,
                   table, dialog, id_user_selected, flight, historyVars>>
\* The ticks of the page change with the first row that has to change.
ChangeCheckAll ==
    /\ dialog = None /\ all' = ~all
    /\ LET in == ToSet(table) \cap ToSet(users_selected) IN
       IF all'
       THEN /\ users_selected' = SelectEach(users_selected, table)
            /\ checked' = IF in # ToSet(table) THEN ToSet(table) ELSE checked
       ELSE /\ users_selected' = UnselectEach(users_selected, table)
            /\ checked' = IF in # {} THEN {} ELSE checked
    /\ UNCHANGED <<accounts, users, entry, users_filter, users_per_page, filter, typing,
                   table, dialog, id_user_selected, flight, historyVars>>

-----------------------------------------------------------------------------
(* Dialogs.  They can be closed while their request is on its way, and are *)
(* closed by an answer that says it was done.  Nothing holds their buttons *)
(* until then: a request may be sent again, and each has a number nr.      *)

Request(q) ==
    /\ Cardinality(flight) < MaxFlight /\ asked < MaxAsked
    /\ flight' = flight \cup {q} /\ asked' = asked + 1
Sent(kind, u) == [kind |-> kind, who |-> u, name |-> None, enabled |-> FALSE,
                  all |-> {}, answer |-> None, nr |-> asked]
Again(kind, u) == \E q \in flight : q.kind = kind /\ (kind = "enable" => q.who = u)
Repeats(kind, u) == repeated' = (repeated \/ Again(kind, u)) /\ UNCHANGED <<careless, tired>>

OpenUser(kind, u) ==
    /\ kind \in {"edit", "password"} /\ dialog = None
    /\ u \in ToSet(table) \cap ToSet(users)
    /\ dialog' = [kind |-> kind, who |-> u] /\ id_user_selected' = u
    /\ UNCHANGED <<accounts, pageVars, tableVars, flight, historyVars>>
OpenCreate ==
    /\ dialog = None /\ dialog' = [kind |-> "create", who |-> None]
    /\ UNCHANGED <<accounts, pageVars, tableVars, id_user_selected, flight, historyVars>>
OpenDelete ==
    /\ dialog = None /\ users_selected # <<>>
    /\ dialog' = [kind |-> "delete", who |-> None]
    /\ UNCHANGED <<accounts, pageVars, tableVars, id_user_selected, flight, historyVars>>
Closed == /\ dialog' = None
          /\ id_user_selected' = IF dialog # None /\ dialog.kind \in {"edit", "password"}
                                 THEN None ELSE id_user_selected
CloseDialog ==
    /\ dialog # None /\ Closed
    /\ careless' = (careless \/ \E q \in flight : q.kind = dialog.kind)
    /\ UNCHANGED <<accounts, pageVars, tableVars, flight, repeated, tired, asked>>

SubmitEdit(n) ==
    /\ dialog # None /\ dialog.kind = "edit"
    /\ Request([Sent("edit", dialog.who) EXCEPT !.name = n]) /\ Repeats("edit", None)
    /\ UNCHANGED <<accounts, pageVars, tableVars, dialog, id_user_selected>>
SubmitPassword ==
    /\ dialog # None /\ dialog.kind = "password"
    /\ Request(Sent("password", dialog.who))
    /\ UNCHANGED <<accounts, pageVars, tableVars, dialog, id_user_selected, careless,
                   repeated, tired>>
SubmitCreate(u, n, on) ==
    /\ dialog # None /\ dialog.kind = "create"
    \* an identifier of its own, that nothing has been asked about
    /\ u \in Users \ DOMAIN accounts /\ u \notin ToSet(users)
    /\ \A q \in flight : q.who # u
    /\ Request([Sent("create", u) EXCEPT !.name = n, !.enabled = on])
    /\ Repeats("create", None)
    /\ UNCHANGED <<accounts, pageVars, tableVars, dialog, id_user_selected>>
SubmitDelete ==
    /\ dialog # None /\ dialog.kind = "delete"
    /\ Request([Sent("delete", None) EXCEPT !.all = ToSet(users_selected)])
    /\ Repeats("delete", None)
    /\ UNCHANGED <<accounts, pageVars, tableVars, dialog, id_user_selected>>
SubmitEnable(u) ==
    /\ dialog = None /\ u \in ToSet(table) \cap ToSet(users)
    /\ Request([Sent("enable", u) EXCEPT !.enabled = ~entry[u].enabled])
    /\ Repeats("enable", u)
    /\ UNCHANGED <<accounts, pageVars, tableVars, dialog, id_user_selected>>

-----------------------------------------------------------------------------
(* The handlers.  An address that is refused is answered and then treated  *)
(* as any other; the second answer is lost.                                *)

Answer(q, a) == flight' = (flight \ {q}) \cup {[q EXCEPT !.answer = a]}
Told(q) == IF q.name \in Refused THEN "refused" ELSE "done"

\* Mutation: the account is written with the opposite of enabled.
CreateUserOff(q) ==
    /\ q.kind = "create" /\ Answer(q, Told(q))
    /\ accounts' = WithRecord(accounts, q.who, [name |-> q.name, enabled |-> ~q.enabled])
CreateUser(q) ==
    /\ q.kind = "create" /\ Answer(q, Told(q))
    /\ accounts' = WithRecord(accounts, q.who, [name |-> q.name, enabled |-> q.enabled])
EditInfo(q) ==
    /\ q.kind = "edit" /\ q.who \in DOMAIN accounts /\ Answer(q, Told(q))
    /\ accounts' = [accounts EXCEPT ![q.who].name = q.name]
ChangePassword(q) ==
    /\ q.kind = "password" /\ Answer(q, "done") /\ UNCHANGED accounts
Enable(q) ==
    /\ q.kind = "enable" /\ q.who \in DOMAIN accounts /\ Answer(q, "done")
    /\ accounts' = [accounts EXCEPT ![q.who].enabled = q.enabled]
\* The rows go before the files of their images; a file that does not go
\* makes it a failure.
DeleteUsers(q) ==
    /\ q.kind = "delete"
    /\ accounts' = Restrict(accounts, DOMAIN accounts \ q.all)
    /\ Answer(q, "done") \/ Answer(q, "fail")
\* A validation that fails, or the database.
Rejected(q) == Answer(q, "fail") /\ UNCHANGED accounts

Serve(q) ==
    /\ q \in flight /\ q.answer = None
    /\ \/ /\ CreateUser(q) \/ EditInfo(q) \/ ChangePassword(q) \/ Enable(q)
             \/ DeleteUsers(q)
          /\ careless' = (careless \/ (q.kind = "delete"
                                       /\ [q EXCEPT !.answer = "fail"] \in flight'))
       \/ Rejected(q) /\ UNCHANGED careless
    /\ UNCHANGED <<pageVars, tableVars, dialog, id_user_selected, repeated, tired, asked>>

-----------------------------------------------------------------------------
(* The answers. *)

Got(q, a) == q \in flight /\ q.answer = a /\ flight' = flight \ {q}

\* The entry is that of the user whose dialog is open by now.  If there is
\* none, as an answer before has closed it, or no user in the answer, the
\* function throws.
EditDone(q) ==
    /\ q.kind = "edit" /\ Got(q, "done")
    /\ IF id_user_selected \in ToSet(users)
       THEN /\ entry' = [entry EXCEPT ![id_user_selected].name = q.name]
            /\ IF dialog.kind = "edit" THEN Closed ELSE UNCHANGED <<dialog, id_user_selected>>
       ELSE UNCHANGED <<entry, dialog, id_user_selected>>
    /\ UNCHANGED <<accounts, users, users_filter, users_selected, users_per_page, filter,
                   typing, tableVars, historyVars>>
PasswordDone(q) ==
    /\ q.kind = "password" /\ Got(q, "done")
    /\ IF dialog # None /\ dialog.kind = "password" THEN Closed
       ELSE UNCHANGED <<dialog, id_user_selected>>
    /\ UNCHANGED <<accounts, pageVars, tableVars, historyVars>>
EnableDone(q) ==
    /\ q.kind = "enable" /\ Got(q, "done")
    /\ entry' = IF q.who \in ToSet(users) THEN [entry EXCEPT ![q.who].enabled = q.enabled]
                ELSE entry
    /\ UNCHANGED <<accounts, users, users_filter, users_selected, users_per_page, filter,
                   typing, tableVars, dialog, id_user_selected, historyVars>>
CreateDone(q) ==
    /\ q.kind = "create" /\ Got(q, "done")
    /\ users' = Append(users, q.who)
    /\ entry' = WithRecord(entry, q.who, [name |-> q.name, enabled |-> q.enabled])
    /\ users_filter' = IF filter # Everyone /\ Passes(q.name, filter)
                       THEN Append(users_filter, q.who) ELSE users_filter
    /\ RenderRows(Slice(UsersListed(users', users_filter'), 1, users_per_page), users_selected)
    /\ IF dialog # None /\ dialog.kind = "create" THEN Closed
       ELSE UNCHANGED <<dialog, id_user_selected>>
    /\ UNCHANGED <<accounts, users_selected, users_per_page, filter, typing, historyVars>>
\* Those selected by now go from the arrays, and every tick from the page.
\* One that is in users_filter twice is taken out once: its row stays.
DeleteDone(q) ==
    LET gone == ToSet(users) \cap ToSet(users_selected) IN
    /\ q.kind = "delete" /\ Got(q, "done")
    /\ users' = Omit(users, gone) /\ entry' = Restrict(entry, ToSet(users'))
    /\ users_filter' = UnselectEach(users_filter, SetToSeq(gone))
    /\ tired' = (tired \/ ToSet(users_filter') \cap gone # {})
    /\ users_selected' = UnselectEach(users_selected, SetToSeq(gone))
    /\ table' = Slice(UsersListed(users', users_filter'), 1, users_per_page)
    /\ checked' = {} /\ all' = FALSE
    /\ filter' = IF users_filter' = <<>> THEN Everyone ELSE filter
    /\ IF dialog # None /\ dialog.kind = "delete" THEN Closed
       ELSE UNCHANGED <<dialog, id_user_selected>>
    /\ UNCHANGED <<accounts, users_per_page, typing, careless, repeated, asked>>
\* The ticks go, and the selection stays.
DeleteFailed(q) ==
    /\ q.kind = "delete" /\ Got(q, "fail")
    /\ table' = Slice(UsersListed(users, users_filter), 1, users_per_page)
    /\ checked' = {} /\ all' = FALSE
    /\ tired' = TRUE
    /\ UNCHANGED <<accounts, pageVars, dialog, id_user_selected, careless, repeated, asked>>
Failed(q) ==
    /\ q.kind # "delete" /\ Got(q, "fail")
    /\ UNCHANGED <<accounts, pageVars, tableVars, dialog, id_user_selected, historyVars>>
\* "User creation failed." comes as an answer that it was done: it is taken
\* for the new user, or for one that has been edited.
RefusedDone(q) ==
    /\ Got(q, "refused") /\ careless' = TRUE
    /\ IF q.kind = "create"
       THEN /\ users' = Append(users, None)
            /\ entry' = WithRecord(entry, None, [name |-> None, enabled |-> FALSE])
       ELSE UNCHANGED <<users, entry>>
    /\ UNCHANGED <<accounts, users_filter, users_selected, users_per_page, filter, typing,
                   tableVars, dialog, id_user_selected, repeated, tired, asked>>

AccountsNext ==
    \/ ChangeEntries \/ FilterUsers \/ ChangeCheckAll
    \/ OpenCreate \/ OpenDelete \/ CloseDialog
    \/ SubmitPassword \/ SubmitDelete
    \/ \E n \in 1..Cardinality(Users) : TurnTable(n)
    \/ \E f \in Filters : FilterTyped(f)
    \/ \E u \in Users : \/ ChangeCheck(u) \/ SubmitEnable(u)
                        \/ \E k \in {"edit", "password"} : OpenUser(k, u)
                        \/ \E n \in Names, on \in BOOLEAN : SubmitCreate(u, n, on)
    \/ \E n \in Names : SubmitEdit(n)
    \/ \E q \in flight : \/ Serve(q)
                         \/ EditDone(q) \/ PasswordDone(q) \/ EnableDone(q)
                         \/ CreateDone(q) \/ DeleteDone(q) \/ DeleteFailed(q)
                         \/ Failed(q) \/ RefusedDone(q)
AccountsPageSpec == AccountsInit /\ [][AccountsNext]_accountsVars

-----------------------------------------------------------------------------
\* With nothing on its way, the page says of the accounts what the server
\* says: the same ones, each once, with the same names and the same of them
\* enabled.  This takes an administrator who leaves no dialog before its
\* answer and sends nothing a second time before the answer, no address that
\* is refused, and images that can be deleted.
ListAgrees ==
    (flight = {} /\ ~careless /\ ~repeated) =>
        entry = accounts /\ ToSet(users) = DOMAIN accounts /\ IsInjective(users)

\* The rows that are ticked are those that a deletion will take, each once:
\* until a deletion has failed or left the row of an account that is gone, a
\* row is ticked exactly when it is selected.
TicksAgree ==
    (~careless /\ ~tired) =>
        /\ checked = ToSet(table) \cap ToSet(users_selected)
        /\ IsInjective(users_selected) /\ ToSet(users_selected) \subseteq ToSet(users)

\* "Valid email domains that can register in Keyrock": no account has an
\* address that the list of domains refuses.
RefusedNotRegistered == \A u \in DOMAIN accounts : accounts[u].name \notin Refused
=============================================================================
