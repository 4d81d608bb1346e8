----------------------------- MODULE MCBrowser -------------------------------
(* One script of the pages at a time: part says which of the four modules    *)
(* moves, while the others stay in an initial state.  The properties are     *)
(* those of the modules.                                                     *)
EXTENDS Dialogs, RolesPage, AccountsPage, Lists

CONSTANT Parts
VARIABLE part

allVars == <<part, dialogVars, rolesVars, accountsVars, listVars>>

BrowserInit ==
    /\ part \in Parts
    /\ DialogInit /\ (part = "dialogs" \/ (kind = "members" /\ ~offered))
    /\ RolesInit /\ (part = "roles" \/ (db.roles = Ids /\ db.permissions = {}
                                        /\ db.policies = {}))
    /\ AccountsInit
    /\ part = "accounts" \/ (DOMAIN accounts = {}
                             /\ users_per_page = CHOOSE n \in Sizes : TRUE)
    /\ ListInit
    /\ part = "lists" \/ (script = "members"
                          /\ \A x \in DOMAIN stored : stored[x] = <<>>)

BrowserNext ==
    /\ UNCHANGED part
    /\ \/ /\ part = "dialogs" /\ DialogNext
          /\ UNCHANGED <<rolesVars, accountsVars, listVars>>
       \/ /\ part = "roles" /\ RolesNext
          /\ UNCHANGED <<dialogVars, accountsVars, listVars>>
       \/ /\ part = "accounts" /\ AccountsNext
          /\ UNCHANGED <<dialogVars, rolesVars, listVars>>
       \/ /\ part = "lists" /\ ListNext
          /\ UNCHANGED <<dialogVars, rolesVars, accountsVars>>
BrowserSpec == BrowserInit /\ [][BrowserNext]_allVars

\* What the properties of Dialogs, RolesPage and AccountsPage do not speak of
\* any more is not followed further, or, in a dialog, for its first opening only.
Careful ==
    /\ hasty => (opens = 1 /\ (serial < MaxRows \/ kind \in Posting))
    /\ ~rash
    /\ ~careless
=============================================================================
